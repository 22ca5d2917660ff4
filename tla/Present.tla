------------------------------ MODULE Present ------------------------------
(***************************************************************************)
(* Bringing GL up and putting frames on screen: src/platform/dri_loader.c  *)
(* and src/platform/gfx.c.                                                 *)
(*                                                                         *)
(* The loader makes up to two colour images, offers them to the display    *)
(* when it opens, and then alternates them: present flushes the frame,     *)
(* flips the image it is in, waits a bounded time for the flip, and hands  *)
(* the frontend the other image.  When the images cannot be scanned out    *)
(* the frame is read back and copied instead.  The title's thread and the  *)
(* display are two processes.  Frames are numbered 1, 2, ...; an image     *)
(* holds the number of a finished frame, or Partial while it is drawn.     *)
(***************************************************************************)
EXTENDS Integers, Sequences, FiniteSets

CONSTANTS
  MaxFrames,  \* bound: frames a title draws
  MaxFlips    \* flips the display will queue before it refuses one

ASSUME PresentAssumption == MaxFrames \in Nat /\ MaxFlips \in Nat \ {0}

Images  == {0, 1}
Own     == 2    \* the buffer oops_display_present copies into
Nothing == -1   \* the display is closed, or has shown nothing
Partial == -1

VARIABLES
  objs,        \* what exists: "gl", "screen", "drawable", "context", "display", "scanbuf",
               \* and what oops_gl_create makes without keeping hold of it
  back,        \* gl->back: the images that exist
  pc,          \* what the title's thread is doing
  draw,        \* gl->draw
  nImages,     \* gl->n_images
  registered,  \* gl->registered
  tried,       \* gl->direct_tried
  adopted,     \* images the display took when it opened
  content,     \* what each image, and the display's own buffer, holds
  front,       \* what the display scans
  flips,       \* flips queued and not yet done, oldest first
  late,        \* history: a flip that a wait gave up on is still queued
  dropped,     \* history: the frame was copied while the flip queue was full
  frame,       \* frames begun
  result       \* what the last oops_gl_present returned

glVars   == <<draw, nImages, registered, tried>>
dispVars == <<adopted, front, flips, late, dropped>>
vars == <<objs, back, pc, glVars, dispVars, content, frame, result>>

----------------------------------------------------------------------------
\* oops_gfx_create and oops_gl_create: one object after the other.

\* Nothing in the loader refers to these again: the descriptors of the two dup probes,
\* and the list of configs the screen comes with.
Unheld == {"probe", "configs"}

\* s_gfx holds one handle.  The probe of an unusual size opens the display and
\* closes it again before anything else exists.  Either dup may be refused.
GfxCreate(dups) ==
  /\ pc = "none"
  /\ objs' = objs \cup {"gl"} \cup dups
  /\ draw' = 0 /\ nImages' = 0 /\ registered' = FALSE /\ tried' = FALSE
  /\ content' = [b \in Images \cup {Own} |-> 0]
  /\ pc' = "screen"
  /\ result' = FALSE
  /\ UNCHANGED <<back, dispVars, frame>>

NextStep == [screen |-> "config", config |-> "drawable", drawable |-> "context",
             context |-> "current", current |-> "images"]

\* Config choice and make-current create nothing.
Made(step) ==
  CASE step = "screen" -> {"screen", "configs"}
    [] step \in {"config", "current"} -> {}
    [] OTHER -> {step}

CreateStep ==
  /\ pc \in DOMAIN NextStep
  /\ objs' = objs \cup Made(pc)
  /\ pc' = NextStep[pc]
  /\ UNCHANGED <<back, glVars, dispVars, content, frame, result>>

\* Mutant: the error path of make-current forgets the context.
CleanupLeavingContext(step) ==
  CASE step = "screen"   -> {"gl"}
    [] step = "config"   -> {"screen", "gl"}
    [] step = "drawable" -> {"screen", "gl"}
    [] step \in {"context", "current"} -> {"drawable", "screen", "gl"}

\* What each early return of oops_gl_create destroys.
Cleanup(step) ==
  CASE step = "screen"   -> {"gl"}
    [] step = "config"   -> {"screen", "gl"}
    [] step = "drawable" -> {"screen", "gl"}
    [] step = "context"  -> {"drawable", "screen", "gl"}
    [] step = "current"  -> {"context", "drawable", "screen", "gl"}

CreateFails ==
  /\ pc \in DOMAIN NextStep
  /\ objs' = objs \ Cleanup(pc)
  /\ pc' = "none"
  /\ UNCHANGED <<back, glVars, dispVars, content, frame, result>>

\* The loop over ensure_back_image stops at the first image Mesa will not make.
MakeImages(n) ==
  /\ pc = "images"
  /\ back' = {i \in Images : i < n}
  /\ nImages' = n
  /\ pc' = "display"
  /\ UNCHANGED <<objs, draw, registered, tried, dispVars, content, frame, result>>

\* All or nothing: the images are offered only if every one of them is scannable.
Offer(scannable) == IF scannable = back THEN scannable ELSE {}

\* oops_display_open_adopting.  The display may take fewer images than it was
\* offered, and without it, or without the readback frame, GL is up all the same.
OpenDisplay(scannable, taken) ==
  /\ pc = "display"
  /\ taken \subseteq Offer(scannable)
  /\ adopted' = taken
  /\ objs' = objs \cup {"display", "scanbuf"}
  /\ pc' = "idle"
  /\ UNCHANGED <<back, glVars, content, front, flips, late, dropped, frame, result>>

DisplayFails ==
  /\ pc = "display"
  /\ pc' = "idle"
  /\ UNCHANGED <<objs, back, glVars, dispVars, content, frame, result>>

----------------------------------------------------------------------------
\* The title draws a frame and presents it.

Which == IF draw > 1 THEN 0 ELSE draw

\* oops_get_buffers, on the first draw of a frame: the image is made if it is
\* missing, and kept.
BeginFrame ==
  /\ pc = "idle"
  /\ frame < MaxFrames
  /\ frame' = frame + 1
  /\ back' = back \cup {Which}
  /\ content' = [content EXCEPT ![Which] = Partial]
  /\ dropped' = FALSE
  /\ pc' = "draw"
  /\ UNCHANGED <<objs, glVars, adopted, front, flips, late, result>>

\* Mesa could not make the missing image: the frame has nothing to be drawn into.
BeginWithoutImage ==
  /\ pc = "idle"
  /\ frame < MaxFrames
  /\ Which \notin back
  /\ frame' = frame + 1
  /\ dropped' = FALSE
  /\ pc' = "draw"
  /\ UNCHANGED <<objs, back, glVars, adopted, front, flips, late, content, result>>

\* dri_flush_drawable, then try_direct_scanout, the first time.
HaveIndices == "display" \in objs /\ nImages > 0 /\ \A i \in 0 .. nImages - 1 : i \in adopted

Flush ==
  /\ pc = "draw"
  /\ content' = IF Which \in back THEN [content EXCEPT ![Which] = frame] ELSE content
  /\ registered' = IF tried THEN registered ELSE HaveIndices
  /\ tried' = TRUE
  /\ pc' = IF registered' THEN "flip" ELSE "readback"
  /\ UNCHANGED <<objs, back, draw, nImages, dispVars, frame, result>>

Shown == IF draw < nImages THEN draw ELSE 0

\* With a second image the flip is waited for before it is drawn into.
Flip ==
  /\ pc = "flip"
  /\ Len(flips) < MaxFlips
  /\ Shown \in adopted
  /\ flips' = Append(flips, Shown)
  /\ IF nImages > 1
     THEN pc' = "wait" /\ UNCHANGED result
     ELSE pc' = "idle" /\ result' = TRUE
  /\ UNCHANGED <<objs, back, glVars, adopted, content, front, late, dropped, frame>>

\* Mutant: a refused flip is reported as a shown frame.
FlipIgnored ==
  /\ pc = "flip"
  /\ pc' = "idle"
  /\ result' = TRUE
  /\ UNCHANGED <<objs, back, glVars, dispVars, content, frame>>

\* A refused flip ends direct scanout for good; this frame is read back.
FlipRefused ==
  /\ pc = "flip"
  /\ registered' = FALSE
  /\ pc' = "readback"
  /\ UNCHANGED <<objs, back, draw, nImages, tried, dispVars, content, frame, result>>

Flipped == flips = <<>>

\* Mutant: the wait has no bound.
AlternateOnceFlipped ==
  /\ pc = "wait"
  /\ Flipped
  /\ draw' = (draw + 1) % nImages
  /\ pc' = "idle"
  /\ result' = TRUE
  /\ late' = ~Flipped
  /\ UNCHANGED <<objs, back, nImages, registered, tried, adopted, front, flips, dropped,
                 content, frame>>

\* Mutant: the next frame goes into the image just shown.
AlternateNot ==
  /\ pc = "wait"
  /\ pc' = "idle"
  /\ result' = TRUE
  /\ late' = ~Flipped
  /\ UNCHANGED <<objs, back, glVars, adopted, front, flips, dropped, content, frame>>

\* oops_display_wait_scanout returns when the flip is done or about 100 ms are over;
\* which of the two is not looked at.
Alternate ==
  /\ pc = "wait"
  /\ draw' = (draw + 1) % nImages
  /\ pc' = "idle"
  /\ result' = TRUE
  /\ late' = ~Flipped
  /\ UNCHANGED <<objs, back, nImages, registered, tried, adopted, front, flips, dropped,
                 content, frame>>

\* What glReadPixels leaves in scanbuf: the frame, or, with no image to read, what was
\* there before, which no frame was ever read into.
ReadPixels == IF Which \in back THEN content[Which] ELSE Partial

\* Mutant: the display is given its buffer as the last copy left it.
ReadbackStale ==
  /\ pc = "readback"
  /\ IF {"display", "scanbuf"} \subseteq objs /\ Len(flips) < MaxFlips
     THEN flips' = Append(flips, Own) /\ result' = TRUE
     ELSE UNCHANGED flips /\ result' = FALSE
  /\ pc' = "idle"
  /\ UNCHANGED <<objs, back, glVars, adopted, late, dropped, front, content, frame>>

\* The copy through scanbuf into the display's own buffer, whose flip is submitted behind
\* those already queued; that the queue is full is not reported to present.  Without a
\* display, or a frame to read into, there is nothing to show it on.
Readback ==
  /\ pc = "readback"
  /\ \/ /\ {"display", "scanbuf"} \subseteq objs
        /\ content' = [content EXCEPT ![Own] = ReadPixels]
        /\ dropped' = (Len(flips) >= MaxFlips)
        /\ flips' = IF dropped' THEN flips ELSE Append(flips, Own)
        /\ result' = TRUE
     \/ /\ ~({"display", "scanbuf"} \subseteq objs)
        /\ result' = FALSE
        /\ UNCHANGED <<content, flips, dropped>>
  /\ pc' = "idle"
  /\ UNCHANGED <<objs, back, glVars, adopted, front, late, frame>>

----------------------------------------------------------------------------
\* oops_gfx_destroy and oops_gl_destroy, in the code's order.

DestroyDisplay ==
  /\ pc = "idle"
  /\ objs' = objs \ {"scanbuf", "display"}
  /\ adopted' = {} /\ front' = Nothing /\ flips' = <<>>
  /\ late' = FALSE /\ dropped' = FALSE
  /\ pc' = "free images"
  /\ UNCHANGED <<back, glVars, content, frame, result>>

\* Mutant: the images go while the display is still scanning them.
DestroyImagesFirst ==
  /\ pc \in {"idle", "free images"}
  /\ back' = {}
  /\ pc' = IF pc = "idle" THEN "idle" ELSE "free rest"
  /\ UNCHANGED <<objs, glVars, dispVars, content, frame, result>>

DestroyImages ==
  /\ pc = "free images"
  /\ back' = {}
  /\ pc' = "free rest"
  /\ UNCHANGED <<objs, glVars, dispVars, content, frame, result>>

DestroyRest ==
  /\ pc = "free rest"
  /\ objs' = objs \ {"context", "drawable", "screen", "gl"}
  /\ pc' = "none"
  /\ UNCHANGED <<back, glVars, dispVars, content, frame, result>>

\* The display, as the loader expects it: flips are done in order, one a refresh.
Vblank ==
  /\ flips # <<>>
  /\ front' = Head(flips)
  /\ flips' = Tail(flips)
  /\ late' = (late /\ flips' # <<>>)
  /\ UNCHANGED <<objs, back, pc, glVars, adopted, dropped, content, frame, result>>

----------------------------------------------------------------------------
Init ==
  /\ objs = {} /\ back = {} /\ pc = "none"
  /\ draw = 0 /\ nImages = 0 /\ registered = FALSE /\ tried = FALSE
  /\ adopted = {} /\ front = Nothing /\ flips = <<>>
  /\ late = FALSE /\ dropped = FALSE
  /\ content = [b \in Images \cup {Own} |-> 0]
  /\ frame = 0 /\ result = FALSE

PresentStep == Flush \/ Flip \/ FlipRefused \/ Alternate \/ Readback

Next ==
  \/ \E dups \in SUBSET {"probe"} : GfxCreate(dups)
  \/ CreateStep \/ CreateFails
  \/ \E n \in 0 .. 2 : MakeImages(n)
  \/ \E scannable \in SUBSET back, taken \in SUBSET back : OpenDisplay(scannable, taken)
  \/ DisplayFails
  \/ BeginFrame \/ BeginWithoutImage \/ PresentStep
  \/ DestroyDisplay \/ DestroyImages \/ DestroyRest
  \/ Vblank

\* A present under way goes on: it is a loop-free call of the title's thread, but for
\* the wait, which ends by itself.  Nothing is assumed of the display.
Fairness == WF_vars(PresentStep)

Spec == Init /\ [][Next]_vars /\ Fairness

----------------------------------------------------------------------------
\* Properties.

OnScreen == {front} \cup {flips[k] : k \in 1 .. Len(flips)}

\* With two images the display never scans, and is never about to scan, the one
\* radeonsi is drawing into, except while a flip that a wait gave up on is still queued:
\* when the display has caught up the alternation is whole again.
NoTearing ==
  nImages = 2 /\ ~late =>
    \A i \in Images : content[i] = Partial => i \notin OnScreen

\* The display only scans memory that exists: it is closed before the images go, and
\* an image without a flip index is never flipped.
ScansLiveImages == OnScreen \cap Images \subseteq back \cap adopted

\* A present that answered true put its frame on screen, or in the queue for it.  There
\* are two ways for it not to be so: Mesa never made an image to draw into, and the
\* frame was copied while the display's queue was full.
TrueMeansShown ==
  pc = "idle" /\ result /\ Which \in back /\ ~dropped =>
    frame \in {content[b] : b \in OnScreen \ {Nothing}}

\* Whichever step of bring-up fails, and after every teardown, nothing is left that the
\* loader held: only what it never kept hold of.
NothingLeft == pc = "none" => objs \subseteq Unheld /\ back = {} /\ OnScreen = {Nothing}

\* What the display scans never goes back to an earlier frame, across flips, the fallback
\* to copying, and a display that catches up.  A single image is drawn while it is
\* scanned, so that a copy of an earlier frame may still follow it.
Scanned(f, c) == IF f = Nothing THEN 0 ELSE c[f]

NeverBackwards ==
  [][~late /\ nImages # 1 /\ front' # Nothing /\ Scanned(front, content) # Partial
       => Scanned(front', content') \in {Partial} \cup
            {n \in 0 .. MaxFrames : n >= Scanned(front, content)}]_vars

\* Every present returns, even if the display never refreshes again.
PresentReturns == pc \in {"draw", "flip", "wait", "readback"} ~> pc = "idle"

============================================================================
