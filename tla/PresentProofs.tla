--------------------------- MODULE PresentProofs ----------------------------
(***************************************************************************)
(* Proofs about Present, for any number of frames and any depth of the     *)
(* display's flip queue.  The properties are steps apart from what makes   *)
(* them true, so the invariant follows the loader's own phases: bringing   *)
(* up (Rising), drawing and presenting (Open), tearing down.               *)
(***************************************************************************)
EXTENDS Present, SequenceTheorems, TLAPS

Rising  == {"screen", "config", "drawable", "context", "current", "images", "display"}
Open    == {"idle", "draw", "flip", "wait", "readback"}
Falling == {"free images", "free rest"}

Base == {"gl", "screen", "drawable", "context"}

\* What the display can be flipped to.
Screens == Images \cup {Own}

PresentTypeOK ==
  /\ objs \subseteq Base \cup {"display", "scanbuf"} \cup Unheld
  /\ pc \in {"none"} \cup Rising \cup Open \cup Falling
  /\ draw \in {0, 1} /\ nImages \in {0, 1, 2}
  /\ registered \in BOOLEAN /\ tried \in BOOLEAN /\ result \in BOOLEAN
  /\ late \in BOOLEAN /\ dropped \in BOOLEAN
  /\ back \subseteq Images /\ adopted \subseteq Images
  /\ content \in [Images \cup {Own} -> Int]
  /\ front \in {Nothing, Own} \cup Images
  /\ flips \in Seq(Screens)
  /\ frame \in 0 .. MaxFrames

\* What exists, but for what the loader never kept hold of.
Held == objs \ Unheld

\* What is held at each step of bring-up and teardown, so that each early return of
\* oops_gl_create has exactly the objects it destroys.
Existing ==
  /\ pc = "none" => Held = {}
  /\ pc = "screen" => Held = {"gl"}
  /\ pc \in {"config", "drawable"} => Held = {"gl", "screen"}
  /\ pc = "context" => Held = {"gl", "screen", "drawable"}
  /\ pc \in {"current", "images", "display"} \cup Falling => Held = Base
  /\ pc \in Open => Held \in {Base, Base \cup {"display", "scanbuf"}}
  /\ pc \in {"none", "free rest"} \cup (Rising \ {"display"}) => back = {}
  /\ pc = "display" => back = {i \in Images : i < nImages}
  /\ pc \in Open => \A i \in Images : i < nImages => i \in back

\* A display that is not open scans nothing.
Closed ==
  pc \notin Open => adopted = {} /\ front = Nothing /\ flips = <<>> /\ ~late

\* The display took images that exist and that present alternates, and is only ever asked
\* to flip to one it took, or to its own.
Adopted ==
  /\ adopted \subseteq back
  /\ \A i \in adopted : i < nImages
  /\ \A k \in 1 .. Len(flips) : flips[k] \in adopted \cup {Own}
  /\ front \in {Nothing, Own} \cup adopted

\* A frame was copied for the display, and it scans the copy or will.
Copying == front = Own \/ \E k \in 1 .. Len(flips) : flips[k] = Own

\* Direct scanout is on only with a flip index for every image, and once a frame has been
\* copied it is off for good.
Direct ==
  /\ pc \in Rising => ~registered /\ ~tried /\ ~result /\ draw = 0
  /\ registered /\ pc \in Open =>
       tried /\ "display" \in objs /\ nImages > 0 /\ \A i \in Images : i < nImages => i \in adopted
  /\ pc \in {"flip", "wait"} => registered
  /\ pc = "wait" => nImages = 2
  /\ pc = "readback" => ~registered /\ tried
  /\ Copying => ~registered /\ tried
  /\ nImages < 2 => draw = 0

\* Only the image being drawn is partial, nothing holds a later frame than the current
\* one, and from flush to the end of present that image holds it.
Contents ==
  /\ \A b \in Images \cup {Own} : content[b] <= frame /\ content[b] >= Partial
  /\ \A i \in Images : content[i] = Partial <=> pc = "draw" /\ i = draw /\ draw \in back
  /\ pc \in {"flip", "wait", "readback"} /\ draw \in back => content[draw] = frame

\* What the display scans when it has done every flip: what was flipped or copied last.
LastUp == IF flips = <<>> THEN front ELSE flips[Len(flips)]

Latest ==
  /\ pc = "wait" => LastUp = draw
  /\ pc = "idle" /\ result /\ draw \in back /\ ~dropped =>
       LastUp # Nothing /\ content[LastUp] = frame

\* With two images the display ends up off the image to draw into, and is there already
\* when no flip is late: only the flip being waited for, or copies, are queued.
OnTime ==
  nImages = 2 =>
    /\ pc \in Open \ {"wait"} => LastUp # draw
    /\ ~late /\ pc \in Open \ {"wait"} =>
         front # draw /\ \A k \in 1 .. Len(flips) : flips[k] = Own
    /\ ~late /\ pc = "wait" => Len(flips) <= 1

\* A copy is no older than the image that is not drawn any more.
Ahead ==
  nImages = 2 /\ Copying =>
    \A i \in Images : i # draw => content[i] <= content[Own]

PresentInv ==
  /\ PresentTypeOK /\ Existing /\ Closed /\ Adopted /\ Direct /\ Contents /\ Latest /\ OnTime
  /\ Ahead

----------------------------------------------------------------------------
\* What the five early steps of oops_gl_create lead to.
LEMMA NextStepIs ==
  /\ DOMAIN NextStep = {"screen", "config", "drawable", "context", "current"}
  /\ NextStep["screen"] = "config" /\ NextStep["config"] = "drawable"
  /\ NextStep["drawable"] = "context" /\ NextStep["context"] = "current"
  /\ NextStep["current"] = "images"
  BY DEF NextStep

\* A flip that is queued comes last.
LEMMA Queued ==
  ASSUME NEW s \in Seq(Screens), NEW i \in Screens
  PROVE  /\ Append(s, i) \in Seq(Screens) /\ Append(s, i) # <<>>
         /\ Len(s) \in Nat /\ Len(Append(s, i)) = Len(s) + 1
         /\ Append(s, i)[Len(s) + 1] = i
         /\ \A k \in 1 .. Len(s) : Append(s, i)[k] = s[k]
         /\ s = <<>> => Len(s) = 0
  BY AppendProperties, LenProperties

\* A flip that is done was the oldest; the last one queued stays last until it is done.
LEMMA Dequeued ==
  ASSUME NEW s \in Seq(Screens), s # <<>>
  PROVE  /\ Tail(s) \in Seq(Screens) /\ Head(s) = s[1]
         /\ Len(s) \in Nat \ {0} /\ Len(Tail(s)) = Len(s) - 1
         /\ \A k \in 1 .. Len(s) - 1 : Tail(s)[k] = s[k + 1]
         /\ Tail(s) = <<>> => Head(s) = s[Len(s)]
         /\ Tail(s) # <<>> => Tail(s)[Len(Tail(s))] = s[Len(s)] /\ Len(s) > 1
         /\ Len(s) = 1 => Tail(s) = <<>>
<1>1. Len(s) \in Nat \ {0}
  BY EmptySeq
<1>2. Head(s) = s[1]
  BY <1>1
<1>3. /\ Tail(s) \in Seq(Screens) /\ Len(Tail(s)) = Len(s) - 1
      /\ \A k \in 1 .. Len(s) - 1 : Tail(s)[k] = s[k + 1]
  BY HeadTailProperties
<1>4. ASSUME Tail(s) = <<>> PROVE Len(s) = 1
  <2>1. Len(<<>>) = 0
    OBVIOUS
  <2>2. Len(Tail(s)) = 0
    BY <1>4, <2>1, Zenon
  <2>3. Len(Tail(s)) = Len(s) - 1
    BY <1>3
  <2>4. QED
    BY <1>1, <2>2, <2>3
<1>5. Tail(s) # <<>> => Len(Tail(s)) \in Nat \ {0}
  BY <1>3, EmptySeq
<1>6. Tail(s) # <<>> => Tail(s)[Len(Tail(s))] = s[Len(s)] /\ Len(s) > 1
  BY <1>1, <1>3, <1>5
<1>7. Len(s) = 1 => Tail(s) = <<>>
  BY <1>3, <1>5
<1>8. QED
  BY <1>1, <1>2, <1>3, <1>4, <1>6, <1>7

\* oops_get_buffers draws into gl->draw, which is 0 or 1.
LEMMA WhichIsDraw ==
  ASSUME PresentTypeOK
  PROVE  Which = draw
  BY DEF PresentTypeOK, Which

\* Only the flip queue, what is scanned and what is held change what is copied or last.
LEMMA SameQueue ==
  ASSUME UNCHANGED <<front, flips>>
  PROVE  /\ LastUp' = LastUp /\ Copying' = Copying
  BY DEF LastUp, Copying

\* With nothing queued and nothing scanned, nothing was copied and nothing is last.
LEMMA NothingUp ==
  ASSUME front = Nothing, flips = <<>>
  PROVE  LastUp = Nothing /\ ~Copying /\ Len(flips) = 0
<1>1. Len(flips) = 0
  OBVIOUS
<1>2. QED
  BY <1>1 DEF LastUp, Copying, Nothing, Own

\* Steps before the display is open, and after it is closed, keep it idle.
LEMMA IdleParts ==
  ASSUME pc' \notin Open, front' = Nothing, flips' = <<>>, adopted' = {}, ~late'
  PROVE  /\ Closed' /\ Adopted' /\ Latest' /\ OnTime' /\ Ahead'
         /\ ~Copying' /\ Len(flips') = 0
<1>1. (LastUp = Nothing /\ ~Copying /\ Len(flips) = 0)'
  <2>1. Len(flips') = 0
    OBVIOUS
  <2>2. QED
    BY <2>1 DEF LastUp, Copying, Nothing, Own
<1>2. Closed'
  BY DEF Closed
<1>3. Adopted'
  BY <1>1 DEF Adopted
<1>4. Latest' /\ OnTime'
  BY <1>1 DEF Latest, OnTime, Open
<1>5. Ahead'
  BY <1>1 DEF Ahead
<1>6. QED
  BY <1>1, <1>2, <1>3, <1>4, <1>5

\* No step of the loader, the title or the display breaks the invariant.
LEMMA PresentStepInv ==
  ASSUME PresentInv, [Next]_vars
  PROVE  PresentInv'
<1> USE DEF Images, Own, Nothing, Partial, glVars, dispVars
<1>a. /\ PresentTypeOK /\ Existing /\ Closed /\ Adopted /\ Direct /\ Contents /\ Latest /\ OnTime
      /\ Ahead
  BY DEF PresentInv
<1>0. CASE UNCHANGED vars
  <2>1. UNCHANGED <<objs, back, pc, draw, nImages, registered, tried, adopted, front, flips,
                    late, dropped, content, frame, result>>
    BY <1>0 DEF vars
  <2>2. LastUp' = LastUp /\ Copying' = Copying
    BY <2>1, SameQueue
  <2>3. PresentTypeOK' /\ Closed' /\ Adopted'
    BY <1>a, <2>1 DEF PresentTypeOK, Closed, Adopted
  <2>6. Existing'
    BY <1>a, <2>1 DEF Existing, Held
  <2>4. Direct' /\ Contents' /\ Latest' /\ OnTime' /\ Ahead'
    BY <1>a, <2>1, <2>2 DEF Direct, Contents, Latest, OnTime, Ahead
  <2>5. QED
    BY <2>3, <2>4, <2>6 DEF PresentInv
<1>1. ASSUME NEW dups \in SUBSET {"probe"}, GfxCreate(dups) PROVE PresentInv'
  <2>1. /\ pc = "none" /\ pc' = "screen" /\ objs' = objs \cup {"gl"} \cup dups
        /\ draw' = 0 /\ nImages' = 0 /\ registered' = FALSE /\ tried' = FALSE
        /\ result' = FALSE /\ content' = [b \in Images \cup {Own} |-> 0]
        /\ UNCHANGED <<back, adopted, front, flips, late, dropped, frame>>
    BY <1>1 DEF GfxCreate
  <2>2. Closed' /\ Adopted' /\ Latest' /\ OnTime' /\ Ahead' /\ ~Copying'
    BY <1>a, <2>1, IdleParts DEF Closed, Open
  <2>3. PresentTypeOK'
    BY <1>a, <2>1 DEF PresentTypeOK, Rising, Unheld, Base
  <2>4. Existing'
    <3>1. Held' = {"gl"} /\ back' = {}
      BY <1>a, <2>1 DEF Existing, Held, Unheld
    <3>2. QED
      BY <2>1, <3>1 DEF Existing, Rising, Open, Falling
  <2>5. Direct'
    BY <2>1, <2>2 DEF Direct, Rising, Open
  <2>6. Contents'
    BY <1>a, <2>1, PresentAssumption DEF Contents, PresentTypeOK
  <2>7. QED
    BY <2>2, <2>3, <2>4, <2>5, <2>6 DEF PresentInv
<1>2. CASE CreateStep
  <2>1. /\ pc \in {"screen", "config", "drawable", "context", "current"}
        /\ pc' \in {"config", "drawable", "context", "current", "images"}
        /\ pc = "screen" => pc' = "config" /\ objs' = objs \cup {"screen", "configs"}
        /\ pc = "config" => pc' = "drawable" /\ objs' = objs
        /\ pc = "drawable" => pc' = "context" /\ objs' = objs \cup {"drawable"}
        /\ pc = "context" => pc' = "current" /\ objs' = objs \cup {"context"}
        /\ pc = "current" => pc' = "images" /\ objs' = objs
        /\ UNCHANGED <<back, draw, nImages, registered, tried, adopted, front, flips, late,
                       dropped, content, frame, result>>
    BY <1>2, NextStepIs DEF CreateStep, Made
  <2>2. Existing'
    <3>1. /\ pc = "screen" => Held' = {"gl", "screen"}
          /\ pc \in {"config", "drawable", "context", "current"} =>
               Held' = Held \cup (objs' \ objs)
      BY <1>a, <2>1 DEF Held, Unheld, Existing
    <3>2. pc \in {"config", "current"} => Held' = Held
      BY <2>1 DEF Held
    <3>3. /\ pc = "drawable" => Held' = {"gl", "screen", "drawable"}
          /\ pc = "context" => Held' = Base
      BY <1>a, <2>1 DEF Held, Unheld, Existing, Base
    <3>4. QED
      BY <1>a, <2>1, <3>1, <3>2, <3>3 DEF Existing, Rising, Open, Falling, Base
  <2>3. PresentTypeOK'
    <3>1. objs \subseteq Base \cup {"display", "scanbuf"} \cup Unheld
      BY <1>a DEF PresentTypeOK
    <3>2. objs' \subseteq objs \cup {"screen", "configs", "drawable", "context"}
      BY <2>1
    <3>3. {"screen", "configs", "drawable", "context"} \subseteq Base \cup Unheld
      BY DEF Base, Unheld
    <3>4. objs' \subseteq Base \cup {"display", "scanbuf"} \cup Unheld
      BY <3>1, <3>2, <3>3
    <3>5. pc' \in Rising
      BY <2>1 DEF Rising
    <3>6. QED
      BY <1>a, <2>1, <3>4, <3>5 DEF PresentTypeOK
  <2>4. Closed' /\ Adopted' /\ Latest' /\ OnTime' /\ Ahead' /\ ~Copying'
    BY <1>a, <2>1, IdleParts DEF Closed, Open
  <2>5. Direct' /\ Contents'
    BY <1>a, <2>1, <2>4 DEF Direct, Contents, Rising, Open
  <2>6. QED
    BY <2>2, <2>3, <2>4, <2>5 DEF PresentInv
<1>3. CASE CreateFails
  <2>1. /\ pc \in {"screen", "config", "drawable", "context", "current"} /\ pc' = "none"
        /\ objs' = objs \ Cleanup(pc)
        /\ UNCHANGED <<back, draw, nImages, registered, tried, adopted, front, flips, late,
                       dropped, content, frame, result>>
    BY <1>3, NextStepIs DEF CreateFails
  <2>2. Held \subseteq Cleanup(pc)
    BY <1>a, <2>1 DEF Existing, Cleanup, Rising, Open, Falling, Base
  <2>3. Held' = {}
    BY <2>1, <2>2 DEF Held
  <2>4. Existing'
    BY <1>a, <2>1, <2>3 DEF Existing, Rising, Open, Falling
  <2>8. PresentTypeOK'
    <3>1. objs' \subseteq objs
      BY <2>1
    <3>2. QED
      BY <1>a, <2>1, <3>1 DEF PresentTypeOK
  <2>5. Closed' /\ Adopted' /\ Latest' /\ OnTime' /\ Ahead' /\ ~Copying'
    BY <1>a, <2>1, IdleParts DEF Closed, Open
  <2>6. Direct' /\ Contents'
    BY <1>a, <2>1, <2>5 DEF Direct, Contents, Rising, Open
  <2>7. QED
    BY <2>4, <2>8, <2>5, <2>6 DEF PresentInv
<1>4. ASSUME NEW n \in 0 .. 2, MakeImages(n) PROVE PresentInv'
  <2>1. /\ pc = "images" /\ pc' = "display" /\ back' = {i \in Images : i < n} /\ nImages' = n
        /\ UNCHANGED <<objs, draw, registered, tried, adopted, front, flips, late, dropped,
                       content, frame, result>>
    BY <1>4 DEF MakeImages
  <2>2. Closed' /\ Adopted' /\ Latest' /\ OnTime' /\ Ahead' /\ ~Copying'
    BY <1>a, <2>1, IdleParts DEF Closed, Open
  <2>3. PresentTypeOK'
    BY <1>a, <2>1 DEF PresentTypeOK, Rising
  <2>4. Existing'
    <3>1. Held' = Base
      BY <1>a, <2>1 DEF Existing, Held
    <3>2. QED
      BY <2>1, <3>1 DEF Existing, Rising, Open, Falling
  <2>5. Direct' /\ Contents'
    BY <1>a, <2>1, <2>2 DEF Direct, Contents, Rising, Open
  <2>6. QED
    BY <2>2, <2>3, <2>4, <2>5 DEF PresentInv
<1>5. ASSUME NEW scannable \in SUBSET back, NEW taken \in SUBSET back,
             OpenDisplay(scannable, taken)
      PROVE  PresentInv'
  <2>1. /\ pc = "display" /\ pc' = "idle" /\ adopted' = taken
        /\ objs' = objs \cup {"display", "scanbuf"}
        /\ UNCHANGED <<back, draw, nImages, registered, tried, front, flips, late, dropped,
                       content, frame, result>>
    BY <1>5 DEF OpenDisplay
  <2>2. front = Nothing /\ flips = <<>> /\ ~late
    BY <1>a, <2>1 DEF Closed, Open
  <2>3. LastUp' = Nothing /\ ~Copying' /\ Len(flips') = 0
    BY <2>1, <2>2, NothingUp, SameQueue
  <2>4. PresentTypeOK'
    BY <1>a, <2>1 DEF PresentTypeOK, Open
  <2>5. Existing'
    <3>1. Held' = Base \cup {"display", "scanbuf"}
      BY <1>a, <2>1 DEF Existing, Held, Unheld
    <3>2. back' = {i \in Images : i < nImages}
      BY <1>a, <2>1 DEF Existing
    <3>3. QED
      BY <2>1, <3>1, <3>2 DEF Existing, Rising, Open, Falling
  <2>6. Closed' /\ Adopted'
    BY <1>a, <2>1, <2>2, <2>3 DEF Closed, Adopted, Existing, Open
  <2>7. Direct' /\ Contents'
    BY <1>a, <2>1, <2>3 DEF Direct, Contents, Rising, Open
  <2>8. Latest' /\ OnTime' /\ Ahead'
    BY <1>a, <2>1, <2>2, <2>3 DEF Latest, OnTime, Ahead, Direct, Rising, Open, PresentTypeOK
  <2>9. QED
    BY <2>4, <2>5, <2>6, <2>7, <2>8 DEF PresentInv
<1>6. CASE DisplayFails
  <2>1. /\ pc = "display" /\ pc' = "idle"
        /\ UNCHANGED <<objs, back, draw, nImages, registered, tried, adopted, front, flips, late,
                       dropped, content, frame, result>>
    BY <1>6 DEF DisplayFails
  <2>2. front = Nothing /\ flips = <<>> /\ ~late /\ adopted = {}
    BY <1>a, <2>1 DEF Closed, Open
  <2>3. LastUp' = Nothing /\ ~Copying' /\ Len(flips') = 0
    BY <2>1, <2>2, NothingUp, SameQueue
  <2>4. PresentTypeOK'
    BY <1>a, <2>1 DEF PresentTypeOK, Open
  <2>5. Existing'
    <3>1. Held' = Base
      BY <1>a, <2>1 DEF Existing, Held
    <3>2. back' = {i \in Images : i < nImages}
      BY <1>a, <2>1 DEF Existing
    <3>3. QED
      BY <2>1, <3>1, <3>2 DEF Existing, Rising, Open, Falling
  <2>6. Closed' /\ Adopted'
    BY <1>a, <2>1, <2>2, <2>3 DEF Closed, Adopted, Open
  <2>7. Direct' /\ Contents'
    BY <1>a, <2>1, <2>3 DEF Direct, Contents, Rising, Open
  <2>8. Latest' /\ OnTime' /\ Ahead'
    BY <1>a, <2>1, <2>2, <2>3 DEF Latest, OnTime, Ahead, Direct, Rising, Open, PresentTypeOK
  <2>9. QED
    BY <2>4, <2>5, <2>6, <2>7, <2>8 DEF PresentInv
<1>7. CASE BeginFrame \/ BeginWithoutImage
  <2>1. /\ pc = "idle" /\ pc' = "draw" /\ frame' = frame + 1 /\ frame < MaxFrames
        /\ dropped' = FALSE
        /\ UNCHANGED <<objs, draw, nImages, registered, tried, adopted, front, flips, late, result>>
        /\ \/ /\ back' = back \cup {draw} /\ content' = [content EXCEPT ![draw] = Partial]
           \/ /\ back' = back /\ content' = content /\ draw \notin back
    BY <1>7, <1>a, WhichIsDraw DEF BeginFrame, BeginWithoutImage
  <2>2. LastUp' = LastUp /\ Copying' = Copying
    BY <2>1, SameQueue
  <2>3. /\ content' \in [Images \cup {Own} -> Int] /\ draw \in Images /\ frame \in Nat
        /\ \A b \in Images \cup {Own} :
             content'[b] = IF b = draw /\ draw \in back' THEN Partial ELSE content[b]
    BY <1>a, <2>1, PresentAssumption DEF PresentTypeOK
  <2>4. PresentTypeOK'
    <3>1. frame' \in 0 .. MaxFrames
      BY <1>a, <2>1, PresentAssumption DEF PresentTypeOK
    <3>2. back' \subseteq Images
      BY <1>a, <2>1, <2>3 DEF PresentTypeOK
    <3>3. pc' \in Open
      BY <2>1 DEF Open
    <3>4. QED
      BY <1>a, <2>1, <2>3, <3>1, <3>2, <3>3 DEF PresentTypeOK
  <2>5. Existing'
    <3>1. Held' = Held
      BY <2>1 DEF Held
    <3>2. QED
      BY <1>a, <2>1, <3>1 DEF Existing, Rising, Open, Falling
  <2>6. Closed' /\ Adopted'
    BY <1>a, <2>1 DEF Closed, Adopted, Open
  <2>7. Direct'
    BY <1>a, <2>1, <2>2 DEF Direct, Rising, Open
  <2>8. Contents'
    <3>1. \A b \in Images \cup {Own} : content[b] \in Int /\ content[b] <= frame /\ content[b] >= Partial
      BY <1>a DEF Contents, PresentTypeOK
    <3>2. \A b \in Images \cup {Own} : content'[b] <= frame' /\ content'[b] >= Partial
      BY <2>1, <2>3, <3>1
    <3>3. \A i \in Images : content[i] # Partial
      BY <1>a, <2>1 DEF Contents
    <3>4. QED
      BY <2>1, <2>3, <3>2, <3>3 DEF Contents
  <2>9. Latest' /\ OnTime'
    BY <1>a, <2>1, <2>2 DEF Latest, OnTime, Open
  <2>10. Ahead'
    BY <1>a, <2>1, <2>2, <2>3 DEF Ahead
  <2>11. QED
    BY <2>4, <2>5, <2>6, <2>7, <2>8, <2>9, <2>10 DEF PresentInv
<1>8. CASE Flush
  <2>1. /\ registered' \in BOOLEAN /\ pc' \in {"flip", "readback"}
        /\ pc' = "flip" <=> registered'
        /\ registered' => ("display" \in objs /\ nImages > 0
                            /\ \A i \in Images : i < nImages => i \in adopted)
    <3>1. HaveIndices \in BOOLEAN
      BY DEF HaveIndices
    <3>2. HaveIndices => ("display" \in objs /\ nImages > 0
                            /\ \A i \in Images : i < nImages => i \in adopted)
      <4>1. \A i \in Images : i < nImages => i \in 0 .. nImages - 1
        BY <1>a DEF PresentTypeOK
      <4>2. QED
        BY <4>1 DEF HaveIndices
    <3>3. QED
      BY <1>8, <1>a, <3>1, <3>2 DEF Flush, Direct, PresentTypeOK, Open
  <2>2. /\ pc = "draw" /\ tried' = TRUE
        /\ tried => registered' = registered
        /\ content' = IF draw \in back THEN [content EXCEPT ![draw] = frame] ELSE content
        /\ UNCHANGED <<objs, back, draw, nImages, adopted, front, flips, late, dropped, frame, result>>
    BY <1>8, <1>a, WhichIsDraw DEF Flush
  <2>3. LastUp' = LastUp /\ Copying' = Copying
    BY <2>2, SameQueue
  <2>4. /\ content' \in [Images \cup {Own} -> Int] /\ draw \in Images /\ frame \in Nat
        /\ \A b \in Images \cup {Own} :
             content'[b] = IF b = draw /\ draw \in back THEN frame ELSE content[b]
    BY <1>a, <2>2, PresentAssumption DEF PresentTypeOK
  <2>5. PresentTypeOK'
    <3>1. pc' \in Open
      BY <2>1 DEF Open
    <3>2. QED
      BY <1>a, <2>1, <2>2, <2>4, <3>1 DEF PresentTypeOK
  <2>6. Existing'
    <3>1. Held' = Held
      BY <2>2 DEF Held
    <3>2. QED
      BY <1>a, <2>1, <2>2, <3>1 DEF Existing, Rising, Open, Falling
  <2>7. Closed' /\ Adopted'
    BY <1>a, <2>1, <2>2 DEF Closed, Adopted, Open
  <2>8. Direct'
    BY <1>a, <2>1, <2>2, <2>3 DEF Direct, Rising, Open
  <2>9. Contents'
    <3>1. \A b \in Images \cup {Own} : content[b] \in Int /\ content[b] <= frame /\ content[b] >= Partial
      BY <1>a DEF Contents, PresentTypeOK
    <3>2. \A b \in Images \cup {Own} : content'[b] <= frame' /\ content'[b] >= Partial
      BY <2>2, <2>4, <3>1
    <3>3. \A i \in Images : content'[i] # Partial
      BY <1>a, <2>2, <2>4 DEF Contents
    <3>4. draw \in back => content'[draw] = frame
      BY <2>4
    <3>5. QED
      BY <2>1, <2>2, <3>2, <3>3, <3>4 DEF Contents
  <2>10. Latest' /\ OnTime'
    BY <1>a, <2>1, <2>2, <2>3 DEF Latest, OnTime, Open
  <2>11. Ahead'
    BY <1>a, <2>2, <2>3, <2>4 DEF Ahead
  <2>12. QED
    BY <2>5, <2>6, <2>7, <2>8, <2>9, <2>10, <2>11 DEF PresentInv
<1>9. CASE Flip
  <2>1. /\ pc = "flip" /\ draw \in Images /\ draw \in adopted
        /\ flips' = Append(flips, draw)
        /\ UNCHANGED <<objs, back, draw, nImages, registered, tried, adopted, content, front, late,
                       dropped, frame>>
        /\ IF nImages > 1 THEN pc' = "wait" /\ UNCHANGED result
           ELSE pc' = "idle" /\ result' = TRUE
    BY <1>9, <1>a DEF Flip, Shown, Direct, PresentTypeOK, Open
  <2>2. /\ flips' \in Seq(Screens) /\ flips' # <<>> /\ Len(flips') = Len(flips) + 1
        /\ Len(flips) \in Nat /\ flips'[Len(flips) + 1] = draw
        /\ \A k \in 1 .. Len(flips) : flips'[k] = flips[k]
        /\ flips = <<>> => Len(flips) = 0
    BY <1>a, <2>1, Queued DEF PresentTypeOK, Screens
  <2>3. LastUp' = draw /\ ~Copying /\ registered
    BY <1>a, <2>1, <2>2 DEF LastUp, Direct
  <2>4. ~Copying'
    BY <2>1, <2>2, <2>3 DEF Copying
  <2>5. PresentTypeOK'
    BY <1>a, <2>1, <2>2 DEF PresentTypeOK, Open
  <2>6. Adopted'
    BY <1>a, <2>1, <2>2 DEF Adopted
  <2>7. Latest'
    BY <1>a, <2>1, <2>3 DEF Latest, Contents
  <2>8. OnTime'
    <3>1. nImages = 2 /\ ~late => Len(flips) = 0
      <4>1. nImages = 2 /\ ~late => \A k \in 1 .. Len(flips) : flips[k] = Own
        BY <1>a, <2>1 DEF OnTime, Open
      <4>2. \A k \in 1 .. Len(flips) : flips[k] # Own
        BY <2>3 DEF Copying
      <4>3. Len(flips) # 0 => 1 \in 1 .. Len(flips)
        BY <2>2
      <4>4. QED
        BY <4>1, <4>2, <4>3
    <3>2. QED
      BY <1>a, <2>1, <2>2, <3>1 DEF OnTime, Open, PresentTypeOK
  <2>9. Existing'
    <3>1. Held' = Held
      BY <2>1 DEF Held
    <3>2. QED
      BY <1>a, <2>1, <3>1 DEF Existing, Rising, Open, Falling
  <2>10. Closed'
    BY <2>1 DEF Closed, Open
  <2>11. Direct' /\ Contents'
    BY <1>a, <2>1, <2>4 DEF Contents, Direct, PresentTypeOK, Rising, Open
  <2>12. Ahead'
    BY <2>4 DEF Ahead
  <2>13. QED
    BY <2>5, <2>6, <2>7, <2>8, <2>9, <2>10, <2>11, <2>12 DEF PresentInv
<1>10. CASE FlipRefused
  <2>1. /\ pc = "flip" /\ pc' = "readback" /\ registered' = FALSE
        /\ UNCHANGED <<objs, back, draw, nImages, tried, adopted, front, flips, late, dropped,
                       content, frame, result>>
    BY <1>10 DEF FlipRefused
  <2>2. LastUp' = LastUp /\ Copying' = Copying
    BY <2>1, SameQueue
  <2>3. PresentTypeOK' /\ Closed' /\ Adopted'
    BY <1>a, <2>1 DEF PresentTypeOK, Closed, Adopted, Open
  <2>4. Existing'
    <3>1. Held' = Held
      BY <2>1 DEF Held
    <3>2. QED
      BY <1>a, <2>1, <3>1 DEF Existing, Rising, Open, Falling
  <2>5. Direct' /\ Contents'
    BY <1>a, <2>1, <2>2 DEF Direct, Contents, Rising, Open
  <2>6. Latest' /\ OnTime' /\ Ahead'
    BY <1>a, <2>1, <2>2 DEF Latest, OnTime, Ahead, Open
  <2>7. QED
    BY <2>3, <2>4, <2>5, <2>6 DEF PresentInv
<1>11. CASE Alternate
  <2>1. /\ pc = "wait" /\ nImages = 2 /\ draw' = 1 - draw /\ pc' = "idle" /\ result' = TRUE
        /\ late' = (flips # <<>>)
        /\ UNCHANGED <<objs, back, nImages, registered, tried, adopted, front, flips, dropped,
                       content, frame>>
    BY <1>11, <1>a DEF Alternate, Flipped, Direct, PresentTypeOK
  <2>2. LastUp' = draw /\ Copying' = Copying /\ ~Copying /\ registered
    BY <1>a, <2>1, SameQueue DEF Latest, Direct
  <2>3. draw \in Images /\ draw' \in Images /\ draw' # draw /\ content[draw] = frame
    <3>1. draw \in back
      BY <1>a, <2>1 DEF PresentTypeOK, Existing, Open
    <3>2. QED
      BY <1>a, <2>1, <3>1 DEF PresentTypeOK, Contents
  <2>4. OnTime'
    <3>1. ~late' => flips' = <<>> /\ front' = draw
      BY <2>1, <2>2 DEF LastUp
    <3>2. ~late' => Len(flips') = 0
      BY <3>1
    <3>3. QED
      BY <2>1, <2>2, <2>3, <3>1, <3>2 DEF OnTime, Open
  <2>5. Existing'
    <3>1. Held' = Held
      BY <2>1 DEF Held
    <3>2. QED
      BY <1>a, <2>1, <3>1 DEF Existing, Rising, Open, Falling
  <2>6. PresentTypeOK' /\ Closed' /\ Adopted'
    BY <1>a, <2>1, <2>3 DEF PresentTypeOK, Closed, Adopted, Open
  <2>7. Direct' /\ Contents'
    BY <1>a, <2>1, <2>2, <2>3 DEF Direct, Contents, Rising, Open
  <2>8. Latest' /\ Ahead'
    BY <2>1, <2>2, <2>3 DEF Latest, Ahead
  <2>9. QED
    BY <2>4, <2>5, <2>6, <2>7, <2>8 DEF PresentInv
<1>12. CASE Readback
  <2>1. /\ pc = "readback" /\ pc' = "idle"
        /\ UNCHANGED <<objs, back, draw, nImages, registered, tried, adopted, front, late, frame>>
        /\ \/ /\ content' = [content EXCEPT ![Own] = ReadPixels]
              /\ dropped' = (Len(flips) >= MaxFlips)
              /\ flips' = IF dropped' THEN flips ELSE Append(flips, Own)
              /\ result' = TRUE
           \/ result' = FALSE /\ UNCHANGED <<content, flips, dropped>>
    BY <1>12 DEF Readback
  <2>2. /\ flips \in Seq(Screens) /\ Len(flips) \in Nat /\ MaxFlips \in Nat
        /\ draw \in Images
        /\ draw \in back => content[draw] = frame
        /\ content \in [Images \cup {Own} -> Int] /\ frame \in Nat
    BY <1>a, <2>1, LenProperties, PresentAssumption DEF PresentTypeOK, Contents
  <2>3. ReadPixels \in {Partial, frame} /\ (draw \in back => ReadPixels = frame)
    BY <1>a, <2>2, WhichIsDraw DEF ReadPixels
  <2>4. /\ content' \in [Images \cup {Own} -> Int] /\ \A i \in Images : content'[i] = content[i]
        /\ content'[Own] \in {content[Own], Partial, frame}
    BY <2>1, <2>2, <2>3
  <2>5. \/ flips' = flips
        \/ /\ flips' = Append(flips, Own) /\ flips' \in Seq(Screens)
           /\ flips' # <<>> /\ Len(flips') = Len(flips) + 1 /\ flips'[Len(flips) + 1] = Own
           /\ \A k \in 1 .. Len(flips) : flips'[k] = flips[k]
    <3>1. Own \in Screens
      BY DEF Screens
    <3>2. flips' \in {flips, Append(flips, Own)}
      BY <2>1
    <3>3. /\ Append(flips, Own) \in Seq(Screens) /\ Append(flips, Own) # <<>>
          /\ Len(Append(flips, Own)) = Len(flips) + 1 /\ Append(flips, Own)[Len(flips) + 1] = Own
          /\ \A k \in 1 .. Len(flips) : Append(flips, Own)[k] = flips[k]
      BY <2>2, <3>1, Queued
    <3>4. CASE flips' = Append(flips, Own)
      BY <3>3, <3>4
    <3>5. QED
      BY <3>2, <3>4
  <2>6. LastUp' \in {LastUp, Own}
    BY <2>1, <2>5 DEF LastUp
  <2>7. PresentTypeOK'
    <3>a. dropped \in BOOLEAN /\ (Len(flips) >= MaxFlips) \in BOOLEAN
      BY <1>a DEF PresentTypeOK
    <3>b. dropped' \in BOOLEAN /\ result' \in BOOLEAN
      BY <2>1, <3>a, Zenon
    <3>1. dropped' \in BOOLEAN /\ result' \in BOOLEAN /\ flips' \in Seq(Screens)
      BY <2>2, <2>5, <3>b
    <3>2. pc' \in Open
      BY <2>1 DEF Open
    <3>3. QED
      BY <1>a, <2>1, <2>4, <3>1, <3>2 DEF PresentTypeOK
  <2>8. Existing'
    <3>1. Held' = Held
      BY <2>1 DEF Held
    <3>2. QED
      BY <1>a, <2>1, <3>1 DEF Existing, Rising, Open, Falling
  <2>9. Closed' /\ Adopted'
    BY <1>a, <2>1, <2>2, <2>5 DEF Closed, Adopted, Open
  <2>10. Direct'
    BY <1>a, <2>1 DEF Direct, Rising, Open
  <2>11. Contents'
    <3>1. \A b \in Images \cup {Own} : content[b] \in Int /\ content[b] <= frame /\ content[b] >= Partial
      BY <1>a DEF Contents, PresentTypeOK
    <3>2. \A b \in Images \cup {Own} : content'[b] <= frame' /\ content'[b] >= Partial
      BY <2>1, <2>2, <2>4, <3>1
    <3>3. QED
      BY <1>a, <2>1, <2>4, <3>2 DEF Contents
  <2>12. Latest'
    <3>1. ASSUME result', draw \in back, ~dropped' PROVE LastUp' = Own /\ content'[Own] = frame
      BY <2>1, <2>2, <2>3, <2>5, <3>1 DEF LastUp
    <3>2. QED
      BY <2>1, <3>1 DEF Latest
  <2>13. OnTime'
    <3>1. nImages = 2 => LastUp' # draw
      BY <1>a, <2>1, <2>2, <2>6 DEF OnTime, Open
    <3>2. nImages = 2 /\ ~late => front # draw /\ \A k \in 1 .. Len(flips) : flips[k] = Own
      BY <1>a, <2>1 DEF OnTime, Open
    <3>3. nImages = 2 /\ ~late => \A k \in 1 .. Len(flips') : flips'[k] = Own
      BY <2>2, <2>5, <3>2
    <3>4. QED
      BY <2>1, <3>1, <3>2, <3>3 DEF OnTime, Open
  <2>14. Ahead'
    <3>1. CASE UNCHANGED <<content, flips>>
      <4>1. Copying' = Copying
        BY <2>1, <3>1, SameQueue
      <4>2. QED
        BY <1>a, <2>1, <3>1, <4>1 DEF Ahead
    <3>2. CASE content' = [content EXCEPT ![Own] = ReadPixels]
      <4>1. nImages = 2 => content'[Own] = frame
        BY <1>a, <2>1, <2>2, <2>3, <3>2 DEF Existing, Open
      <4>2. QED
        BY <1>a, <2>1, <2>4, <4>1 DEF Ahead, Contents
    <3>3. QED
      BY <2>1, <3>1, <3>2
  <2>15. QED
    BY <2>7, <2>8, <2>9, <2>10, <2>11, <2>12, <2>13, <2>14 DEF PresentInv
<1>13. CASE DestroyDisplay
  <2>1. /\ pc = "idle" /\ pc' = "free images" /\ objs' = objs \ {"scanbuf", "display"}
        /\ adopted' = {} /\ front' = Nothing /\ late' = FALSE /\ dropped' = FALSE
        /\ UNCHANGED <<back, draw, nImages, registered, tried, content, frame, result>>
    BY <1>13 DEF DestroyDisplay
  <2>2. flips' = <<>> /\ flips' \in Seq(Screens)
    BY <1>13, EmptySeq DEF DestroyDisplay
  <2>3. pc' = "free images" /\ pc' \notin Open /\ pc' \notin Rising
    BY <2>1 DEF Open, Rising
  <2>4. Closed' /\ Adopted' /\ Latest' /\ OnTime' /\ Ahead' /\ ~Copying'
    BY <2>1, <2>2, <2>3, IdleParts
  <2>5. PresentTypeOK'
    BY <1>a, <2>1, <2>2 DEF PresentTypeOK, Falling
  <2>7. Direct' /\ Contents'
    BY <1>a, <2>1, <2>3, <2>4 DEF Direct, Contents
  <2>9. Existing'
    <3>1. Held' = Base
      BY <1>a, <2>1 DEF Existing, Held, Base, Open
    <3>2. QED
      BY <2>1, <3>1 DEF Existing, Falling, Rising, Open
  <2>10. QED
    BY <2>4, <2>5, <2>7, <2>9 DEF PresentInv
<1>14. CASE DestroyImages \/ DestroyRest
  <2>1. /\ pc \in Falling /\ pc' \in {"free rest", "none"} /\ back' \subseteq back
        /\ pc = "free images" => pc' = "free rest" /\ back' = {} /\ objs' = objs
        /\ pc = "free rest" => pc' = "none" /\ objs' = objs \ Base /\ back' = back
        /\ UNCHANGED <<draw, nImages, registered, tried, adopted, front, flips, late, dropped,
                       content, frame, result>>
    BY <1>14 DEF DestroyImages, DestroyRest, Falling, Base
  <2>2. Closed' /\ Adopted' /\ Latest' /\ OnTime' /\ Ahead' /\ ~Copying'
    BY <1>a, <2>1, IdleParts DEF Closed, Open, Falling
  <2>3. PresentTypeOK'
    BY <1>a, <2>1 DEF PresentTypeOK, Falling
  <2>4. Existing'
    <3>1. Held = Base
      BY <1>a, <2>1 DEF Existing
    <3>2. /\ pc = "free images" => Held' = Base
          /\ pc = "free rest" => Held' = {}
      BY <2>1, <3>1 DEF Held
    <3>3. pc = "free rest" => back' = {}
      BY <1>a, <2>1 DEF Existing
    <3>4. QED
      BY <2>1, <3>2, <3>3 DEF Existing, Rising, Open, Falling
  <2>5. Direct' /\ Contents'
    BY <1>a, <2>1, <2>2 DEF Direct, Contents, Rising, Open, Falling
  <2>6. QED
    BY <2>2, <2>3, <2>4, <2>5 DEF PresentInv
<1>16. CASE Vblank
  <2>1. /\ flips # <<>> /\ front' = Head(flips) /\ flips' = Tail(flips)
        /\ late' = (late /\ flips' # <<>>)
        /\ UNCHANGED <<objs, back, pc, draw, nImages, registered, tried, adopted, dropped, content,
                       frame, result>>
    BY <1>16 DEF Vblank
  <2>2. /\ flips' \in Seq(Screens) /\ front' = flips[1]
        /\ Len(flips) \in Nat \ {0} /\ Len(flips') = Len(flips) - 1
        /\ \A k \in 1 .. Len(flips) - 1 : flips'[k] = flips[k + 1]
        /\ flips' = <<>> => front' = flips[Len(flips)]
        /\ flips' # <<>> => flips'[Len(flips')] = flips[Len(flips)] /\ Len(flips) > 1
    BY <1>a, <2>1, Dequeued DEF PresentTypeOK
  <2>3. front' \in adopted \cup {Own} /\ pc \in Open
    <3>1. 1 \in 1 .. Len(flips)
      BY <2>2
    <3>2. QED
      BY <1>a, <2>1, <2>2, <3>1 DEF Adopted, Closed
  <2>4. LastUp' = LastUp
    BY <2>1, <2>2 DEF LastUp
  <2>5. Copying' => Copying
    <3>1. ASSUME NEW k \in 1 .. Len(flips') PROVE k + 1 \in 1 .. Len(flips) /\ flips'[k] = flips[k + 1]
      BY <2>2
    <3>2. 1 \in 1 .. Len(flips)
      BY <2>2
    <3>3. QED
      BY <2>2, <3>1, <3>2 DEF Copying
  <2>6. PresentTypeOK'
    BY <1>a, <2>1, <2>2, <2>3 DEF PresentTypeOK
  <2>7. Adopted'
    <3>1. \A k \in 1 .. Len(flips') : flips'[k] \in adopted \cup {Own}
      BY <1>a, <2>2 DEF Adopted
    <3>2. QED
      BY <1>a, <2>1, <2>3, <3>1 DEF Adopted
  <2>8. Direct'
    BY <1>a, <2>1, <2>5 DEF Direct
  <2>9. Latest' /\ Contents' /\ Ahead'
    BY <1>a, <2>1, <2>4, <2>5 DEF Latest, Contents, Ahead
  <2>10. OnTime'
    <3>1. CASE ~late
      <4>1. nImages = 2 /\ pc # "wait" => \A k \in 1 .. Len(flips) : flips[k] = Own
        BY <1>a, <2>3, <3>1 DEF OnTime
      <4>2. nImages = 2 /\ pc # "wait" => front' = Own /\ \A k \in 1 .. Len(flips') : flips'[k] = Own
        BY <2>2, <4>1
      <4>3. draw # Own
        BY <1>a DEF PresentTypeOK
      <4>4. nImages = 2 /\ pc = "wait" => Len(flips') <= 1
        BY <1>a, <2>2, <3>1 DEF OnTime
      <4>5. QED
        BY <1>a, <2>1, <2>4, <3>1, <4>2, <4>3, <4>4 DEF OnTime
    <3>2. CASE late
      <4>1. ~late' => flips' = <<>> /\ Len(flips') = 0 /\ front' = LastUp
        <5>1. ~late' => flips' = <<>>
          BY <2>1, <3>2
        <5>2. flips' = <<>> => Len(flips') = 0
          OBVIOUS
        <5>3. QED
          BY <2>1, <2>2, <5>1, <5>2 DEF LastUp
      <4>2. nImages = 2 /\ pc \in Open \ {"wait"} => LastUp # draw
        BY <1>a DEF OnTime
      <4>3. ~late' => \A k \in 1 .. Len(flips') : flips'[k] = Own
        BY <4>1
      <4>4. QED
        BY <2>1, <2>4, <4>1, <4>2, <4>3 DEF OnTime
    <3>3. QED
      BY <1>a, <3>1, <3>2 DEF PresentTypeOK
  <2>11. Existing' /\ Closed'
    BY <1>a, <2>1, <2>3 DEF Existing, Held, Closed
  <2>12. QED
    BY <2>6, <2>7, <2>8, <2>9, <2>10, <2>11 DEF PresentInv
<1>17. QED
  BY <1>0, <1>1, <1>2, <1>3, <1>4, <1>5, <1>6, <1>7, <1>8, <1>9, <1>10, <1>11,
     <1>12, <1>13, <1>14, <1>16 DEF Next, PresentStep

\* The invariant holds before anything has been created.
LEMMA PresentInitInv == Init => PresentInv
<1> SUFFICES ASSUME Init PROVE PresentInv
  OBVIOUS
<1>1. /\ flips \in Seq(Screens) /\ content \in [Images \cup {Own} -> Int]
      /\ front = Nothing /\ flips = <<>>
  BY EmptySeq DEF Init
<1>2. LastUp = Nothing /\ ~Copying /\ Len(flips) = 0
  BY <1>1, NothingUp
<1>3. PresentTypeOK
  <2>1. draw \in {0, 1} /\ nImages \in {0, 1, 2} /\ frame \in 0 .. MaxFrames
    BY PresentAssumption DEF Init
  <2>2. /\ registered \in BOOLEAN /\ tried \in BOOLEAN /\ late \in BOOLEAN /\ result \in BOOLEAN
        /\ dropped \in BOOLEAN
        /\ objs = {} /\ back = {} /\ adopted = {} /\ pc = "none" /\ front = Nothing
    BY DEF Init
  <2>3. QED
    BY <1>1, <2>1, <2>2 DEF PresentTypeOK
<1>4. Existing /\ Closed
  BY DEF Init, Existing, Held, Closed, Rising, Open, Falling, Base
<1>5. Adopted /\ Direct
  BY <1>2 DEF Init, Adopted, Direct, Rising, Open
<1>6. Contents /\ Latest /\ OnTime /\ Ahead
  BY <1>2, PresentAssumption DEF Init, Contents, Latest, OnTime, Ahead, Partial, Images, Own, Open
<1>7. QED
  BY <1>3, <1>4, <1>5, <1>6 DEF PresentInv

\* For any number of frames and any flip queue, the loader and the display keep step: see
\* the parts of PresentInv above.
THEOREM PresentInvariant == Spec => []PresentInv
<1>1. PresentInv /\ [Next]_vars => PresentInv'
  BY PresentStepInv
<1>2. QED
  BY <1>1, PresentInitInv, PTL DEF Spec

\* The display only ever scans an image that exists and that it took when it opened,
\* through bring-up, presenting and teardown.
THEOREM ScansOnlyLive == Spec => []ScansLiveImages
<1>1. PresentInv => ScansLiveImages
  <2> SUFFICES ASSUME PresentInv, NEW i \in OnScreen \cap Images
               PROVE  i \in back \cap adopted
    BY DEF ScansLiveImages
  <2>1. i = front \/ \E k \in 1 .. Len(flips) : i = flips[k]
    BY DEF OnScreen
  <2>2. i # Nothing /\ i # Own
    BY DEF Images, Nothing, Own
  <2>3. i \in adopted
    BY <2>1, <2>2 DEF PresentInv, Adopted
  <2>4. QED
    BY <2>3 DEF PresentInv, Adopted
<1>2. QED
  BY <1>1, PresentInvariant, PTL

\* Whichever step of bring-up fails, and after every teardown, nothing that the loader held
\* is left: no screen, drawable, context, display or image, and nothing is scanned.  What
\* it never kept hold of, the probe descriptors and the config list, is what stays.
THEOREM LeavesNothing == Spec => []NothingLeft
<1>1. PresentInv => NothingLeft
  <2> SUFFICES ASSUME PresentInv, pc = "none"
               PROVE  objs \subseteq Unheld /\ back = {} /\ OnScreen = {Nothing}
    BY DEF NothingLeft
  <2>1. objs \subseteq Unheld /\ back = {}
    BY DEF PresentInv, Existing, Held
  <2>2. front = Nothing /\ flips = <<>>
    BY DEF PresentInv, Closed, Open
  <2>3. OnScreen = {Nothing}
    <3>1. Len(flips) = 0
      BY <2>2
    <3>2. QED
      BY <2>2, <3>1 DEF OnScreen
  <2>4. QED
    BY <2>1, <2>3
<1>2. QED
  BY <1>1, PresentInvariant, PTL

\* With two images and no flip that a wait gave up on still queued, the image being drawn
\* is neither scanned nor queued, for any number of frames, refused flips and fallbacks
\* included.
THEOREM NeverTears == Spec => []NoTearing
<1>1. PresentInv => NoTearing
  <2> SUFFICES ASSUME PresentInv, nImages = 2, ~late, NEW i \in Images, content[i] = Partial
               PROVE  i \notin OnScreen
    BY DEF NoTearing
  <2>1. pc = "draw" /\ i = draw
    BY DEF PresentInv, Contents
  <2>2. front # draw /\ \A k \in 1 .. Len(flips) : flips[k] = Own
    BY <2>1 DEF PresentInv, OnTime, Open
  <2>3. i # Own
    BY DEF Images, Own
  <2>4. QED
    BY <2>1, <2>2, <2>3 DEF OnScreen
<1>2. QED
  BY <1>1, PresentInvariant, PTL

\* A present that answers true has put its frame on screen or last in the queue for it,
\* if there was an image to draw it into and room in the queue for a copy.
THEOREM TrueIsShown == Spec => []TrueMeansShown
<1>1. PresentInv => TrueMeansShown
  <2> SUFFICES ASSUME PresentInv, pc = "idle", result, Which \in back, ~dropped
               PROVE  \E b \in OnScreen \ {Nothing} : frame = content[b]
    BY DEF TrueMeansShown
  <2>1. LastUp # Nothing /\ content[LastUp] = frame
    BY WhichIsDraw DEF PresentInv, Latest
  <2>2. LastUp \in OnScreen
    <3>1. flips # <<>> => Len(flips) \in 1 .. Len(flips)
      BY EmptySeq DEF PresentInv, PresentTypeOK
    <3>2. QED
      BY <3>1 DEF LastUp, OnScreen
  <2>3. QED
    BY <2>1, <2>2
<1>2. QED
  BY <1>1, PresentInvariant, PTL

----------------------------------------------------------------------------
\* The screen never goes back.

\* What is scanned after the step is being drawn, or is no older than before.
Forward ==
  \/ Scanned(front', content') = Partial
  \/ Scanned(front', content') >= Scanned(front, content)

\* Whatever is scanned, it is being drawn or is the number of a frame.
LEMMA ScannedType ==
  ASSUME PresentInv
  PROVE  Scanned(front, content) \in {Partial} \cup (0 .. frame)
<1>1. \A b \in Images \cup {Own} : content[b] \in Int /\ content[b] <= frame /\ content[b] >= Partial
  BY DEF PresentInv, PresentTypeOK, Contents
<1>2. \A b \in Images \cup {Own} : content[b] \in {Partial} \cup (0 .. frame)
  BY <1>1 DEF Partial
<1>3. QED
  BY <1>2 DEF PresentInv, PresentTypeOK, Scanned

\* A step that leaves the scanned image and its content alone goes nowhere.
LEMMA SameScanned ==
  ASSUME PresentInv, UNCHANGED <<front, content>>
  PROVE  Forward
<1>1. Scanned(front, content) \in Int
  BY ScannedType DEF PresentInv, PresentTypeOK, Partial
<1>2. QED
  BY <1>1 DEF Forward, Scanned

\* Flips are done in the order of their frames when none is late, and a copied frame is no
\* older than what the display had before.
LEMMA ForwardStep ==
  ASSUME PresentInv, [Next]_vars, ~late, nImages # 1, front' # Nothing,
         Scanned(front, content) # Partial
  PROVE  Forward
<1> USE DEF glVars, dispVars
<1>1. PresentTypeOK /\ Closed /\ Adopted /\ Direct /\ Contents /\ Latest /\ OnTime /\ Ahead
  BY DEF PresentInv
<1>2. Scanned(front, content) \in 0 .. frame /\ frame \in Nat
  BY ScannedType, PresentAssumption DEF PresentInv, PresentTypeOK
<1>3. CASE UNCHANGED vars
  BY <1>3, SameScanned DEF vars
<1>4. ASSUME NEW dups \in SUBSET {"probe"}, GfxCreate(dups) PROVE Forward
  <2>1. front' = front /\ front = Nothing
    BY <1>1, <1>4 DEF GfxCreate, Closed, Open
  <2>2. QED
    BY <2>1
<1>5. CASE CreateStep \/ CreateFails \/ DisplayFails \/ FlipRefused \/ Flip \/ Alternate
  BY <1>5, SameScanned DEF CreateStep, CreateFails, DisplayFails, FlipRefused, Flip, Alternate
<1>6. CASE DestroyImages \/ DestroyRest \/ BeginWithoutImage
  BY <1>6, SameScanned DEF DestroyImages, DestroyRest, BeginWithoutImage
<1>7. ASSUME NEW n \in 0 .. 2, MakeImages(n) PROVE Forward
  BY <1>7, SameScanned DEF MakeImages
<1>8. ASSUME NEW scannable \in SUBSET back, NEW taken \in SUBSET back,
             OpenDisplay(scannable, taken)
      PROVE  Forward
  BY <1>8, SameScanned DEF OpenDisplay
<1>9. CASE BeginFrame
  <2>1. front' = front /\ content' = [content EXCEPT ![draw] = Partial]
    BY <1>1, <1>9, WhichIsDraw DEF BeginFrame
  <2>2. front \in Images \cup {Own} /\ draw \in Images \cup {Own}
    BY <1>1, <2>1 DEF PresentTypeOK, Images
  <2>3. content'[front] = IF front = draw THEN Partial ELSE content[front]
    BY <1>1, <2>1, <2>2 DEF PresentTypeOK
  <2>4. QED
    BY <1>2, <2>1, <2>3 DEF Forward, Scanned
<1>10. CASE Flush
  <2>1. CASE content' = content
    BY <1>10, <2>1, SameScanned DEF Flush
  <2>2. CASE content' # content
    <3>1. /\ pc = "draw" /\ front' = front /\ content' = [content EXCEPT ![draw] = frame]
          /\ draw \in back
      BY <1>1, <1>10, <2>2, WhichIsDraw DEF Flush
    <3>2. front \in Images \cup {Own} /\ draw \in Images
      BY <1>1, <3>1 DEF PresentTypeOK, Images
    <3>3. front # draw
      BY <1>1, <3>1, <3>2 DEF Contents, Scanned
    <3>4. content'[front] = content[front]
      BY <1>1, <3>1, <3>2, <3>3 DEF PresentTypeOK
    <3>5. QED
      BY <1>2, <3>1, <3>4 DEF Forward, Scanned
  <2>3. QED
    BY <2>1, <2>2
<1>11. CASE Readback
  <2>1. CASE content' = content
    BY <1>11, <2>1, SameScanned DEF Readback
  <2>2. CASE content' # content
    <3>1. front' = front /\ content' = [content EXCEPT ![Own] = ReadPixels] /\ pc = "readback"
      BY <1>11, <2>2 DEF Readback
    <3>2. ReadPixels \in {Partial, frame}
      BY <1>1, <3>1, WhichIsDraw DEF Contents, ReadPixels
    <3>3. content'[front] = IF front = Own THEN ReadPixels ELSE content[front]
      BY <1>1, <3>1 DEF PresentTypeOK
    <3>4. QED
      BY <1>2, <3>1, <3>2, <3>3 DEF Forward, Scanned
  <2>3. QED
    BY <2>1, <2>2
<1>12. CASE DestroyDisplay
  BY <1>12 DEF DestroyDisplay
<1>13. CASE Vblank
  <2>1. flips # <<>> /\ front' = Head(flips) /\ content' = content
    BY <1>13 DEF Vblank
  <2>2. Len(flips) \in Nat \ {0} /\ front' = flips[1]
    BY <1>1, <2>1, Dequeued DEF PresentTypeOK
  <2>3. 1 \in 1 .. Len(flips)
    BY <2>2
  <2>4. flips[1] \in adopted \cup {Own} /\ pc \in Open
    BY <1>1, <2>1, <2>3 DEF Adopted, Closed
  <2>5. Scanned(front', content') = content[flips[1]]
    BY <2>1, <2>2 DEF Scanned
  <2>6. flips[1] = Own => content[Own] = Partial \/ content[Own] \in 0 .. frame
    BY <1>1, <1>2 DEF Contents, PresentTypeOK, Partial
  <2>7. CASE nImages = 2 /\ pc = "wait"
    <3>1. Len(flips) = 1
      <4>1. Len(flips) <= 1
        BY <1>1, <2>7 DEF OnTime
      <4>2. \A n \in Nat \ {0} : n <= 1 => n = 1
        OBVIOUS
      <4>3. Len(flips) \in Nat \ {0}
        BY <2>2
      <4>4. QED
        BY <4>1, <4>2, <4>3, Zenon
    <3>2. flips[1] = draw
      BY <1>1, <2>1, <2>7, <3>1 DEF Latest, LastUp
    <3>3. draw \in back
      BY <1>1, <2>7 DEF PresentInv, Existing, PresentTypeOK, Images, Open
    <3>4. content[flips[1]] = frame
      BY <1>1, <2>7, <3>2, <3>3 DEF Contents
    <3>5. QED
      BY <1>2, <2>5, <3>4 DEF Forward
  <2>8. CASE nImages = 2 /\ pc # "wait"
    <3>1. flips[1] = Own /\ front # draw
      BY <1>1, <2>3, <2>4, <2>8 DEF OnTime
    <3>2. Copying
      BY <2>3, <3>1 DEF Copying
    <3>3. front \in Images => content[front] <= content[Own]
      BY <1>1, <2>8, <3>1, <3>2 DEF Ahead
    <3>4. CASE front = Nothing
      BY <1>2, <2>5, <2>6, <3>1, <3>4 DEF Forward, Scanned
    <3>5. CASE front # Nothing
      <4>1. Scanned(front, content) = content[front] /\ front \in Images \cup {Own}
        BY <1>1, <3>5 DEF Scanned, PresentTypeOK
      <4>2. content[front] <= content[Own]
        BY <1>2, <3>3, <4>1
      <4>3. QED
        BY <1>2, <2>5, <2>6, <3>1, <4>1, <4>2 DEF Forward
    <3>6. QED
      BY <3>4, <3>5
  <2>9. CASE nImages # 2
    <3>1. adopted = {}
      BY <1>1, <2>9 DEF Adopted, PresentTypeOK, Images
    <3>2. flips[1] = Own /\ front \in {Nothing, Own}
      BY <1>1, <2>4, <3>1 DEF Adopted
    <3>3. Scanned(front, content) \in {0, content[Own]}
      BY <3>2 DEF Scanned
    <3>4. QED
      BY <1>2, <2>5, <2>6, <3>2, <3>3 DEF Forward
  <2>10. QED
    BY <2>7, <2>8, <2>9
<1>14. QED
  BY <1>3, <1>4, <1>5, <1>6, <1>7, <1>8, <1>9, <1>10, <1>11, <1>12, <1>13 DEF Next, PresentStep

\* While no flip that a wait gave up on is queued, and there is not just one image to scan
\* and draw, what the display scans never goes back to an earlier frame, across direct
\* scanout, the fallback to copying, a display that catches up, and teardown.
THEOREM ScreenMovesForward == Spec => NeverBackwards
<1> DEFINE A == ~late /\ nImages # 1 /\ front' # Nothing /\ Scanned(front, content) # Partial
                  => Scanned(front', content') \in {Partial} \cup
                       {n \in 0 .. MaxFrames : n >= Scanned(front, content)}
<1>1. PresentInv /\ PresentInv' /\ [Next]_vars => [A]_vars
  <2> SUFFICES ASSUME PresentInv, PresentInv', [Next]_vars, ~late, nImages # 1, front' # Nothing,
                      Scanned(front, content) # Partial
               PROVE  Scanned(front', content') \in {Partial} \cup
                        {n \in 0 .. MaxFrames : n >= Scanned(front, content)}
    OBVIOUS
  <2>1. Forward
    BY ForwardStep
  <2>2. Scanned(front', content') \in {Partial} \cup (0 .. frame')
    <3>1. (Scanned(front, content) \in {Partial} \cup (0 .. frame))'
      BY ScannedType, PTL
    <3>2. QED
      BY <3>1 DEF Scanned
  <2>3. frame' \in 0 .. MaxFrames
    BY DEF PresentInv, PresentTypeOK
  <2>4. QED
    BY <2>1, <2>2, <2>3, PresentAssumption DEF Forward
<1>2. QED
  BY <1>1, PresentInvariant, PTL DEF Spec, NeverBackwards

============================================================================
