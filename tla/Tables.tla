------------------------------- MODULE Tables -------------------------------
(***************************************************************************)
(* The winsys's handle tables: buffers (src/winsys/buffers.c), contexts    *)
(* and buffer lists (src/winsys/context.c) and synchronisation objects     *)
(* (src/winsys/syncobj.c).                                                 *)
(*                                                                         *)
(* All four are fixed arrays searched for the first dead entry.  None has  *)
(* a lock: the search reads one entry at a time, and the entry is claimed  *)
(* in a later step - for a buffer, after the platform has been asked for   *)
(* memory.  Mesa calls from whichever threads the title draws and frees    *)
(* on, and the submission thread notes hangs against contexts.             *)
(***************************************************************************)
EXTENDS Naturals, FiniteSets

CONSTANTS
  Callers,   \* threads that make ioctls
  Kinds,     \* the tables: "bo", "ctx", "list" and "syncobj", or some of them
  Entries,   \* entries in each table
  MaxHangs,  \* bound: hangs noted against one context
  MaxClash   \* bound: entries two creates find dead at once

ASSUME TablesAssumption ==
  /\ Entries \in Nat \ {0} /\ MaxHangs \in Nat /\ MaxClash \in Nat
  /\ Kinds \subseteq {"bo", "ctx", "list", "syncobj"} /\ "ctx" \in Kinds

Slots   == 0 .. Entries - 1
Handles == 1 .. Entries   \* 0 is "none" to libdrm

VARIABLES
  live,   \* live[k][i]: the live flag of entry i of table k
  hangs,  \* s_ctx[i].hangs
  at,     \* the entry each caller's search is at
  pc,     \* <<"idle">>, <<"search", kind>> or <<"claim", kind>>
  held,   \* the handles each caller was given and has not given back
  under,  \* the context of the CS ioctl under way, 0 if there is none
  clash,  \* history: the entries two callers had found dead and not yet claimed at once
  stale,  \* history: the context of the CS ioctl under way has been freed meanwhile
  failed, \* history: contexts handed out that a submission has failed under since
  strays  \* history: contexts charged since with a hang of their entry's last context

tableVars == <<live, at, pc, held, clash>>
hangVars  == <<hangs, under, stale, failed, strays>>
vars == <<tableVars, hangVars>>

\* Mutant: the handle is used as the index.
SlotUnshifted(h) == IF h \in Slots THEN h ELSE 0

SlotOf(h) == h - 1

----------------------------------------------------------------------------
\* Creating.

StartCreate(c, k) ==
  /\ pc[c] = <<"idle">>
  /\ pc' = [pc EXCEPT ![c] = <<"search", k>>]
  /\ at' = [at EXCEPT ![c] = 0]
  /\ UNCHANGED <<live, held, clash, hangVars>>

\* The call returns, and its index with it.
Return(c) ==
  /\ pc' = [pc EXCEPT ![c] = <<"idle">>]
  /\ at' = [at EXCEPT ![c] = 0]

\* Mutant: the search does not ask whether the entry is live.
TakenNever(k, i) == FALSE

Taken(k, i) == live[k][i]

\* One entry of the search; past the last one the call is refused.
Search(c) ==
  LET k == pc[c][2]
      i == at[c]
  IN  /\ pc[c][1] = "search"
      /\ IF Taken(k, i)
         THEN \/ /\ i + 1 \in Slots
                 /\ at' = [at EXCEPT ![c] = i + 1]
                 /\ UNCHANGED <<pc, clash>>
              \/ /\ i + 1 \notin Slots
                 /\ Return(c)
                 /\ UNCHANGED clash
         ELSE /\ pc' = [pc EXCEPT ![c] = <<"claim", k>>]
              /\ clash' = clash \cup {<<k, i>> : d \in {d \in Callers : pc[d] = <<"claim", k>> /\ at[d] = i}}
              /\ Cardinality(clash') <= MaxClash
              /\ UNCHANGED at
      /\ UNCHANGED <<live, held, hangVars>>

\* oops_mem_alloc_direct refuses: the entry found is left alone.
CreateRefused(c) ==
  /\ pc[c] = <<"claim", "bo">>
  /\ Return(c)
  /\ UNCHANGED <<live, held, clash, hangVars>>

\* What is noted against a context goes when its entry is claimed or cleared.
Forget(k, h) ==
  IF k = "ctx"
  THEN /\ hangs' = [hangs EXCEPT ![SlotOf(h)] = 0]
       /\ failed' = failed \ {h}
       /\ strays' = strays \ {h}
  ELSE UNCHANGED <<hangs, failed, strays>>

\* The entry is written and its handle returned.
Claim(c) ==
  LET k == pc[c][2]
      h == at[c] + 1
  IN  /\ pc[c][1] = "claim"
      /\ live' = [live EXCEPT ![k][at[c]] = TRUE]
      /\ Forget(k, h)
      /\ held' = [held EXCEPT ![c][k] = @ \cup {h}]
      /\ Return(c)
      /\ UNCHANGED <<clash, under, stale>>

----------------------------------------------------------------------------
\* Giving back, and what is asked of a live entry.

Clear(table, h) == [table EXCEPT ![SlotOf(h)] = FALSE]

\* GEM_CLOSE, FREE_CTX, BO_LIST_OP_DESTROY, SYNCOBJ_DESTROY: memset of the entry.
Destroy(c, k, h) ==
  /\ pc[c] = <<"idle">>
  /\ h \in held[c][k]
  /\ live[k][SlotOf(h)]
  /\ live' = [live EXCEPT ![k] = Clear(@, h)]
  /\ Forget(k, h)
  /\ stale' = (stale \/ (k = "ctx" /\ h = under))
  /\ held' = [held EXCEPT ![c][k] = @ \ {h}]
  /\ UNCHANGED <<at, pc, clash, under>>

\* A CS ioctl on the submission thread, for a context somebody holds.
Submit(h) ==
  /\ under = 0
  /\ \E c \in Callers : h \in held[c]["ctx"]
  /\ under' = h
  /\ UNCHANGED <<tableVars, hangs, stale, failed, strays>>

\* oops_winsys_ctx_note_hang, when its wait has run out: whoever has the entry by then is
\* charged; an entry that is not live is passed over.
NoteHang(h) ==
  /\ under = h
  /\ live["ctx"][SlotOf(h)]
  /\ hangs[SlotOf(h)] < MaxHangs
  /\ hangs' = [hangs EXCEPT ![SlotOf(h)] = @ + 1]
  /\ failed' = IF stale THEN failed ELSE failed \cup {h}
  /\ strays' = IF stale THEN strays \cup {h} ELSE strays
  /\ under' = 0 /\ stale' = FALSE
  /\ UNCHANGED tableVars

\* The ioctl returns with nothing to note.
SubmitDone ==
  /\ under # 0
  /\ under' = 0 /\ stale' = FALSE
  /\ UNCHANGED <<tableVars, hangs, failed, strays>>

\* AMDGPU_CTX_OP_QUERY_STATE.
QueryState(h) ==
  IF h \notin Handles \/ ~live["ctx"][SlotOf(h)] THEN "EINVAL"
  ELSE IF hangs[SlotOf(h)] > 0 THEN "GUILTY" ELSE "NO_RESET"

----------------------------------------------------------------------------
Init ==
  /\ live = [k \in Kinds |-> [i \in Slots |-> FALSE]]
  /\ hangs = [i \in Slots |-> 0]
  /\ at = [c \in Callers |-> 0]
  /\ pc = [c \in Callers |-> <<"idle">>]
  /\ held = [c \in Callers |-> [k \in Kinds |-> {}]]
  /\ under = 0 /\ stale = FALSE
  /\ clash = {} /\ failed = {} /\ strays = {}

Next ==
  \/ \E c \in Callers, k \in Kinds : StartCreate(c, k)
  \/ \E c \in Callers : Search(c) \/ CreateRefused(c) \/ Claim(c)
  \/ \E c \in Callers, k \in Kinds, h \in Handles : Destroy(c, k, h)
  \/ \E h \in Handles : Submit(h) \/ NoteHang(h)
  \/ SubmitDone

Spec == Init /\ [][Next]_vars

----------------------------------------------------------------------------
\* Properties.

Unclashed(k, i) == <<k, i>> \notin clash

\* No live entry is overwritten or lost, however calls overlap, but for an entry that two
\* creates had both found dead before either claimed it: a handle belongs to one caller,
\* from the create that returned it to the destroy that gave it back, and its entry is
\* live exactly meanwhile, so a table fills only with handles in use.
HandlesApart ==
  \A k \in Kinds, i \in Slots : Unclashed(k, i) =>
    /\ \A c, d \in Callers : i + 1 \in held[c][k] /\ i + 1 \in held[d][k] => c = d
    /\ live[k][i] <=> \E c \in Callers : i + 1 \in held[c][k]

\* A context answers GUILTY_RESET if a submission failed under it, and only then: not for
\* its neighbour, and not for the context that had its entry before - unless that one was
\* freed while its submission was still being waited for, and is charged too late.
ResetAnswerTrue ==
  \A c \in Callers : \A h \in held[c]["ctx"] :
    Unclashed("ctx", SlotOf(h)) /\ h \notin strays =>
      QueryState(h) = IF h \in failed THEN "GUILTY" ELSE "NO_RESET"

============================================================================
