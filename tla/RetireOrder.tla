---------------------------- MODULE RetireOrder ----------------------------
(***************************************************************************)
(* What a submission queue promises its caller: work retires in the order  *)
(* it was handed over, and a sequence number is given to a submission only *)
(* when none of its work is pending, after which none can become pending.  *)
(* DRM_IOCTL_AMDGPU_CS and WAIT_CS (src/winsys/submit.c) are read by       *)
(* radeonsi as keeping this promise.                                       *)
(***************************************************************************)
EXTENDS Naturals, Sequences

CONSTANT Calls  \* submissions, numbered in the order they are made

VARIABLES
  pending,   \* submissions with work the GPU has not retired
  numbered   \* submissions given sequence number 1, 2, ...

vars == <<pending, numbered>>

IsNumbered(c) == \E k \in 1 .. Len(numbered) : numbered[k] = c

Init == pending = {} /\ numbered = <<>>

Hand(c) ==
  /\ ~IsNumbered(c)
  /\ pending' = pending \cup {c}
  /\ UNCHANGED numbered

Finish(c) ==
  /\ c \in pending
  /\ \A d \in pending : c <= d
  /\ pending' = pending \ {c}
  /\ UNCHANGED numbered

Number(c) ==
  /\ c \notin pending
  /\ \A k \in 1 .. Len(numbered) : numbered[k] < c
  /\ numbered' = Append(numbered, c)
  /\ UNCHANGED pending

Next == \E c \in Calls : Hand(c) \/ Finish(c) \/ Number(c)

Spec == Init /\ [][Next]_vars

============================================================================
