------------------------------- MODULE Chain -------------------------------
(***************************************************************************)
(* Walking a chained command stream: submit_chain and                      *)
(* oops_winsys_find_chain of src/winsys/submit.c.                          *)
(*                                                                         *)
(* radeonsi ends a full command buffer with an INDIRECT_BUFFER packet that *)
(* names the next one.  The platform's command processor cannot follow it, *)
(* so the winsys cuts the stream at the packet and submits each link by    *)
(* itself.  The walk sees dwords and must find packet boundaries among     *)
(* them; what the client wrote, the reference here, is packets.            *)
(***************************************************************************)
EXTENDS Naturals, Sequences

CONSTANTS
  Images,      \* memories to walk: sequences of command buffers, buffers of packets
  MaxIbChain,  \* OOPS_MAX_IB_CHAIN
  Refusals     \* may the driver refuse a stream?


----------------------------------------------------------------------------
(***************************************************************************)
(* What the client writes.  A packet is [kind, arg]:                       *)
(*   "nop"    the one-dword NOP 0xffff1000, an all-ones count              *)
(*   "filler" a type-2 header, one dword                                   *)
(*   "data"   a type-3 or type-0 packet with count arg, whose arg + 1      *)
(*            payload dwords all look like INDIRECT_BUFFER headers         *)
(*   "chain"  INDIRECT_BUFFER to command buffer arg (0: of no dwords)      *)
(*   "short"  an INDIRECT_BUFFER header cut off by the end of the buffer   *)
(*   "bad"    a type-1 header, which no packet has                         *)
(***************************************************************************)
Packets == [kind : {"nop", "filler", "data", "chain", "short", "bad"}, arg : Nat]

\* Memories a client may write: chain packets lead to command buffers.
Memory(img) ==
  /\ img \in Seq(Seq(Packets)) /\ img # <<>>
  /\ \A b \in 1 .. Len(img) : \A k \in 1 .. Len(img[b]) :
       /\ img[b][k].kind = "chain" => img[b][k].arg \in 0 .. Len(img)
       /\ img[b][k].kind = "short" => k = Len(img[b])

ASSUME ChainAssumption ==
  /\ MaxIbChain \in Nat \ {0} /\ Refusals \in BOOLEAN
  /\ \A img \in Images : Memory(img)

Dword(form, count, value) == [form |-> form, count |-> count, value |-> value]

AllOnes     == 16383   \* a count field, all of it set
ChainHeader == Dword("indirect", 2, 0)

Dwords(p) ==
  CASE p.kind = "nop"    -> <<Dword("nop", AllOnes, 0)>>
    [] p.kind = "filler" -> <<Dword("type2", 0, 0)>>
    [] p.kind = "bad"    -> <<Dword("type1", 0, 0)>>
    [] p.kind = "data"   -> <<Dword("type3", p.arg, 0)>> \o
                              [k \in 1 .. p.arg + 1 |-> ChainHeader]
    [] p.kind = "chain"  -> <<ChainHeader, Dword("type0", 0, p.arg),
                              Dword("type0", 0, 0), Dword("type0", 0, p.arg)>>
    [] p.kind = "short"  -> <<ChainHeader, Dword("type0", 0, p.arg)>>

\* The dwords of the first k packets, for each k; and of all of them.
Laid(packets) ==
  LET laid[k \in 0 .. Len(packets)] ==
        IF k = 0 THEN <<>> ELSE laid[k - 1] \o Dwords(packets[k])
  IN  laid

Flat(packets) == Laid(packets)[Len(packets)]

\* What the command processor would run from each command buffer, following at most
\* fuel chain packets: everything before the first one, then its target.  A buffer
\* with a type-1 header in the way is not understood and is run as it stands.
Plain(packets, k) ==
  \A j \in 1 .. k : packets[j].kind \notin {"chain", "bad"}

Cuts(packets) ==
  {k \in 1 .. Len(packets) : packets[k].kind = "chain" /\ Plain(packets, k - 1)}

RunFrom(packets, after) ==
  IF Cuts(packets) = {} THEN Flat(packets)
  ELSE LET k == CHOOSE x \in Cuts(packets) : TRUE
       IN  Laid(packets)[k - 1] \o after[packets[k].arg]

Run(img) ==
  LET run[fuel \in 0 .. MaxIbChain] ==
        [b \in 0 .. Len(img) |-> IF fuel = 0 \/ b = 0 THEN <<>> ELSE RunFrom(img[b], run[fuel - 1])]
  IN  run

Runs(img) == Run(img)[MaxIbChain][1]

----------------------------------------------------------------------------
VARIABLES
  image,  \* the memory: command buffers 1, 2, ...
  at,     \* the command buffer submit_chain is looking at
  i,      \* find_chain's index into it
  depth,  \* links followed
  sent,   \* the dwords of the streams submit_one was given, oldest first
  pc      \* "walk", then "done" or "EIO"

vars == <<image, at, i, depth, sent, pc>>

\* The dwords of the current link, and its length: n.
Stream == Flat(image[at])
N == Len(Stream)
Header == Stream[i + 1]

Walking == pc = "walk" /\ depth < MaxIbChain

\* submit_one: the driver takes the first k dwords of the link, or refuses them.
SubmitOne(k, next) ==
  \/ /\ sent' = sent \o SubSeq(Stream, 1, k)
     /\ pc' = next
  \/ /\ Refusals
     /\ pc' = "EIO"
     /\ UNCHANGED sent

TooDeep ==
  /\ pc = "walk"
  /\ depth >= MaxIbChain
  /\ pc' = "EIO"
  /\ UNCHANGED <<image, at, i, depth, sent>>

\* Radeonsi's NOP and type-2 filler are one dword whatever their count says.
OneDword ==
  /\ Walking /\ i < N
  /\ Header.form \in {"nop", "type2"}
  /\ i' = i + 1
  /\ UNCHANGED <<image, at, depth, sent, pc>>

IsChain == Header.form = "indirect" /\ i + 3 < N

\* Mutant: the walk goes dword by dword, as its first version did.
SpanOneDword == 1

Span == Header.count + 2

Packet ==
  /\ Walking /\ i < N
  /\ Header.form \in {"type0", "type3", "indirect"}
  /\ ~IsChain
  /\ i' = i + Span
  /\ UNCHANGED <<image, at, depth, sent, pc>>

\* No chain packet, or a header that is no packet's: the link is submitted whole.
SubmitWhole ==
  /\ Walking
  /\ ~(i < N /\ Header.form # "type1")
  /\ SubmitOne(N, "done")
  /\ UNCHANGED <<image, at, i, depth>>

Target   == Stream[i + 2].value
TargetDw == Stream[i + 4].value

\* The part before the chain packet goes first; nothing is sent for an empty one.
HeadOfLink(next) ==
  \/ i > 0 /\ SubmitOne(i, next)
  \/ i = 0 /\ pc' = next /\ UNCHANGED sent

\* Mutant: the depth is not handed on.
NotDeeper == depth

Deeper == depth + 1

FollowChain ==
  /\ Walking /\ i < N
  /\ IsChain
  /\ \/ /\ TargetDw = 0
        /\ HeadOfLink("done")
        /\ UNCHANGED <<at, i, depth>>
     \/ /\ TargetDw # 0
        /\ HeadOfLink("walk")
        /\ at' = Target
        /\ i' = 0
        /\ depth' = Deeper
  /\ UNCHANGED image

Stopped == pc # "walk" /\ UNCHANGED vars

Init ==
  /\ image \in Images
  /\ at = 1 /\ i = 0 /\ depth = 0
  /\ sent = <<>>
  /\ pc = "walk"

Walk == TooDeep \/ OneDword \/ Packet \/ SubmitWhole \/ FollowChain

Next == Walk \/ Stopped

\* The walk is a loop of the submitting thread, which is scheduled.
Spec == Init /\ [][Next]_vars /\ WF_vars(Walk)

----------------------------------------------------------------------------
\* Properties.

\* What the driver was handed so far is, dword for dword, the beginning of what the
\* client's stream runs: nothing is cut mid-packet, skipped, repeated or invented.
\* A walk that succeeds handed over all of it.
SentAsRun ==
  /\ Len(sent) <= Len(Runs(image)) /\ sent = SubSeq(Runs(image), 1, Len(sent))
  /\ pc = "done" => sent = Runs(image)

\* The walk ends on every stream, one that chains to itself included.
WalkEnds == <>(pc # "walk")

============================================================================
