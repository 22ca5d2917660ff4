-------------------------------- MODULE Marks -------------------------------
(***************************************************************************)
(* Progress marks: oops_winsys_clear_marks, note_marks and report_marks of *)
(* src/winsys/log.c, as oops_winsys_cs (src/winsys/submit.c) calls them.   *)
(*                                                                         *)
(* Before an instruction buffer is submitted the winsys notes every        *)
(* address its packets write or poll, with the value there; a destination  *)
(* that may rightly be written 0 is poisoned first.  When the submission   *)
(* does not retire, the values tell which packets the command processor    *)
(* reached.  It runs one buffer while the host notes the next, and what    *)
(* packets write lands in memory after they have run, in any order.  A     *)
(* call that is refused half way, or gives up waiting, leaves its buffers  *)
(* to run on under the next call, which clears the marks at once.          *)
(***************************************************************************)
EXTENDS Naturals, Sequences, FiniteSets

CONSTANTS
  Vas,         \* addresses
  Submissions, \* submissions: sequences of instruction buffers, buffers of packets;
               \* one without a buffer notes nothing and is left out
  MarksMax,    \* OOPS_MARKS_MAX
  Unmappable,  \* addresses oops_winsys_cpu_map_va has no answer for
  Values,      \* what a dword of memory may hold
  MaxLeft,     \* bound: buffers of earlier submissions still running
  MaxFlight    \* bound: writes of one value to one address on their way at once

(***************************************************************************)
(* A packet is [kind, va, ref]:                                            *)
(*   "R" RELEASE_MEM and "W" WRITE_DATA write ref at va;                   *)
(*   "T" is a RELEASE_MEM that writes something else there, as the clock;  *)
(*   "S" STRMOUT_BUFFER_UPDATE and "E" EVENT_WRITE write a result;         *)
(*   "P" WAIT_REG_MEM waits until va holds ref;                            *)
(*   "D" writes at va and is not noted: a draw, a copy;                    *)
(*   "X" does none of these; "N" is radeonsi's one-dword NOP, whose count  *)
(*   reaches past the end of any buffer.                                   *)
(* A buffer the CPU cannot read is noted as one that starts with "N".      *)
(***************************************************************************)
Sampled == {"E", "S"}
Written == {"R", "W"}
Polled  == {"P"}
Noted   == Sampled \cup Written \cup Polled \cup {"T"}
Writing == Sampled \cup Written \cup {"T", "D"}
Poison  == 99   \* 0x0bad0bad

Packet == [kind : Noted \cup {"D", "X", "N"}, va : Vas, ref : Values]

ASSUME MarksAssumption ==
  /\ MarksMax \in Nat /\ MaxLeft \in Nat /\ MaxFlight \in Nat
  /\ {0, Poison} \subseteq Values
  /\ Submissions \subseteq Seq(Seq(Packet)) \ {<<>>}

VARIABLES
  stream,  \* the submission
  ib,      \* s_nib, counted from 1: the buffer the host is at
  look,    \* the packets of it note_marks has walked over
  marks,   \* s_marks, as far as s_nmarks
  mem,     \* the memory packets write and poll
  flight,  \* writes on their way: how many of each value to each address
  fed,     \* buffers handed to the command processor
  ran,     \* packets it has run, per buffer
  left,    \* what is still to run of earlier submissions: their buffers
  hung,    \* it runs no more
  step,    \* the host: "off", "note", "feed" or "wait"
  crossed  \* history: addresses noted while an earlier write to them could still land

gpuVars   == <<mem, flight, ran, left, hung>>
marksVars == <<stream, ib, look, marks, fed, step, crossed, gpuVars>>

----------------------------------------------------------------------------
\* Noting.

\* What mark_add leaves at the address, which is then what was there before.
Found(p) == IF p.kind \in Sampled /\ p.va \notin Unmappable THEN Poison ELSE mem[p.va]

\* A write to the address is on its way.
InFlight(va) == \E v \in Values : flight[va][v] > 0

\* A packet of an earlier submission that has yet to run writes there.
LeftTo(va) ==
  \E c \in 1 .. Len(left) : \E k \in 1 .. Len(left[c]) :
    left[c][k].va = va /\ left[c][k].kind \in Writing

\* What a mark calls a packet: the two kinds of RELEASE_MEM look alike.
MarkKind(p) == IF p.kind = "T" THEN "R" ELSE p.kind

\* mark_add; past the limit nothing is noted and nothing is poisoned.
MarkAdd(p, at) ==
  IF Len(marks) = MarksMax THEN UNCHANGED <<marks, mem, crossed>>
  ELSE /\ marks' = Append(marks, [kind |-> MarkKind(p), va |-> p.va, ref |-> p.ref, ib |-> ib,
                                  at |-> at, cpu |-> p.va \notin Unmappable, before |-> Found(p)])
       /\ mem' = [mem EXCEPT ![p.va] = Found(p)]
       /\ crossed' = IF InFlight(p.va) \/ LeftTo(p.va) THEN crossed \cup {p.va} ELSE crossed

\* oops_winsys_note_marks, packet by packet.
NotePacket ==
  /\ step = "note" /\ look < Len(stream[ib])
  /\ LET p == stream[ib][look + 1]
     IN  /\ p.kind # "N"
         /\ IF p.kind \in Noted THEN MarkAdd(p, look + 1) ELSE UNCHANGED <<marks, mem, crossed>>
  /\ look' = look + 1
  /\ UNCHANGED <<stream, ib, flight, fed, ran, left, hung, step>>

\* The end of the buffer, or a packet that runs past it.
NoteEnd ==
  /\ step = "note"
  /\ look < Len(stream[ib]) => stream[ib][look + 1].kind = "N"
  /\ step' = "feed"
  /\ UNCHANGED <<stream, ib, look, marks, fed, crossed, gpuVars>>

\* Mutant: the next buffer is on its way before its marks are noted.
HandedAhead == IF ib < Len(stream) THEN ib + 1 ELSE ib

\* The buffers the command processor has once this one is submitted.
Handed == ib

\* submit_chain of the buffer, after its marks; then the next buffer, or the wait.
Feed ==
  /\ step = "feed"
  /\ fed' = Handed
  /\ IF ib < Len(stream)
     THEN ib' = ib + 1 /\ look' = 0 /\ step' = "note"
     ELSE step' = "wait" /\ UNCHANGED <<ib, look>>
  /\ UNCHANGED <<stream, marks, crossed, gpuVars>>

\* The driver refuses the buffer, and the call with it; those before it run on.
FeedRefused ==
  /\ step = "feed"
  /\ step' = "off"
  /\ UNCHANGED <<stream, ib, look, marks, fed, crossed, gpuVars>>

\* The fence fired, or the wait timed out and the marks are reported.
WaitOver ==
  /\ step = "wait"
  /\ step' = "off"
  /\ UNCHANGED <<stream, ib, look, marks, fed, crossed, gpuVars>>

\* Buffers of which none has a packet left are forgotten.
Trimmed(buffers) == IF \A c \in 1 .. Len(buffers) : buffers[c] = <<>> THEN <<>> ELSE buffers

\* What the calls before leave the command processor to run.
StillToRun ==
  Trimmed(left \o [b \in 1 .. fed |-> SubSeq(stream[b], ran[b] + 1, Len(stream[b]))])

\* The next call clears the marks, whatever is still running.
Clear(next) ==
  /\ step = "off"
  /\ left' = StillToRun
  /\ Cardinality({c \in 1 .. Len(StillToRun) : StillToRun[c] # <<>>}) <= MaxLeft
  /\ stream' = next
  /\ ib' = 1 /\ look' = 0 /\ marks' = <<>> /\ crossed' = {}
  /\ fed' = 0
  /\ ran' = [b \in 1 .. Len(next) |-> 0]
  /\ step' = "note"
  /\ UNCHANGED <<mem, flight, hung>>

----------------------------------------------------------------------------
\* The command processor: buffers in the order they came, packets in order.

\* What a packet may write; a result is never the poison.
Effects(p) ==
  {v \in Values : \/ p.kind \in Written /\ v = p.ref
                  \/ p.kind \in Sampled /\ v # Poison
                  \/ p.kind \in {"T", "D"}}

\* A packet runs; what it writes is on its way.
Execute(p) ==
  /\ p.kind \in Polled => mem[p.va] = p.ref
  /\ IF p.kind \in Writing
     THEN \E v \in Effects(p) : /\ flight[p.va][v] < MaxFlight
                               /\ flight' = [flight EXCEPT ![p.va][v] = @ + 1]
     ELSE UNCHANGED flight

\* A write lands.
Land(va, v) ==
  /\ flight[va][v] > 0
  /\ flight' = [flight EXCEPT ![va][v] = @ - 1]
  /\ mem' = [mem EXCEPT ![va] = v]
  /\ UNCHANGED <<stream, ib, look, marks, fed, ran, left, hung, step, crossed>>

LeftOver == {c \in 1 .. Len(left) : left[c] # <<>>}

\* The next packet of what is left of earlier submissions.
RunLeft(c) ==
  /\ ~hung
  /\ c \in LeftOver /\ \A d \in LeftOver : c <= d
  /\ Execute(Head(left[c]))
  /\ left' = Trimmed([left EXCEPT ![c] = Tail(@)])
  /\ UNCHANGED <<stream, ib, look, marks, mem, fed, ran, hung, step, crossed>>

Unrun == {b \in 1 .. fed : ran[b] < Len(stream[b])}

Run(b) ==
  /\ ~hung /\ LeftOver = {}
  /\ b \in Unrun /\ \A c \in Unrun : b <= c
  /\ Execute(stream[b][ran[b] + 1])
  /\ ran' = [ran EXCEPT ![b] = @ + 1]
  /\ UNCHANGED <<stream, ib, look, marks, mem, fed, left, hung, step, crossed>>

\* It hangs for good, in a packet or because the wait in one is never satisfied.
Hang ==
  /\ ~hung /\ Unrun \cup LeftOver # {}
  /\ hung' = TRUE
  /\ UNCHANGED <<stream, ib, look, marks, mem, flight, fed, ran, left, step, crossed>>

----------------------------------------------------------------------------
MarksInit ==
  /\ stream = <<>> /\ ib = 1 /\ look = 0 /\ marks = <<>>
  /\ mem = [va \in Vas |-> 0]
  /\ flight = [va \in Vas |-> [v \in Values |-> 0]]
  /\ fed = 0 /\ ran = <<>> /\ left = <<>> /\ hung = FALSE
  /\ step = "off" /\ crossed = {}

MarksNext ==
  \/ \E next \in Submissions : Clear(next)
  \/ NotePacket \/ NoteEnd \/ Feed \/ FeedRefused \/ WaitOver
  \/ \E c \in 1 .. Len(left) : RunLeft(c)
  \/ \E b \in 1 .. fed : Run(b)
  \/ \E va \in Vas, v \in Values : Land(va, v)
  \/ Hang

MarksSpec == MarksInit /\ [][MarksNext]_marksVars

----------------------------------------------------------------------------
\* Properties.

\* What report_marks would print for a mark, as a reader takes it.
Changed(m) == mem[m.va] # m.before
Reached(m) == ran[m.ib] >= m.at

\* No other packet of the submission names the address.
OnlyOne(m) ==
  \A b \in 1 .. Len(stream) : \A k \in 1 .. Len(stream[b]) :
    stream[b][k].va = m.va /\ stream[b][k].kind # "X" => b = m.ib /\ k = m.at

\* A mark tells how far the command processor got, while it runs and after it has hung,
\* for an address the CPU can map, that one packet of the submission names and that no
\* packet left over from an earlier one could still write when it was noted.  A value
\* that changed says that the packet was reached.  Once nothing is on its way there, a
\* sampled result has changed if its packet was reached, a result of 0 too, and a value
\* written as a number is there.
MarksTell ==
  \A k \in 1 .. Len(marks) :
    LET m == marks[k]
        kind == stream[m.ib][m.at].kind
    IN  m.cpu /\ OnlyOne(m) /\ m.va \notin crossed =>
          /\ Changed(m) => Reached(m)
          /\ Reached(m) /\ ~InFlight(m.va) =>
               /\ kind \in Sampled => Changed(m)
               /\ kind \in Written => mem[m.va] = m.ref

============================================================================
