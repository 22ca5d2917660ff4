-------------------------------- MODULE Log --------------------------------
(***************************************************************************)
(* The one log: src/runtime/stderr_to_klog.c, winsys_vlog of               *)
(* src/winsys/log.c and say of src/platform/dri_loader.c.                  *)
(*                                                                         *)
(* Mesa's standard error is gathered into a line buffer and handed to the  *)
(* system log a line at a time, in chunks; the winsys and the GL loader    *)
(* write to the same log directly.  A byte is the number of the moment it  *)
(* was written; NewLine and Return are the two bytes that are not logged.  *)
(* Nothing in the code locks the buffer.  A flush is one step: a byte that *)
(* another thread stores in the middle of one may be lost, which makes the *)
(* line no longer, and nothing is said of what is in the log after calls   *)
(* have overlapped.                                                        *)
(***************************************************************************)
EXTENDS Naturals, Sequences, FiniteSets

CONSTANTS
  Writers,   \* threads
  LineMax,   \* OOPS_LINE_MAX
  Chunk,     \* OOPS_KLOG_CHUNK
  KlogMax,   \* what the system log takes in one line; a longer one is dropped
  Texts,     \* what a writer passes to stdio: sequences of Letter, NewLine and Return
  Lengths,   \* lengths of the lines the winsys formats
  MaxBytes   \* bound: bytes written in a run

NewLine == 0
Return  == MaxBytes + 1
Letter  == 1              \* any byte to log, before it is stamped
Notice  == MaxBytes + 2   \* not a byte: "the line above is truncated"

ASSUME LogAssumption ==
  /\ LineMax \in Nat \ {0} /\ Chunk \in Nat \ {0} /\ Chunk <= KlogMax
  /\ KlogMax \in Nat /\ MaxBytes \in Nat \ {0}
  /\ Lengths \subseteq Nat
  /\ Texts \subseteq Seq({Letter, NewLine, Return})

VARIABLES
  line,     \* s_line, as far as s_line_len
  klog,     \* the system log: what each call of oops_klog left in it
  rest,     \* what is left of each writer's call: bytes to append
  pc,       \* "idle", "byte" or "store"
  written,  \* bytes written so far
  said,     \* history: the bytes the GL loader wrote
  mixed,    \* history: has a call begun while another was under way?
  raced     \* history: were two threads between the test for a full buffer and the store?

vars == <<line, klog, rest, pc, written, said, mixed, raced>>

----------------------------------------------------------------------------
\* oops_klog: a line that is too long leaves nothing.
Kept(text) == IF Len(text) <= KlogMax THEN text ELSE <<>>

Klogged(log, text) == Append(log, Kept(text))

\* klog_chunks: the pieces of a line.
Chunks(text) ==
  [k \in 1 .. (Len(text) + Chunk - 1) \div Chunk |->
     SubSeq(text, (k - 1) * Chunk + 1, IF k * Chunk < Len(text) THEN k * Chunk ELSE Len(text))]

Flushed == klog \o [k \in DOMAIN Chunks(line) |-> Kept(Chunks(line)[k])]

LineFlush == klog' = Flushed /\ line' = <<>>

\* A call begins, in the middle of others or not.
Begins(w) ==
  /\ pc[w] = "idle"
  /\ mixed' = (mixed \/ \E v \in Writers : pc[v] # "idle")

\* The bytes to log among the first n of a call.
LettersTo(text, n) == {k \in 1 .. n : text[k] = Letter}

Loud(text) == Cardinality(LettersTo(text, Len(text)))

\* The bytes of a call, stamped with the moment they are written.
Stamped(text) ==
  [k \in 1 .. Len(text) |->
    IF text[k] = Letter THEN written + Cardinality(LettersTo(text, k)) ELSE text[k]]

----------------------------------------------------------------------------
\* fprintf, fwrite, fputs, fputc, puts, perror, fflush and write(1 or 2) all come to
\* line_append of some text, followed or not by a flush (the same as a new line).
Write(w, text) ==
  /\ Begins(w)
  /\ written + Loud(text) <= MaxBytes
  /\ rest' = [rest EXCEPT ![w] = Stamped(text)]
  /\ written' = written + Loud(text)
  /\ pc' = [pc EXCEPT ![w] = "byte"]
  /\ UNCHANGED <<line, klog, said, raced>>

\* emit_formatted without the memory to format again: what fits in the stack buffer,
\* a flush, and a line of its own that says so.
WriteTruncated(w, text) ==
  /\ Begins(w)
  /\ Loud(text) + 1 = LineMax
  /\ written + LineMax <= MaxBytes
  /\ rest' = [rest EXCEPT ![w] = Stamped(text) \o <<NewLine, Notice>>]
  /\ written' = written + Loud(text)
  /\ pc' = [pc EXCEPT ![w] = "byte"]
  /\ UNCHANGED <<line, klog, said, raced>>

Finished(w) ==
  /\ pc[w] = "byte" /\ rest[w] = <<>>
  /\ pc' = [pc EXCEPT ![w] = "idle"]
  /\ UNCHANGED <<line, klog, rest, written, said, mixed, raced>>

AppendNewLine(w) ==
  /\ pc[w] = "byte" /\ rest[w] # <<>>
  /\ Head(rest[w]) = NewLine
  /\ LineFlush
  /\ rest' = [rest EXCEPT ![w] = Tail(@)]
  /\ UNCHANGED <<pc, written, said, mixed, raced>>

AppendReturn(w) ==
  /\ pc[w] = "byte" /\ rest[w] # <<>>
  /\ Head(rest[w]) = Return
  /\ rest' = [rest EXCEPT ![w] = Tail(@)]
  /\ UNCHANGED <<line, klog, pc, written, said, mixed, raced>>

AppendNotice(w) ==
  /\ pc[w] = "byte" /\ rest[w] # <<>>
  /\ Head(rest[w]) = Notice
  /\ klog' = Klogged(klog, <<written + 1>>)
  /\ written' = written + 1
  /\ rest' = [rest EXCEPT ![w] = Tail(@)]
  /\ UNCHANGED <<line, pc, said, mixed, raced>>

\* Mutant: the buffer is found full one byte too late.
MakeRoomLate == IF Len(line) = LineMax + 1 THEN LineFlush ELSE UNCHANGED <<line, klog>>

MakeRoom == IF Len(line) = LineMax THEN LineFlush ELSE UNCHANGED <<line, klog>>

\* The test for a full buffer, and then the store: two steps, two threads.
AppendTest(w) ==
  /\ pc[w] = "byte" /\ rest[w] # <<>>
  /\ Head(rest[w]) \notin {NewLine, Return, Notice}
  /\ MakeRoom
  /\ pc' = [pc EXCEPT ![w] = "store"]
  /\ raced' = (raced \/ \E v \in Writers : pc[v] = "store")
  /\ UNCHANGED <<rest, written, said, mixed>>

AppendStore(w) ==
  /\ pc[w] = "store"
  /\ line' = Append(line, Head(rest[w]))
  /\ rest' = [rest EXCEPT ![w] = Tail(@)]
  /\ pc' = [pc EXCEPT ![w] = "byte"]
  /\ UNCHANGED <<klog, written, said, mixed, raced>>

Moments(n) == [k \in 1 .. n |-> written + k]

\* Mutant: the winsys logs past a partial line.
WinsysVlogUnflushed(w, n) ==
  /\ Begins(w)
  /\ written + n <= MaxBytes
  /\ klog' = Klogged(klog, Moments(n))
  /\ written' = written + n
  /\ UNCHANGED <<line, rest, pc, said, raced>>

\* winsys_vlog: the partial line goes first.
WinsysVlog(w, n) ==
  /\ Begins(w)
  /\ written + n <= MaxBytes
  /\ klog' = Klogged(Flushed, Moments(n))
  /\ line' = <<>>
  /\ written' = written + n
  /\ UNCHANGED <<rest, pc, said, raced>>

\* say, of the GL loader, calls oops_klog and nothing else.
Say(w) ==
  /\ Begins(w)
  /\ written < MaxBytes
  /\ klog' = Klogged(klog, Moments(1))
  /\ written' = written + 1
  /\ said' = said \cup {written + 1}
  /\ UNCHANGED <<line, rest, pc, raced>>

----------------------------------------------------------------------------
Init ==
  /\ line = <<>> /\ klog = <<>>
  /\ rest = [w \in Writers |-> <<>>]
  /\ pc = [w \in Writers |-> "idle"]
  /\ written = 0 /\ said = {} /\ mixed = FALSE /\ raced = FALSE

Next ==
  \E w \in Writers :
    \/ \E text \in Texts : Write(w, text) \/ WriteTruncated(w, text)
    \/ Finished(w) \/ AppendNewLine(w) \/ AppendReturn(w) \/ AppendNotice(w)
    \/ AppendTest(w) \/ AppendStore(w)
    \/ \E n \in Lengths : WinsysVlog(w, n)
    \/ Say(w)

Spec == Init /\ [][Next]_vars

----------------------------------------------------------------------------
\* Properties.

\* The log as it would read were the line buffer flushed.
Lines == Append(klog, line)

\* One place of the log is before another.
Before(i, a, j, b) == i < j \/ (i = j /\ a < b)

Ordered ==
  \A i, j \in 1 .. Len(Lines) :
    \A a \in 1 .. Len(Lines[i]), b \in 1 .. Len(Lines[j]) :
      Before(i, a, j, b) /\ said \cap {Lines[i][a], Lines[j][b]} = {} => Lines[i][a] < Lines[j][b]

Logged == UNION {{Lines[i][a] : a \in 1 .. Len(Lines[i])} : i \in 1 .. Len(Lines)}

\* As long as calls have not overlapped, between calls the log and the line buffer hold
\* every byte written: none was in a line so long that the system log dropped it, however
\* it was cut up.  Those of standard error and the winsys are there once each, in the
\* order the events happened in, whatever the GL loader puts between them; the loader's
\* own lines may overtake a partial line.
LogKeepsOrder ==
  ~mixed /\ (\A w \in Writers : pc[w] = "idle") => Ordered /\ Logged = 1 .. written

\* No byte is stored past the end of the line buffer, however calls overlap, unless two
\* threads were once between the test for a full buffer and the store at the same time.
LineBounded == raced \/ Len(line) <= LineMax

============================================================================
