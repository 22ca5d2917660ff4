------------------------------- MODULE MCLog -------------------------------
(***************************************************************************)
(* The two halves of what the winsys tells a developer: the log and the    *)
(* progress marks.  They share no state; each is explored while the other  *)
(* has not begun.                                                          *)
(***************************************************************************)
EXTENDS Log, Marks

DiagVars == <<vars, marksVars>>

DiagInit == Init /\ MarksInit

LogStep == MarksInit /\ Next /\ UNCHANGED marksVars

MarksStep == Init /\ MarksNext /\ UNCHANGED vars

DiagNext == LogStep \/ MarksStep

DiagSpec == DiagInit /\ [][DiagNext]_DiagVars

----------------------------------------------------------------------------
\* A partial line, a line ended with CR LF, one longer than the buffer, one that
\* a truncation leaves, a flush.
SomeTexts ==
  { <<Letter>>, <<Letter, Letter, Return, NewLine>>, [k \in 1 .. LineMax + 1 |-> Letter],
    [k \in 1 .. LineMax - 1 |-> Letter], <<NewLine>> }

\* A draw or a sample elsewhere, and in the next buffer each kind of write; a wait for a
\* value; two noted packets in one buffer; one past the packet that stops the walk.
SomeSubmissions ==
  LET a == CHOOSE v \in Vas \ Unmappable : TRUE
      At(k, va) == [kind |-> k, va |-> va, ref |-> 1]
      first == {At("D", a)} \cup {At("S", v) : v \in Unmappable}
  IN  {<<<<p>>, <<At(k, a)>>>> : p \in first, k \in {"W", "T", "E"}}
        \cup {<<<<At("P", a), At("E", a)>>>>, <<<<At("N", a), At("W", a)>>>>}

============================================================================
