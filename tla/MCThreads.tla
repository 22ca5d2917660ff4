----------------------------- MODULE MCThreads ------------------------------
(***************************************************************************)
(* The thread runtime: thread-local storage and bounded waits, which share *)
(* no state.  Each is explored while the other has not begun.              *)
(***************************************************************************)
EXTENDS Emutls, Waits

ThreadsVars == <<vars, waitsVars>>

ThreadsInit == Init /\ WaitsInit

EmutlsStep == WaitsInit /\ Next /\ UNCHANGED waitsVars

WaitsStep ==
  /\ Init
  /\ ctl = CHOOSE any \in [Threads -> Controls] : TRUE
  /\ WaitsNext
  /\ UNCHANGED vars

ThreadsNext == EmutlsStep \/ WaitsStep

ThreadsSpec == ThreadsInit /\ [][ThreadsNext]_ThreadsVars

----------------------------------------------------------------------------
MCDeadlines == 0 .. 16
MCSleeps == 0 .. 3

============================================================================
