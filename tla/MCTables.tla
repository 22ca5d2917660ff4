------------------------------ MODULE MCTables ------------------------------
(***************************************************************************)
(* The handle tables, and the CPU mappings of the buffers, which share no  *)
(* state.  Each is explored while the other has not begun.  Of the tables  *)
(* Kinds names two, the one whose create can be refused between its search *)
(* and its claim and the one that counts hangs; the lists and syncobjs     *)
(* have no step of their own.                                              *)
(***************************************************************************)
EXTENDS Tables, CpuMaps, TLC

TablesVars == <<vars, mapsVars>>

TablesInit == Init /\ MapsInit

HandlesStep == exclusive /\ MapsInit /\ Next /\ UNCHANGED mapsVars

MapsStep == Init /\ MapsNext /\ UNCHANGED vars

TablesNext == HandlesStep \/ MapsStep

TablesSpec == TablesInit /\ [][TablesNext]_TablesVars

----------------------------------------------------------------------------
\* Threads and runs of pages are told apart by nothing but what happens to them.
MCSymmetry == Permutations(Callers) \cup Permutations(Extents)

============================================================================
