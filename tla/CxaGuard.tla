------------------------------ MODULE CxaGuard ------------------------------
(***************************************************************************)
(* Function-local static guards: __cxa_guard_acquire and                   *)
(* __cxa_guard_release of src/runtime/cxx_support.cpp.                     *)
(*                                                                         *)
(* Two bytes, touched only by atomic loads, stores and exchanges.  A       *)
(* caller that is told 1 runs the initialiser and releases; one that is    *)
(* told 0 goes on to use the static.  A thread may come back any number of *)
(* times.  Every action is one atomic access, or the initialiser itself.   *)
(***************************************************************************)
EXTENDS Naturals

CONSTANT Callers   \* threads

VARIABLES
  done,     \* guard[0]
  pending,  \* guard[1]
  where,    \* where each thread is
  object    \* the guarded static: "raw", "building", "built" or "ruined"

guardVars == <<done, pending, where, object>>

Goes(t, from, to) == where[t] = from /\ where' = [where EXCEPT ![t] = to]

\* The first look at the done byte.
Look(t) ==
  /\ Goes(t, "call", IF done THEN "use" ELSE "exchange")
  /\ UNCHANGED <<done, pending, object>>

\* The exchange: 1 came back, somebody is ahead; 0, this thread holds the guard.
Exchange(t) ==
  /\ Goes(t, "exchange", IF pending THEN "spin" ELSE "check")
  /\ pending' = TRUE
  /\ UNCHANGED <<done, object>>

\* Mutant: a thread that finds the guard taken goes on without waiting.
SpinNot(t) ==
  /\ Goes(t, "spin", "use")
  /\ UNCHANGED <<done, pending, object>>

Spin(t) ==
  /\ Goes(t, "spin", IF done THEN "use" ELSE "exchange")
  /\ UNCHANGED <<done, pending, object>>

\* Mutant: the thread that gets the guard does not look at the done byte again.
CheckNothing(t) ==
  /\ Goes(t, "check", "init")
  /\ UNCHANGED <<done, pending, object>>

\* The guard was let go between the first look and the exchange, or it is fresh.
Check(t) ==
  /\ Goes(t, "check", IF done THEN "undo" ELSE "init")
  /\ UNCHANGED <<done, pending, object>>

Undo(t) ==
  /\ Goes(t, "undo", "use")
  /\ pending' = FALSE
  /\ UNCHANGED <<done, object>>

\* The caller's initialiser, between acquire and release.
Begin(t) ==
  /\ Goes(t, "init", "build")
  /\ object' = IF object = "raw" THEN "building" ELSE "ruined"
  /\ UNCHANGED <<done, pending>>

Finish(t) ==
  /\ Goes(t, "build", "release")
  /\ object' = IF object = "building" THEN "built" ELSE "ruined"
  /\ UNCHANGED <<done, pending>>

\* Mutant: release is an empty stub.
ReleaseStub(t) ==
  /\ Goes(t, "release", "use")
  /\ UNCHANGED <<done, pending, object>>

\* Mutant: release forgets the done byte.
ReleaseNotDone(t) ==
  /\ Goes(t, "release", "clear")
  /\ UNCHANGED <<done, pending, object>>

\* Release: the done byte, then the pending byte.
Release(t) ==
  /\ Goes(t, "release", "clear")
  /\ done' = TRUE
  /\ UNCHANGED <<pending, object>>

Clear(t) ==
  /\ Goes(t, "clear", "use")
  /\ pending' = FALSE
  /\ UNCHANGED <<done, object>>

\* The static is used, and its function entered again some other time.
Again(t) ==
  /\ Goes(t, "use", "call")
  /\ UNCHANGED <<done, pending, object>>

GuardInit ==
  /\ done = FALSE
  /\ pending = FALSE
  /\ where = [t \in Callers |-> "call"]
  /\ object = "raw"

GuardStep(t) ==
  \/ Look(t) \/ Exchange(t) \/ Spin(t) \/ Check(t) \/ Undo(t)
  \/ Begin(t) \/ Finish(t) \/ Release(t) \/ Clear(t)

GuardNext == \E t \in Callers : GuardStep(t) \/ Again(t)

\* A thread in the guard or in the initialiser keeps running.
GuardFairness == \A t \in Callers : WF_guardVars(GuardStep(t))

GuardSpec == GuardInit /\ [][GuardNext]_guardVars /\ GuardFairness

----------------------------------------------------------------------------
\* Properties.

Accesses == {"call", "exchange", "spin", "check", "undo", "init", "build", "release",
             "clear", "use"}

\* The bytes are flags and every thread is at an access of the code.
GuardTypeOK ==
  /\ done \in BOOLEAN
  /\ pending \in BOOLEAN
  /\ where \in [Callers -> Accesses]
  /\ object \in {"raw", "building", "built", "ruined"}

\* Nobody goes on to use the static before its initialiser has finished.
UseIsBuilt == \A t \in Callers : where[t] = "use" => object = "built"

\* The initialiser runs once: never twice, and never over a finished object.
BuiltOnce == object # "ruined"

\* Every caller is let through, the ones that spin included.
EveryoneGetsIn == \A t \in Callers : where[t] = "call" ~> where[t] = "use"

\* The inductive invariant.  The pending byte is a lock: whoever read it 0 holds it.
\* The done byte is set once the object is built and by nobody else, and the object
\* is under construction only in the hands of the lock's holder.
Holds(t) == where[t] \in {"check", "undo", "init", "build", "release", "clear"}

OneHolder ==
  /\ \A t \in Callers : Holds(t) => pending
  /\ \A t, u \in Callers : Holds(t) /\ Holds(u) => t = u

ObjectInStep ==
  /\ done => object = "built"
  /\ BuiltOnce
  /\ object = "building" => \E t \in Callers : where[t] = "build"
  /\ object = "built" /\ ~done => \E t \in Callers : where[t] = "release"
  /\ \A t \in Callers :
       /\ where[t] = "init" => object = "raw" /\ ~done
       /\ where[t] = "build" => object = "building" /\ ~done
       /\ where[t] = "release" => object = "built" /\ ~done
       /\ where[t] \in {"undo", "clear", "use"} => done

GuardInv == GuardTypeOK /\ OneHolder /\ ObjectInStep

============================================================================
