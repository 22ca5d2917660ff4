------------------------------- MODULE Emutls -------------------------------
(***************************************************************************)
(* Emulated thread-local storage over pthread_once:                        *)
(* src/runtime/emutls.c and pthread_once of src/runtime/threads.c.         *)
(*                                                                         *)
(* Every access of a thread-local calls __emutls_get_address: create the   *)
(* key once, give the variable's control record an index once, grow the    *)
(* calling thread's array, allocate the object.  A thread's array hangs    *)
(* off the key and is freed, with its objects, when the thread exits.      *)
(* Addresses of objects are small numbers the allocator reuses.            *)
(***************************************************************************)
EXTENDS Naturals, FiniteSets

CONSTANTS
  Threads,
  Controls,   \* thread-local variables
  MaxObjects, \* bound: addresses the allocator has
  Failures    \* calls that may be refused:
              \* "malloc", "setspecific", "key_create", "mutex_init"

ASSUME EmutlsAssumption ==
  /\ IsFiniteSet(Threads) /\ IsFiniteSet(Controls)
  /\ MaxObjects \in Nat
  /\ Failures \subseteq {"malloc", "setspecific", "key_create", "mutex_init"}

Objects == 1 .. MaxObjects
Indices == 1 .. Cardinality(Controls) * Cardinality(Threads)
NoArray == [live |-> TRUE, len |-> 0, slot |-> [i \in Indices |-> 0]]

VARIABLES
  lockReady,  \* s_once_lock_ready
  holder,     \* who holds s_once_lock; {} if nobody
  once,       \* s_key_once.state
  key,        \* s_key has been created
  undefined,  \* some thread used s_key before it was, or an array already freed
  index,      \* object.index of each control record
  nextIndex,  \* s_next_index
  tls,        \* the array each thread's key value points to; NoArray for NULL
  heap,       \* objects allocated and not freed
  got,        \* history: the address each thread was last given for each variable
  pc, ctl, ix \* where each thread is, the variable it asked for, its index

onceVars == <<lockReady, holder, once, key>>
vars == <<onceVars, undefined, index, nextIndex, tls, heap, got, pc, ctl, ix>>

Go(t, from, to) == pc[t] = from /\ pc' = [pc EXCEPT ![t] = to]

----------------------------------------------------------------------------
\* pthread_once.

Call(t, c) ==
  /\ Go(t, "idle", "once")
  /\ ctl' = [ctl EXCEPT ![t] = c]
  /\ UNCHANGED <<onceVars, undefined, index, nextIndex, tls, heap, got, ix>>

\* The lock is created by whoever finds it missing, which is not synchronised.
Once(t) ==
  /\ Go(t, "once", IF lockReady THEN "lock" ELSE "init lock")
  /\ UNCHANGED <<onceVars, undefined, index, nextIndex, tls, heap, got, ctl, ix>>

InitLock(t) ==
  /\ Go(t, "init lock", "lock")
  /\ lockReady' = TRUE
  /\ holder' = {}
  /\ UNCHANGED <<once, key, undefined, index, nextIndex, tls, heap, got, ctl, ix>>

\* pthread_mutex_init is refused: pthread_once returns, and its caller goes on.
OnceRefused(t) ==
  /\ "mutex_init" \in Failures
  /\ Go(t, "init lock", "index")
  /\ UNCHANGED <<onceVars, undefined, index, nextIndex, tls, heap, got, ctl, ix>>

Lock(t) ==
  /\ holder = {}
  /\ Go(t, "lock", "test")
  /\ holder' = {t}
  /\ UNCHANGED <<lockReady, once, key, undefined, index, nextIndex, tls, heap, got, ctl, ix>>

Test(t) ==
  /\ Go(t, "test", IF once = 0 THEN "claim" ELSE "pass")
  /\ UNCHANGED <<onceVars, undefined, index, nextIndex, tls, heap, got, ctl, ix>>

\* The state is set and the lock let go before the routine runs.
Claim(t) ==
  /\ Go(t, "claim", "routine")
  /\ once' = 1
  /\ holder' = {}
  /\ UNCHANGED <<lockReady, key, undefined, index, nextIndex, tls, heap, got, ctl, ix>>

Pass(t) ==
  /\ Go(t, "pass", "index")
  /\ holder' = {}
  /\ UNCHANGED <<lockReady, once, key, undefined, index, nextIndex, tls, heap, got, ctl, ix>>

\* emutls_key_init, whose failure nobody sees.
KeyInit(t) ==
  /\ Go(t, "routine", "index")
  /\ key' = TRUE \/ ("key_create" \in Failures /\ UNCHANGED key)
  /\ UNCHANGED <<lockReady, holder, once, undefined, index, nextIndex, tls, heap, got, ctl, ix>>

----------------------------------------------------------------------------
\* __emutls_get_address after the key.

\* The first, unlocked, look at the variable's index.
ReadIndex(t) ==
  /\ Go(t, "index", IF index[ctl[t]] = 0 THEN "assign" ELSE "array")
  /\ ix' = [ix EXCEPT ![t] = index[ctl[t]]]
  /\ UNCHANGED <<onceVars, undefined, index, nextIndex, tls, heap, got, ctl>>

\* Mutant: the index is not looked at again under the lock.
NeedsIndexAlways(c) == TRUE

NeedsIndex(c) == index[c] = 0

\* Mutant: the counter is read before it is bumped, and so hands out its old value.
FreshIndexLate == IF nextIndex = 0 THEN 1 ELSE nextIndex

FreshIndex == nextIndex + 1

\* The critical section of s_index_lock, whose pthread_mutex_lock succeeds: its result is
\* ignored, and one that failed would let two threads give one variable two indices.
AssignIndex(t) ==
  /\ Go(t, "assign", "array")
  /\ IF NeedsIndex(ctl[t])
     THEN /\ nextIndex' = nextIndex + 1
          /\ index' = [index EXCEPT ![ctl[t]] = FreshIndex]
          /\ ix' = [ix EXCEPT ![t] = FreshIndex]
     ELSE /\ ix' = [ix EXCEPT ![t] = index[ctl[t]]]
          /\ UNCHANGED <<index, nextIndex>>
  /\ UNCHANGED <<onceVars, undefined, tls, heap, got, ctl>>

ReturnNull(t) ==
  /\ pc' = [pc EXCEPT ![t] = "idle"]
  /\ UNCHANGED <<heap, got>>

\* realloc to n slots; the ones past the old length are cleared, the others kept.
Grown(a, n) ==
  [live |-> TRUE, len |-> n, slot |-> [i \in Indices |-> IF i <= a.len THEN a.slot[i] ELSE 0]]

\* emutls_array_for.  The old array is gone once realloc has moved it; when the key
\* then refuses the new one, the key is left with the old pointer.
ArrayFor(t) ==
  /\ pc[t] = "array"
  /\ undefined' = (undefined \/ ~key \/ ~tls[t].live)
  /\ \/ /\ tls[t].len >= ix[t]
        /\ pc' = [pc EXCEPT ![t] = "object"]
        /\ UNCHANGED <<tls, heap, got>>
     \/ /\ tls[t].len < ix[t]
        /\ key
        /\ tls' = [tls EXCEPT ![t] = Grown(tls[t], ix[t])]
        /\ pc' = [pc EXCEPT ![t] = "object"]
        /\ UNCHANGED <<heap, got>>
     \/ /\ tls[t].len < ix[t]
        /\ "malloc" \in Failures
        /\ ReturnNull(t)
        /\ UNCHANGED tls
     \/ /\ tls[t].len < ix[t]
        /\ ~key \/ "setspecific" \in Failures
        /\ tls' = [tls EXCEPT ![t].live = (tls[t].len = 0)]
        /\ ReturnNull(t)
  /\ UNCHANGED <<onceVars, index, nextIndex, ctl, ix>>

\* The object of this thread, allocated at its first use by this thread.
GetObject(t) ==
  LET a == tls[t].slot[ix[t]]
      free == Objects \ heap
  IN  /\ pc[t] = "object"
      /\ \/ /\ a # 0
            /\ got' = [got EXCEPT ![t][ctl[t]] = a]
            /\ UNCHANGED <<tls, heap>>
         \/ /\ a = 0
            /\ \E o \in free :
                 /\ \A p \in free : o <= p
                 /\ tls' = [tls EXCEPT ![t].slot[ix[t]] = o]
                 /\ heap' = heap \cup {o}
                 /\ got' = [got EXCEPT ![t][ctl[t]] = o]
         \/ /\ a = 0
            /\ "malloc" \in Failures
            /\ UNCHANGED <<tls, heap, got>>
      /\ pc' = [pc EXCEPT ![t] = "idle"]
      /\ UNCHANGED <<onceVars, undefined, index, nextIndex, ctl, ix>>

\* emutls_thread_cleanup frees slots 1 to count of the array the key holds, freed or not.
Cleaned(a) == {a.slot[i] : i \in {j \in Indices : j <= a.len}}

ThreadExit(t) ==
  /\ Go(t, "idle", "gone")
  /\ heap' = heap \ Cleaned(tls[t])
  /\ tls' = [tls EXCEPT ![t] = NoArray]
  /\ got' = [got EXCEPT ![t] = [c \in Controls |-> 0]]
  /\ undefined' = (undefined \/ ~tls[t].live)
  /\ UNCHANGED <<onceVars, index, nextIndex, ctl, ix>>

----------------------------------------------------------------------------
Init ==
  /\ lockReady = FALSE /\ holder = {} /\ once = 0 /\ key = FALSE
  /\ undefined = FALSE
  /\ index = [c \in Controls |-> 0]
  /\ nextIndex = 0
  /\ tls = [t \in Threads |-> NoArray]
  /\ heap = {}
  /\ got = [t \in Threads |-> [c \in Controls |-> 0]]
  /\ pc = [t \in Threads |-> "idle"]
  /\ ctl \in [Threads -> Controls]
  /\ ix = [t \in Threads |-> 0]

Next ==
  \/ \E t \in Threads, c \in Controls : Call(t, c)
  \/ \E t \in Threads :
       \/ Once(t) \/ InitLock(t) \/ OnceRefused(t) \/ Lock(t) \/ Test(t) \/ Claim(t) \/ Pass(t)
       \/ KeyInit(t)
       \/ ReadIndex(t) \/ AssignIndex(t) \/ ArrayFor(t) \/ GetObject(t) \/ ThreadExit(t)

Spec == Init /\ [][Next]_vars

----------------------------------------------------------------------------
\* Properties.

\* Nothing undefined has happened: no use of the key before it exists, none of a freed
\* array, and no key left with one.
Defined == ~undefined /\ \A t \in Threads : tls[t].live

\* Two thread-locals never share an index, however their first uses race; and, while
\* Defined, the storage a thread was given is its own: no other thread, and no other
\* variable of the same thread, has that address, it has not been freed, and every
\* object is in some running thread's array, which will free it.
StoragePrivate ==
  /\ \A c, d \in Controls : index[c] = index[d] /\ index[c] # 0 => c = d
  /\ Defined =>
       /\ \A t, u \in Threads, c, d \in Controls :
            got[t][c] # 0 =>
              /\ got[t][c] \in heap
              /\ got[t][c] = got[u][d] => t = u /\ c = d
       /\ heap = {o \in Objects : \E t \in Threads, i \in Indices : o = tls[t].slot[i]}

\* A thread sees the same address for a variable for as long as it runs.
AddressStable ==
  [][Defined => \A t \in Threads, c \in Controls :
       got[t][c] # 0 /\ pc'[t] # "gone" => got'[t][c] = got[t][c]]_vars

\* A refusal becomes a null return and never leaves a wild pointer behind: what the
\* key holds is NULL or an array that exists.
NoWildPointer == \A t \in Threads : tls[t].live

\* Threads may reach their first use together: no thread uses the key before it has
\* been created.
KeyBeforeUse == \A t \in Threads : pc[t] = "array" => key

============================================================================
