--------------------------- MODULE ThreadsProofs ----------------------------
(***************************************************************************)
(* Theorems about the thread runtime: thread-local storage (Emutls) for    *)
(* any number of threads and variables, bounded waits (Waits) for any      *)
(* clock, any units and any deadline, and static guards (CxaGuard) for any *)
(* number of threads.                                                      *)
(***************************************************************************)
EXTENDS Emutls, Waits, CxaGuard, FiniteSetTheorems, TLAPS

----------------------------------------------------------------------------
\* Thread-local storage: the inductive invariant.

Held(t, o) == \E i \in Indices : o = tls[t].slot[i]

Places ==
  {"idle", "once", "init lock", "lock", "test", "claim", "pass", "routine", "index", "assign",
   "array", "object", "gone"}

EmutlsTypeOK ==
  /\ index \in [Controls -> Nat]
  /\ nextIndex \in Nat
  /\ tls \in [Threads -> [live : BOOLEAN, len : Nat, slot : [Indices -> Objects \cup {0}]]]
  /\ heap \subseteq Objects
  /\ got \in [Threads -> [Controls -> Objects \cup {0}]]
  /\ pc \in [Threads -> Places]
  /\ ctl \in [Threads -> Controls]
  /\ ix \in [Threads -> Nat]

Indexed == {c \in Controls : index[c] # 0}

\* The counter has handed out one index to each variable that has one.
IndicesApart ==
  /\ Cardinality(Indexed) = nextIndex
  /\ \A c \in Controls : index[c] <= nextIndex
  /\ \A c, d \in Controls : index[c] = index[d] /\ index[c] # 0 => c = d

\* What a thread read of a variable's index is still its index when it is used.
IndexKnown ==
  \A t \in Threads :
    /\ pc[t] \in {"array", "object"} => ix[t] = index[ctl[t]] /\ ix[t] # 0
    /\ pc[t] = "object" => ix[t] <= tls[t].len

\* No object is in two slots, of one thread or of two, and none is past the count, where
\* neither growth nor cleanup would find it.
SlotsApart ==
  /\ \A t \in Threads, i \in Indices : tls[t].slot[i] # 0 => i <= tls[t].len
  /\ \A t, u \in Threads, i, j \in Indices :
       tls[t].slot[i] # 0 /\ tls[t].slot[i] = tls[u].slot[j] => t = u /\ i = j

HeapHeld == heap = {o \in Objects : \E t \in Threads : Held(t, o)}

\* An address a thread was given is in its slot for that variable.
GotHeld ==
  \A t \in Threads, c \in Controls :
    got[t][c] # 0 => index[c] # 0 /\ tls[t].slot[index[c]] = got[t][c]

EmutlsInv ==
  /\ EmutlsTypeOK
  /\ IndicesApart
  /\ IndexKnown
  /\ SlotsApart
  /\ HeapHeld
  /\ GotHeld

----------------------------------------------------------------------------
\* Waits: the inductive invariant.

Results == {"none", "0", "-1", "ETIMEDOUT", "EPERM", "EINVAL"}

QuietCalls == [at : {"idle"}, op : {"none"}, result : {"none", "ENOSYS", "EINVAL"}]

ArmedCalls ==
  [at : {"armed"}, op : {"wait"}, clock : {"realtime", "monotonic"}, due : Nat, read : Nat,
   usec : Nat, result : {"none"}]

BlockedCalls ==
  [at : {"blocked", "idle"}, op : {"wait"}, clock : {"realtime", "monotonic"}, due : Nat,
   read : Nat, usec : Nat, result : Results, from : Nat, until : Nat]

SleepCalls ==
  [at : {"asleep", "awake", "idle"}, op : {"sleep"}, begun : Nat, asked : Nat, want : Nat,
   awake : Nat, from : Nat, until : Nat, result : Results]

\* The microseconds handed to the platform reach the deadline to within one of them,
\* from the moment the clock was read.
Measured(c) ==
  /\ c.usec * NsPerUsec < Larger(c.due - c.read, 0) + NsPerUsec
  /\ c.clock = "realtime" /\ c.usec < MaxUsec =>
       c.read + c.usec * NsPerUsec + NsPerUsec > c.due

ArmedWell == call \in ArmedCalls /\ Measured(call) /\ call.read <= now

BlockedWell ==
  /\ call \in BlockedCalls
  /\ Measured(call)
  /\ call.read <= call.from /\ call.from <= now /\ now <= call.until
  /\ call.until = call.from + call.usec * NsPerUsec
  /\ call.result = "ETIMEDOUT" => now = call.until

\* However often it was interrupted, what is still to be slept is what was asked for,
\* moved back by the time spent awake.
SleepsWell ==
  /\ call \in SleepCalls
  /\ call.from <= now
  /\ call.at = "asleep" => now <= call.until
  /\ call.at = "asleep" => call.until = call.begun + call.asked + call.awake
  /\ call.at = "awake"  => call.from + call.want = call.begun + call.asked + call.awake
  /\ call.at = "idle"   => now >= call.begun + call.asked

WaitsInv ==
  /\ now \in Nat
  /\ interrupts \in Nat
  /\ call \in QuietCalls \/ ArmedWell \/ BlockedWell \/ SleepsWell

----------------------------------------------------------------------------
\* Waits: the arithmetic.

\* Division and remainder split a number, whatever the divisor.
LEMMA DivMod ==
  ASSUME NEW x \in Nat, NEW k \in Nat \ {0}
  PROVE  /\ x \div k \in Nat /\ x % k \in Nat
         /\ x = (x \div k) * k + (x % k)
  OBVIOUS

\* C's division is off by less than the divisor, on either side of zero.
LEMMA QuotientClose ==
  ASSUME NEW m \in Int, NEW n \in Nat \ {0}
  PROVE  /\ Quotient(m, n) \in Int
         /\ Quotient(m, n) * n - m < n
         /\ m - Quotient(m, n) * n < n
  BY DEF Quotient

\* A second is a whole number of microseconds.
LEMMA SecondIsUsecs == NsPerSec \in Nat \ {0} /\ NsPerSec = UsecPerSec * NsPerUsec
  <1>1. \A a, b \in Nat \ {0} : a * b \in Nat \ {0} /\ a * b = b * a
    OBVIOUS
  <1> QED BY <1>1, WaitsAssumption DEF NsPerSec

\* Scaling a count of seconds and a rest.
LEMMA Scaled ==
  \A e, q \in Int, s, n \in Nat : /\ (e * s + q) * n = e * (s * n) + q * n
                                  /\ e * s + q \in Int
  OBVIOUS

\* The conversion is off by less than a microsecond: the seconds' difference is exact and
\* the nanoseconds' is rounded once, towards zero.
LEMMA UntilIsClose ==
  ASSUME NEW d \in Nat, NEW r \in Nat
  PROVE  /\ UsecUntil(d, r) \in Int
         /\ UsecUntil(d, r) * NsPerUsec - (d - r) < NsPerUsec
         /\ (d - r) - UsecUntil(d, r) * NsPerUsec < NsPerUsec
  <1>0. NsPerSec \in Nat \ {0} /\ NsPerUsec \in Nat \ {0} /\ UsecPerSec \in Nat
    BY SecondIsUsecs, WaitsAssumption
  <1>1. PICK a \in Nat, x \in Nat :
          a = d \div NsPerSec /\ x = d % NsPerSec /\ d = a * NsPerSec + x
    <2>1. /\ d \div NsPerSec \in Nat /\ d % NsPerSec \in Nat
          /\ d = (d \div NsPerSec) * NsPerSec + (d % NsPerSec)
      BY <1>0, DivMod
    <2> QED BY <2>1
  <1>2. PICK b \in Nat, y \in Nat :
          b = r \div NsPerSec /\ y = r % NsPerSec /\ r = b * NsPerSec + y
    <2>1. /\ r \div NsPerSec \in Nat /\ r % NsPerSec \in Nat
          /\ r = (r \div NsPerSec) * NsPerSec + (r % NsPerSec)
      BY <1>0, DivMod
    <2> QED BY <2>1
  <1>3. PICK q \in Int : /\ q = Quotient(x - y, NsPerUsec)
                         /\ q * NsPerUsec - (x - y) < NsPerUsec
                         /\ (x - y) - q * NsPerUsec < NsPerUsec
    <2>1. x - y \in Int
      BY <1>1, <1>2
    <2> QED BY <2>1, <1>0, QuotientClose
  <1>4. UsecUntil(d, r) = (a - b) * UsecPerSec + q
    BY <1>1, <1>2, <1>3 DEF UsecUntil
  <1>5. d - r = (a - b) * NsPerSec + (x - y)
    <2>1. NsPerSec \in Nat
      BY <1>0
    <2>2. \A e, f, k \in Nat : (e - f) * k = e * k - f * k /\ e * k \in Nat
      OBVIOUS
    <2>3. PICK u \in Nat, v \in Nat :
            u = a * NsPerSec /\ v = b * NsPerSec /\ (a - b) * NsPerSec = u - v
      BY <2>1, <2>2
    <2>4. d = u + x /\ r = v + y
      BY <1>1, <1>2, <2>3
    <2> QED BY <2>3, <2>4
  <1>6. /\ UsecUntil(d, r) \in Int
        /\ UsecUntil(d, r) * NsPerUsec = (a - b) * NsPerSec + q * NsPerUsec
    BY <1>0, <1>1, <1>2, <1>3, <1>4, Scaled, SecondIsUsecs
  <1>7. \A z, u, v, n \in Int :
          u - v < n /\ v - u < n => (z + u) - (z + v) < n /\ (z + v) - (z + u) < n
    OBVIOUS
  <1>8. (a - b) * NsPerSec \in Int /\ q * NsPerUsec \in Int /\ x - y \in Int
    BY <1>0, <1>1, <1>2, <1>3
  <1> QED BY <1>0, <1>3, <1>5, <1>6, <1>7, <1>8

\* The timespec usleep builds is the time it was asked for.
LEMMA WantIsAsked ==
  ASSUME NEW u \in Nat
  PROVE  Want(u) = u * NsPerUsec /\ u * NsPerUsec \in Nat
  <1>0. NsPerUsec \in Nat /\ UsecPerSec \in Nat \ {0}
    BY WaitsAssumption
  <1>1. PICK a \in Nat, x \in Nat :
          a = u \div UsecPerSec /\ x = u % UsecPerSec /\ u = a * UsecPerSec + x
    <2>1. /\ u \div UsecPerSec \in Nat /\ u % UsecPerSec \in Nat
          /\ u = (u \div UsecPerSec) * UsecPerSec + (u % UsecPerSec)
      BY <1>0, DivMod
    <2> QED BY <2>1
  <1> QED BY <1>0, <1>1, Scaled, SecondIsUsecs DEF Want

\* What is handed to the platform: a deadline in the past becomes no wait at all, one past
\* the limit becomes a shorter one, and any other is kept to within a microsecond.
LEMMA TimeoutIsClose ==
  ASSUME NEW d \in Nat, NEW r \in Nat
  PROVE  LET n == Timeout(UsecUntil(d, r))
         IN  /\ n \in Nat /\ n * NsPerUsec \in Nat
             /\ n * NsPerUsec < Larger(d - r, 0) + NsPerUsec
             /\ n < MaxUsec => r + n * NsPerUsec + NsPerUsec > d
  <1>0. NsPerUsec \in Nat \ {0} /\ MaxUsec \in Nat
    BY WaitsAssumption
  <1>1. PICK u \in Int : /\ u = UsecUntil(d, r)
                         /\ u * NsPerUsec - (d - r) < NsPerUsec
                         /\ (d - r) - u * NsPerUsec < NsPerUsec
    BY UntilIsClose
  <1>2. PICK n \in Nat : n = Timeout(u) /\ n * NsPerUsec \in Nat
    <2>1. Timeout(u) \in Nat
      BY <1>0, <1>1 DEF Timeout
    <2>2. \A k \in Nat : k * NsPerUsec \in Nat
      BY <1>0
    <2> QED BY <2>1, <2>2
  <1>3. \A a, b \in Int : a <= b => a * NsPerUsec <= b * NsPerUsec
    BY <1>0
  <1>4. u * NsPerUsec \in Int /\ 0 * NsPerUsec = 0
    BY <1>0, <1>1
  <1>5. CASE u < 0
    <2>1. n = 0 /\ n * NsPerUsec = 0 /\ u * NsPerUsec <= 0
      BY <1>0, <1>1, <1>2, <1>3, <1>4, <1>5 DEF Timeout
    <2> QED BY <1>0, <1>1, <1>2, <1>4, <2>1 DEF Larger
  <1>6. CASE u >= 0
    <2>1. n <= u /\ (n < MaxUsec => n = u)
      BY <1>0, <1>1, <1>2, <1>6 DEF Timeout
    <2>2. n * NsPerUsec <= u * NsPerUsec
      BY <1>1, <1>2, <1>3, <2>1
    <2>3. n < MaxUsec => n * NsPerUsec = u * NsPerUsec
      BY <2>1
    <2> QED BY <1>0, <1>1, <1>2, <1>4, <2>2, <2>3 DEF Larger
  <1> QED BY <1>1, <1>5, <1>6

----------------------------------------------------------------------------
\* Waits: every step keeps the invariant.

\* A clock reading arms a call whose microseconds are right for that reading.  The
\* deadline of a monotonic wait is later than the number that was converted.
LEMMA ReadClockKeeps ==
  ASSUME WaitsInv, NEW d \in Deadlines, NEW c \in {"realtime", "monotonic"}, ReadClock(d, c)
  PROVE  WaitsInv'
  <1>0. /\ NsPerUsec \in Nat \ {0} /\ MaxUsec \in Nat /\ Epoch \in Nat /\ d \in Nat
        /\ now \in Nat
    BY WaitsAssumption DEF WaitsInv
  <1>1. PICK n \in Nat : /\ n = Timeout(UsecUntil(d, now)) /\ n * NsPerUsec \in Nat
                         /\ n * NsPerUsec < Larger(d - now, 0) + NsPerUsec
                         /\ n < MaxUsec => now + n * NsPerUsec + NsPerUsec > d
    BY <1>0, TimeoutIsClose
  <1>2. PICK due \in Nat : /\ due = (IF c = "monotonic" THEN Epoch + d ELSE d)
                           /\ d <= due /\ (c = "realtime" => due = d)
    BY <1>0
  <1>3. call' = [at |-> "armed", op |-> "wait", clock |-> c, due |-> due, read |-> now,
                 usec |-> n, result |-> "none"]
    BY <1>1, <1>2 DEF ReadClock
  <1>4. now' = now /\ interrupts' = interrupts
    BY DEF ReadClock
  <1>5. n * NsPerUsec < Larger(due - now, 0) + NsPerUsec
    BY <1>0, <1>1, <1>2 DEF Larger
  <1>6. ArmedWell'
    BY <1>0, <1>1, <1>2, <1>3, <1>4, <1>5 DEF ArmedWell, ArmedCalls, Measured
  <1> QED BY <1>4, <1>6 DEF WaitsInv

\* Which of the four kinds of call is in progress.
LEMMA KindOf ==
  ASSUME WaitsInv
  PROVE  /\ call.at = "armed" => ArmedWell
         /\ call.at = "blocked" => BlockedWell
         /\ call.at \in {"asleep", "awake"} => SleepsWell
         /\ now \in Nat /\ interrupts \in Nat /\ NsPerUsec \in Nat \ {0}
  BY WaitsAssumption
     DEF WaitsInv, ArmedWell, BlockedWell, SleepsWell, QuietCalls, ArmedCalls, BlockedCalls,
         SleepCalls

\* The platform's call begins; time may have passed since the clock was read.
LEMMA BlockKeeps ==
  ASSUME WaitsInv, Block
  PROVE  WaitsInv'
  <1>1. ArmedWell /\ now \in Nat /\ interrupts \in Nat /\ NsPerUsec \in Nat
    BY KindOf DEF Block
  <1>2. PICK n \in Nat : n = call.usec /\ n * NsPerUsec \in Nat
    BY <1>1 DEF ArmedWell, ArmedCalls
  <1>3. /\ call' = [at |-> "blocked", op |-> "wait", clock |-> call.clock, due |-> call.due,
                    read |-> call.read, usec |-> call.usec, result |-> "none",
                    from |-> now, until |-> now + n * NsPerUsec]
        /\ now' = now /\ interrupts' = interrupts
    BY <1>2 DEF Block
  <1>4. call' \in BlockedCalls
    BY <1>1, <1>2, <1>3 DEF ArmedWell, ArmedCalls, BlockedCalls, Results
  <1>5. Measured(call)'
    BY <1>1, <1>3 DEF ArmedWell, ArmedCalls, Measured
  <1>6. BlockedWell'
    BY <1>1, <1>2, <1>3, <1>4, <1>5 DEF ArmedWell, BlockedWell
  <1> QED BY <1>1, <1>3, <1>6 DEF WaitsInv

\* It ends: only the kernel's own ETIMEDOUT becomes the caller's, and it comes at the end.
LEMMA UnblockKeeps ==
  ASSUME WaitsInv, NEW rc \in Answers, Unblock(rc)
  PROVE  WaitsInv'
  <1>1. BlockedWell /\ now \in Nat /\ interrupts \in Nat
    BY KindOf DEF Unblock
  <1>2. ToErrno(rc) \in Results /\ (ToErrno(rc) = "ETIMEDOUT" => now = call.until)
    <2>1. CASE rc \in [facility : {"none"}, low : {"0"}]
      BY <2>1 DEF ToErrno, Results
    <2>2. CASE rc \in [facility : {"kernel"}, low : {"ETIMEDOUT", "EPERM"}]
      <3>1. ToErrno(rc) = rc.low
        BY <2>2 DEF ToErrno, Results
      <3>2. rc.low = "ETIMEDOUT" => rc = [facility |-> "kernel", low |-> "ETIMEDOUT"]
        BY <2>2
      <3> QED BY <2>2, <3>1, <3>2 DEF Unblock, Results
    <2>3. CASE rc \in [facility : {"other"}, low : {"ETIMEDOUT"}]
      BY <2>3 DEF ToErrno, Results
    <2> QED BY <2>1, <2>2, <2>3 DEF Answers
  <1>3. /\ call' = [call EXCEPT !.at = "idle", !.result = ToErrno(rc)]
        /\ now' = now /\ interrupts' = interrupts
    BY DEF Unblock, Ended
  <1>4. call' \in BlockedCalls
    BY <1>1, <1>2, <1>3 DEF BlockedWell, BlockedCalls
  <1>5. /\ call'.due = call.due /\ call'.read = call.read /\ call'.usec = call.usec
        /\ call'.clock = call.clock /\ call'.from = call.from /\ call'.until = call.until
        /\ call'.result = ToErrno(rc)
    BY <1>1, <1>3 DEF BlockedWell, BlockedCalls
  <1>6. BlockedWell'
    BY <1>1, <1>2, <1>3, <1>4, <1>5 DEF BlockedWell, Measured
  <1> QED BY <1>1, <1>3, <1>6 DEF WaitsInv

\* usleep begins with the whole of what it was asked for.
LEMMA SleepKeeps ==
  ASSUME WaitsInv, NEW n \in Sleeps, Sleep(n)
  PROVE  WaitsInv'
  <1>0. n \in Nat /\ now \in Nat
    BY WaitsAssumption DEF WaitsInv
  <1>1. PICK w \in Nat : w = n * NsPerUsec /\ w = Want(n)
    BY <1>0, WantIsAsked
  <1>2. call' = [at |-> "asleep", op |-> "sleep", begun |-> now, asked |-> w, want |-> w,
                 awake |-> 0, from |-> now, until |-> now + w, result |-> "none"]
    BY <1>1 DEF Sleep
  <1>3. now' = now /\ interrupts' = 0
    BY DEF Sleep
  <1>4. SleepsWell'
    BY <1>0, <1>1, <1>2, <1>3 DEF SleepsWell, SleepCalls, Results
  <1> QED BY <1>0, <1>3, <1>4 DEF WaitsInv

\* nanosleep has slept what it was asked for.
LEMMA SleptKeeps ==
  ASSUME WaitsInv, Slept
  PROVE  WaitsInv'
  <1>1. SleepsWell /\ now \in Nat /\ interrupts \in Nat /\ call.at = "asleep"
    BY KindOf DEF Slept
  <1>2. /\ call' = [call EXCEPT !.at = "idle", !.result = "0"]
        /\ now' = now /\ interrupts' = interrupts /\ now = call.until
    BY DEF Slept, Ended
  <1>3. /\ call' \in SleepCalls /\ call'.at = "idle" /\ call'.from = call.from
        /\ call'.begun = call.begun /\ call'.asked = call.asked
    BY <1>1, <1>2 DEF SleepsWell, SleepCalls, Results
  <1>4. call.begun \in Nat /\ call.asked \in Nat /\ call.awake \in Nat
    BY <1>1 DEF SleepsWell, SleepCalls, Results
  <1>5. SleepsWell'
    BY <1>1, <1>2, <1>3, <1>4 DEF SleepsWell
  <1> QED BY <1>1, <1>2, <1>5 DEF WaitsInv

\* nanosleep is interrupted: what it says is left is what is left.
LEMMA InterruptKeeps ==
  ASSUME WaitsInv, Interrupt
  PROVE  WaitsInv'
  <1>1. SleepsWell /\ now \in Nat /\ interrupts \in Nat /\ call.at = "asleep"
    BY KindOf DEF Interrupt
  <1>2. now' = now /\ interrupts' = interrupts + 1 /\ interrupts' \in Nat
    BY <1>1 DEF Interrupt
  <1>3. /\ call.begun \in Nat /\ call.asked \in Nat /\ call.awake \in Nat /\ call.until \in Nat
        /\ now <= call.until
        /\ call.until = call.begun + call.asked + call.awake
    BY <1>1 DEF SleepsWell, SleepCalls, Results
  <1>4. CASE call.until = now
    <2>1. call' = [call EXCEPT !.at = "idle", !.result = "-1"]
      BY <1>4 DEF Interrupt, Ended
    <2>2. /\ call' \in SleepCalls /\ call'.at = "idle" /\ call'.from = call.from
          /\ call'.begun = call.begun /\ call'.asked = call.asked
      BY <1>1, <2>1 DEF SleepsWell, SleepCalls, Results
    <2> QED BY <1>1, <1>2, <1>3, <1>4, <2>2 DEF WaitsInv, SleepsWell
  <1>5. CASE call.until # now
    <2>1. call' = [call EXCEPT !.at = "awake", !.want = call.until - now, !.from = now]
      BY <1>5 DEF Interrupt, Remainder
    <2>2. call.until - now \in Nat
      BY <1>1, <1>3
    <2>3. /\ call' \in SleepCalls /\ call'.at = "awake" /\ call'.from = now
          /\ call'.want = call.until - now /\ call'.awake = call.awake
          /\ call'.begun = call.begun /\ call'.asked = call.asked
      BY <1>1, <2>1, <2>2 DEF SleepsWell, SleepCalls, Results
    <2>4. SleepsWell'
      BY <1>1, <1>2, <1>3, <2>3 DEF SleepsWell
    <2> QED BY <1>1, <1>2, <2>4 DEF WaitsInv
  <1> QED BY <1>4, <1>5

\* Round the loop, with the time spent awake accounted for.
LEMMA ResumeKeeps ==
  ASSUME WaitsInv, Resume
  PROVE  WaitsInv'
  <1>1. SleepsWell /\ now \in Nat /\ interrupts \in Nat /\ call.at = "awake"
    BY KindOf DEF Resume
  <1>2. now' = now /\ interrupts' = interrupts
    BY DEF Resume
  <1>3. /\ call.begun \in Nat /\ call.asked \in Nat /\ call.awake \in Nat /\ call.from \in Nat
        /\ call.want \in Nat /\ call.from <= now
        /\ call.from + call.want = call.begun + call.asked + call.awake
    BY <1>1 DEF SleepsWell, SleepCalls, Results
  <1>4. call' = [call EXCEPT !.at = "asleep", !.awake = call.awake + (now - call.from),
                             !.from = now, !.until = now + call.want]
    BY DEF Resume
  <1>5. call.awake + (now - call.from) \in Nat /\ now + call.want \in Nat
    BY <1>1, <1>3
  <1>6. /\ call' \in SleepCalls /\ call'.at = "asleep" /\ call'.from = now
        /\ call'.until = now + call.want
        /\ call'.awake = call.awake + (now - call.from)
        /\ call'.begun = call.begun /\ call'.asked = call.asked
    BY <1>1, <1>4, <1>5 DEF SleepsWell, SleepCalls, Results
  <1>7. SleepsWell'
    BY <1>1, <1>2, <1>3, <1>6 DEF SleepsWell
  <1> QED BY <1>1, <1>2, <1>7 DEF WaitsInv

\* Time passes, but not past the end of what the platform is timing.
LEMMA TickKeeps ==
  ASSUME WaitsInv, Tick
  PROVE  WaitsInv'
  <1>1. now \in Nat /\ now' = now + 1 /\ now' \in Nat /\ interrupts' = interrupts
        /\ interrupts \in Nat
    BY DEF WaitsInv, Tick
  <1>2. CASE call.at = "idle"
    BY <1>1, <1>2 DEF WaitsInv, Tick, Idle, Nothing, QuietCalls
  <1>3. CASE call.at # "idle"
    <2>1. call' = call
      BY <1>3 DEF Tick, Idle
    <2>2. CASE ArmedWell
      BY <1>1, <2>1, <2>2 DEF WaitsInv, ArmedWell, ArmedCalls, Measured
    <2>3. CASE BlockedWell
      <3>1. call.at = "blocked" /\ now < call.until
        BY <1>3, <2>3 DEF BlockedWell, BlockedCalls, Tick
      <3>2. call.result # "ETIMEDOUT"
        BY <1>1, <2>3, <3>1 DEF BlockedWell, BlockedCalls
      <3>3. call.from \in Nat /\ call.until \in Nat
        BY <2>3 DEF BlockedWell, BlockedCalls
      <3>4. call.from <= now' /\ now' <= call.until
        BY <1>1, <2>3, <3>1, <3>3 DEF BlockedWell
      <3>5. BlockedWell'
        BY <2>1, <2>3, <3>2, <3>4 DEF BlockedWell, Measured
      <3> QED BY <1>1, <3>5 DEF WaitsInv
    <2>4. CASE SleepsWell
      <3>1. call.at \in {"asleep", "awake"} /\ (call.at = "asleep" => now < call.until)
        BY <1>3, <2>4 DEF SleepsWell, SleepCalls, Tick
      <3>2. call.from \in Nat /\ call.until \in Nat
        BY <2>4 DEF SleepsWell, SleepCalls, Results
      <3>3. call.from <= now' /\ (call.at = "asleep" => now' <= call.until)
        BY <1>1, <2>4, <3>1, <3>2 DEF SleepsWell
      <3>4. SleepsWell'
        BY <2>1, <2>4, <3>1, <3>3 DEF SleepsWell
      <3> QED BY <1>1, <3>4 DEF WaitsInv
    <2> QED BY <1>3, <2>2, <2>3, <2>4 DEF WaitsInv, QuietCalls
  <1> QED BY <1>2, <1>3

\* The inductive invariant of the bounded waits of threads.c and of usleep, for any clock
\* epoch, any ratio of units, any limit of the platform's call and any deadline.
THEOREM WaitsInvariant == WaitsSpec => []WaitsInv
  <1>1. WaitsInit => WaitsInv
    BY WaitsAssumption DEF WaitsInit, WaitsInv, Nothing, QuietCalls
  <1>2. WaitsInv /\ [WaitsNext]_waitsVars => WaitsInv'
    <2> SUFFICES ASSUME WaitsInv, [WaitsNext]_waitsVars PROVE WaitsInv'
      OBVIOUS
    <2>1. CASE WaitRefused
      BY <2>1 DEF WaitsInv, WaitRefused, Nothing, QuietCalls
    <2>2. ASSUME NEW d \in Deadlines, NEW c \in {"realtime", "monotonic"}, ReadClock(d, c)
          PROVE  WaitsInv'
      BY <2>2, ReadClockKeeps
    <2>3. CASE Block
      BY <2>3, BlockKeeps
    <2>4. ASSUME NEW rc \in Answers, Unblock(rc) PROVE WaitsInv'
      BY <2>4, UnblockKeeps
    <2>5. ASSUME NEW n \in Sleeps, Sleep(n) PROVE WaitsInv'
      BY <2>5, SleepKeeps
    <2>6. CASE Slept
      BY <2>6, SleptKeeps
    <2>7. CASE Interrupt
      BY <2>7, InterruptKeeps
    <2>8. CASE Resume
      BY <2>8, ResumeKeeps
    <2>9. CASE Tick
      BY <2>9, TickKeeps
    <2>10. CASE UNCHANGED waitsVars
      BY <2>10 DEF waitsVars, WaitsInv, ArmedWell, BlockedWell, SleepsWell, Measured
    <2> QED BY <2>1, <2>2, <2>3, <2>4, <2>5, <2>6, <2>7, <2>8, <2>9, <2>10 DEF WaitsNext
  <1> QED BY <1>1, <1>2, PTL DEF WaitsSpec

\* pthread_cond_timedwait and pthread_mutex_timedlock keep their deadlines to within a
\* microsecond, in both directions, with the exceptions KeepsDeadline names.
THEOREM DeadlinesKept == WaitsSpec => []KeepsDeadline
  <1>1. WaitsInv => KeepsDeadline
    <2> SUFFICES ASSUME WaitsInv PROVE KeepsDeadline
      OBVIOUS
    <2>0. now \in Nat /\ NsPerUsec \in Nat \ {0}
      BY KindOf
    <2>1. CASE BlockedWell
      <3>1. /\ call.from \in Nat /\ call.until \in Nat /\ call.due \in Nat /\ call.read \in Nat
            /\ call.usec \in Nat
        BY <2>1 DEF BlockedWell, BlockedCalls
      <3>2. PICK k \in Nat : k = call.usec * NsPerUsec
        BY <2>0, <3>1
      <3>3. PICK l \in Nat : l = Larger(call.due - call.read, 0)
        BY <3>1 DEF Larger
      <3>4. k < l + NsPerUsec /\ call.until = call.from + k /\ now <= call.until
        BY <2>1, <3>2, <3>3 DEF BlockedWell, Measured
      <3>5. now - call.from < l + NsPerUsec
        BY <2>0, <3>1, <3>2, <3>3, <3>4
      <3>6. call.result = "ETIMEDOUT" /\ call.clock = "realtime" /\ call.usec < MaxUsec
              => now + NsPerUsec > call.due
        <4> SUFFICES ASSUME call.result = "ETIMEDOUT", call.clock = "realtime",
                            call.usec < MaxUsec
                     PROVE  now + NsPerUsec > call.due
          OBVIOUS
        <4>1. call.read + k + NsPerUsec > call.due /\ now = call.until
              /\ call.read <= call.from
          BY <2>1, <3>2 DEF BlockedWell, Measured
        <4> QED BY <2>0, <3>1, <3>2, <3>4, <4>1
      <3> QED BY <3>3, <3>5, <3>6 DEF KeepsDeadline
    <2>2. CASE ~BlockedWell
      <3>1. call.at # "blocked"
        BY <2>2, KindOf
      <3>2. ~(call.op = "wait" /\ call.result = "ETIMEDOUT")
        BY <2>2 DEF WaitsInv, QuietCalls, ArmedWell, ArmedCalls, SleepsWell, SleepCalls
      <3> QED BY <3>1, <3>2 DEF KeepsDeadline
    <2> QED BY <2>1, <2>2
  <1> QED BY <1>1, WaitsInvariant, PTL

\* usleep of libc_absent.c sleeps the whole of what it was asked for and no more than the
\* interruptions cost, however many there are.
THEOREM SleepsAreWhole == WaitsSpec => []SleepsWhole
  <1>1. WaitsInv => SleepsWhole
    <2> SUFFICES ASSUME WaitsInv, call.op = "sleep" PROVE SleepsWhole
      BY DEF SleepsWhole
    <2>1. SleepsWell
      BY DEF WaitsInv, QuietCalls, ArmedWell, ArmedCalls, BlockedWell, BlockedCalls
    <2> QED BY <2>1 DEF SleepsWell, SleepsWhole
  <1> QED BY <1>1, WaitsInvariant, PTL

----------------------------------------------------------------------------
\* Thread-local storage: every step keeps the invariant.

\* An index that was handed out has a slot: there are no more of them than variables.
LEMMA IndexFits ==
  ASSUME EmutlsInv, NEW t \in Threads, NEW c \in Controls, index[c] # 0
  PROVE  index[c] \in Indices
  <1>1. IsFiniteSet(Controls) /\ IsFiniteSet(Threads)
    BY EmutlsAssumption
  <1>2. Cardinality(Indexed) <= Cardinality(Controls)
    BY <1>1, FS_Subset DEF Indexed
  <1>3. Cardinality(Threads) \in Nat /\ Cardinality(Threads) # 0 /\ Cardinality(Controls) \in Nat
    BY <1>1, FS_CardinalityType, FS_EmptySet
  <1>4. \A m \in Nat, n \in Nat \ {0} : m <= m * n /\ m * n \in Nat
    OBVIOUS
  <1>5. /\ Cardinality(Controls) <= Cardinality(Controls) * Cardinality(Threads)
        /\ Cardinality(Controls) * Cardinality(Threads) \in Nat
    BY <1>3, <1>4
  <1>6. index[c] \in Nat /\ index[c] <= nextIndex /\ nextIndex = Cardinality(Indexed)
        /\ nextIndex \in Nat
    BY DEF EmutlsInv, EmutlsTypeOK, IndicesApart
  <1> QED BY <1>2, <1>3, <1>5, <1>6 DEF Indices

\* The steps of pthread_once, and every other step that moves a thread to a place where
\* it has no index yet, touch nothing the invariant is about.
LEMMA OnceKeeps ==
  ASSUME EmutlsInv, NEW t \in Threads, NEW c \in Controls,
         Call(t, c) \/ Once(t) \/ InitLock(t) \/ OnceRefused(t) \/ Lock(t) \/ Test(t)
           \/ Claim(t) \/ Pass(t) \/ KeyInit(t)
  PROVE  EmutlsInv'
  <1>1. /\ index' = index /\ nextIndex' = nextIndex /\ tls' = tls /\ heap' = heap
        /\ got' = got /\ ix' = ix
    BY DEF Call, Once, InitLock, OnceRefused, Lock, Test, Claim, Pass, KeyInit
  <1>2. IndicesApart' /\ SlotsApart' /\ HeapHeld' /\ GotHeld'
    BY <1>1 DEF EmutlsInv, IndicesApart, Indexed, SlotsApart, HeapHeld, Held, GotHeld
  <1>3. PICK to \in Places \ {"array", "object"} : pc' = [pc EXCEPT ![t] = to]
    BY DEF Call, Once, InitLock, OnceRefused, Lock, Test, Claim, Pass, KeyInit, Go, Places
  <1>4. PICK k \in Controls : ctl' = [ctl EXCEPT ![t] = k]
    <2>1. ctl \in [Threads -> Controls]
      BY DEF EmutlsInv, EmutlsTypeOK
    <2>2. ctl' = [ctl EXCEPT ![t] = c] \/ ctl' = [ctl EXCEPT ![t] = ctl[t]]
      BY <2>1 DEF Call, Once, InitLock, OnceRefused, Lock, Test, Claim, Pass, KeyInit
    <2> QED BY <2>1, <2>2
  <1>5. EmutlsTypeOK'
    BY <1>1, <1>3, <1>4 DEF EmutlsInv, EmutlsTypeOK
  <1>6. IndexKnown'
    BY <1>1, <1>3, <1>4 DEF EmutlsInv, EmutlsTypeOK, IndexKnown
  <1> QED BY <1>2, <1>5, <1>6 DEF EmutlsInv

\* The unlocked look: an index that is there is there for good.
LEMMA ReadIndexKeeps ==
  ASSUME EmutlsInv, NEW t \in Threads, ReadIndex(t)
  PROVE  EmutlsInv'
  <1>1. /\ pc' = [pc EXCEPT ![t] = IF index[ctl[t]] = 0 THEN "assign" ELSE "array"]
        /\ ix' = [ix EXCEPT ![t] = index[ctl[t]]]
        /\ index' = index /\ nextIndex' = nextIndex /\ tls' = tls /\ heap' = heap
        /\ got' = got /\ ctl' = ctl
    BY DEF ReadIndex, Go
  <1>2. ctl[t] \in Controls /\ index[ctl[t]] \in Nat
    BY DEF EmutlsInv, EmutlsTypeOK
  <1>3. EmutlsTypeOK'
    BY <1>1, <1>2 DEF EmutlsInv, EmutlsTypeOK, Places
  <1>4. IndexKnown'
    BY <1>1, <1>2 DEF EmutlsInv, EmutlsTypeOK, IndexKnown
  <1>5. IndicesApart' /\ SlotsApart' /\ HeapHeld' /\ GotHeld'
    BY <1>1 DEF EmutlsInv, IndicesApart, Indexed, SlotsApart, HeapHeld, Held, GotHeld
  <1> QED BY <1>3, <1>4, <1>5 DEF EmutlsInv

\* The locked look: a variable that still has no index is given one nobody has, and a
\* thread that lost the race takes the winner's.
LEMMA AssignIndexKeeps ==
  ASSUME EmutlsInv, NEW t \in Threads, AssignIndex(t)
  PROVE  EmutlsInv'
  <1>0. PICK c \in Controls : c = ctl[t]
    BY DEF EmutlsInv, EmutlsTypeOK
  <1>1. /\ pc' = [pc EXCEPT ![t] = "array"]
        /\ tls' = tls /\ heap' = heap /\ got' = got /\ ctl' = ctl
    BY DEF AssignIndex, Go
  <1>2. CASE index[c] # 0
    <2>1. index' = index /\ nextIndex' = nextIndex /\ ix' = [ix EXCEPT ![t] = index[c]]
      BY <1>0, <1>2 DEF AssignIndex, NeedsIndex
    <2>2. EmutlsTypeOK'
      BY <1>0, <1>1, <2>1 DEF EmutlsInv, EmutlsTypeOK, Places
    <2>3. IndexKnown'
      BY <1>0, <1>1, <1>2, <2>1 DEF EmutlsInv, EmutlsTypeOK, IndexKnown
    <2>4. IndicesApart' /\ SlotsApart' /\ HeapHeld' /\ GotHeld'
      BY <1>1, <2>1 DEF EmutlsInv, IndicesApart, Indexed, SlotsApart, HeapHeld, Held, GotHeld
    <2> QED BY <2>2, <2>3, <2>4 DEF EmutlsInv
  <1>3. CASE index[c] = 0
    <2>1. PICK n \in Nat \ {0} :
            /\ n = nextIndex + 1 /\ nextIndex' = n
            /\ index' = [index EXCEPT ![c] = n] /\ ix' = [ix EXCEPT ![t] = n]
      BY <1>0, <1>3 DEF AssignIndex, NeedsIndex, FreshIndex, EmutlsInv, EmutlsTypeOK
    <2>2. EmutlsTypeOK'
      BY <1>0, <1>1, <2>1 DEF EmutlsInv, EmutlsTypeOK, Places
    <2>3. \A d \in Controls : index'[d] = IF d = c THEN n ELSE index[d]
      BY <2>1 DEF EmutlsInv, EmutlsTypeOK
    <2>4. \A d \in Controls : index[d] \in Nat /\ index[d] <= nextIndex /\ nextIndex \in Nat
      BY DEF EmutlsInv, EmutlsTypeOK, IndicesApart
    <2>5. Cardinality(Indexed') = n
      <3>1. Indexed' = Indexed \cup {c} /\ c \notin Indexed
        BY <1>3, <2>1, <2>3 DEF Indexed
      <3>2. IsFiniteSet(Indexed)
        BY EmutlsAssumption, FS_Subset DEF Indexed
      <3>3. Cardinality(Indexed) = nextIndex
        BY DEF EmutlsInv, IndicesApart
      <3> QED BY <2>1, <3>1, <3>2, <3>3, FS_AddElement
    <2>6. \A d \in Controls : index'[d] <= n
      BY <2>1, <2>3, <2>4
    <2>7. \A d, e \in Controls : index'[d] = index'[e] /\ index'[d] # 0 => d = e
      <3>1. \A d \in Controls : d # c => index[d] # n
        BY <2>1, <2>4
      <3> QED BY <2>3, <3>1 DEF EmutlsInv, IndicesApart
    <2>8. IndicesApart'
      BY <2>1, <2>5, <2>6, <2>7 DEF IndicesApart
    <2>9. IndexKnown'
      <3> SUFFICES ASSUME NEW u \in Threads
                   PROVE  /\ pc'[u] \in {"array", "object"} =>
                               ix'[u] = index'[ctl'[u]] /\ ix'[u] # 0
                          /\ pc'[u] = "object" => ix'[u] <= tls'[u].len
        BY DEF IndexKnown
      <3>1. CASE u = t
        BY <1>0, <1>1, <2>1, <2>3, <3>1 DEF EmutlsInv, EmutlsTypeOK
      <3>2. CASE u # t
        <4>1. pc'[u] = pc[u] /\ ix'[u] = ix[u] /\ ctl'[u] = ctl[u] /\ ctl[u] \in Controls
          BY <1>1, <2>1, <3>2 DEF EmutlsInv, EmutlsTypeOK
        <4>2. pc[u] \in {"array", "object"} => ctl[u] # c
          BY <1>3, <4>1 DEF EmutlsInv, IndexKnown
        <4> QED BY <1>1, <2>3, <4>1, <4>2 DEF EmutlsInv, IndexKnown
      <3> QED BY <3>1, <3>2
    <2>10. SlotsApart' /\ HeapHeld'
      BY <1>1 DEF EmutlsInv, SlotsApart, HeapHeld, Held
    <2>11. GotHeld'
      <3>1. \A u \in Threads, d \in Controls : got[u][d] # 0 => d # c
        BY <1>3 DEF EmutlsInv, GotHeld
      <3> QED BY <1>1, <2>3, <3>1 DEF EmutlsInv, GotHeld
    <2> QED BY <2>2, <2>8, <2>9, <2>10, <2>11 DEF EmutlsInv
  <1> QED BY <1>2, <1>3

\* emutls_array_for: growth keeps every slot, since those past the old count are empty,
\* and a refusal changes no slot.
LEMMA ArrayForKeeps ==
  ASSUME EmutlsInv, NEW t \in Threads, ArrayFor(t)
  PROVE  EmutlsInv'
  <1>1. PICK to \in {"object", "idle"} : pc' = [pc EXCEPT ![t] = to]
    BY DEF ArrayFor, ReturnNull
  <1>2. /\ index' = index /\ nextIndex' = nextIndex /\ heap' = heap /\ got' = got
        /\ ctl' = ctl /\ ix' = ix /\ pc[t] = "array"
    BY DEF ArrayFor, ReturnNull
  <1>3. tls[t] \in [live : BOOLEAN, len : Nat, slot : [Indices -> Objects \cup {0}]]
        /\ ix[t] \in Nat
    BY DEF EmutlsInv, EmutlsTypeOK
  <1>4. /\ tls' \in [Threads -> [live : BOOLEAN, len : Nat, slot : [Indices -> Objects \cup {0}]]]
        /\ \A u \in Threads, i \in Indices : tls'[u].slot[i] = tls[u].slot[i]
        /\ \A u \in Threads : tls'[u].len >= tls[u].len
        /\ to = "object" => ix[t] <= tls'[t].len
    <2>1. CASE tls' = tls /\ (to = "object" => ix[t] <= tls[t].len)
      BY <1>3, <2>1 DEF EmutlsInv, EmutlsTypeOK
    <2>2. CASE tls' = [tls EXCEPT ![t] = Grown(tls[t], ix[t])] /\ tls[t].len < ix[t]
      <3>1. Grown(tls[t], ix[t]) \in
              [live : BOOLEAN, len : Nat, slot : [Indices -> Objects \cup {0}]]
        BY <1>3 DEF Grown
      <3>2. \A i \in Indices : Grown(tls[t], ix[t]).slot[i] = tls[t].slot[i]
        BY <1>3 DEF Grown, EmutlsInv, SlotsApart
      <3>3. Grown(tls[t], ix[t]).len = ix[t]
        BY DEF Grown
      <3> QED BY <1>3, <2>2, <3>1, <3>2, <3>3 DEF EmutlsInv, EmutlsTypeOK
    <2>3. CASE tls' = [tls EXCEPT ![t].live = (tls[t].len = 0)] /\ to = "idle"
      <3>1. PICK b \in BOOLEAN : b = (tls[t].len = 0)
        OBVIOUS
      <3>2. PICK a \in [live : BOOLEAN, len : Nat, slot : [Indices -> Objects \cup {0}]] :
              a = [tls[t] EXCEPT !.live = b] /\ a.slot = tls[t].slot /\ a.len = tls[t].len
        <4>1. [tls[t] EXCEPT !.live = b]
                = [live |-> b, len |-> tls[t].len, slot |-> tls[t].slot]
          BY <1>3
        <4>2. [live |-> b, len |-> tls[t].len, slot |-> tls[t].slot]
                \in [live : BOOLEAN, len : Nat, slot : [Indices -> Objects \cup {0}]]
          BY <1>3, <3>1
        <4> QED BY <4>1, <4>2
      <3>3. tls' = [tls EXCEPT ![t] = a]
        BY <2>3, <3>1, <3>2
      <3>4. \A u \in Threads : tls'[u] = IF u = t THEN a ELSE tls[u]
        BY <3>3 DEF EmutlsInv, EmutlsTypeOK
      <3>5. tls' \in [Threads -> [live : BOOLEAN, len : Nat, slot : [Indices -> Objects \cup {0}]]]
        BY <3>2, <3>3 DEF EmutlsInv, EmutlsTypeOK
      <3>6. \A u \in Threads : tls'[u].slot = tls[u].slot /\ tls'[u].len = tls[u].len
        BY <3>2, <3>4
      <3>7. \A u \in Threads : tls[u].len \in Nat
        BY DEF EmutlsInv, EmutlsTypeOK
      <3> QED BY <2>3, <3>5, <3>6, <3>7
    <2>4. pc'[t] = to
      BY <1>1 DEF EmutlsInv, EmutlsTypeOK
    <2>5. ReturnNull(t) => to = "idle"
      BY <2>4 DEF ReturnNull, EmutlsInv, EmutlsTypeOK
    <2> QED BY <2>1, <2>2, <2>3, <2>5 DEF ArrayFor
  <1>5. EmutlsTypeOK'
    BY <1>1, <1>2, <1>4 DEF EmutlsInv, EmutlsTypeOK, Places
  <1>6. IndexKnown'
    <2> SUFFICES ASSUME NEW u \in Threads
                 PROVE  /\ pc'[u] \in {"array", "object"} =>
                             ix'[u] = index'[ctl'[u]] /\ ix'[u] # 0
                        /\ pc'[u] = "object" => ix'[u] <= tls'[u].len
      BY DEF IndexKnown
    <2>1. CASE u = t
      BY <1>1, <1>2, <1>4, <2>1 DEF EmutlsInv, EmutlsTypeOK, IndexKnown
    <2>2. CASE u # t
      <3>1. pc'[u] = pc[u] /\ ix'[u] = ix[u] /\ ix[u] \in Nat /\ tls[u].len \in Nat
            /\ tls'[u].len \in Nat /\ tls'[u].len >= tls[u].len
        BY <1>1, <1>2, <1>4, <2>2 DEF EmutlsInv, EmutlsTypeOK
      <3>2. /\ pc[u] \in {"array", "object"} => ix[u] = index[ctl[u]] /\ ix[u] # 0
            /\ pc[u] = "object" => ix[u] <= tls[u].len
        BY DEF EmutlsInv, IndexKnown
      <3> QED BY <1>2, <3>1, <3>2
    <2> QED BY <2>1, <2>2
  <1>7. IndicesApart'
    BY <1>2 DEF EmutlsInv, IndicesApart, Indexed
  <1>8. SlotsApart'
    <2>1. \A u \in Threads, i \in Indices : tls'[u].slot[i] # 0 => i <= tls'[u].len
      <3> SUFFICES ASSUME NEW u \in Threads, NEW i \in Indices, tls'[u].slot[i] # 0
                   PROVE  i <= tls'[u].len
        OBVIOUS
      <3>1. i <= tls[u].len /\ tls[u].len \in Nat /\ tls'[u].len \in Nat
            /\ tls'[u].len >= tls[u].len /\ i \in Nat
        BY <1>4 DEF EmutlsInv, EmutlsTypeOK, SlotsApart, Indices
      <3> QED BY <3>1
    <2> QED BY <1>4, <2>1 DEF EmutlsInv, SlotsApart
  <1>9. HeapHeld'
    BY <1>2, <1>4 DEF EmutlsInv, HeapHeld, Held
  <1>10. GotHeld'
    <2> SUFFICES ASSUME NEW u \in Threads, NEW c \in Controls, got[u][c] # 0
                 PROVE  index[c] # 0 /\ tls'[u].slot[index[c]] = got[u][c]
      BY <1>2 DEF GotHeld
    <2>1. index[c] # 0 /\ tls[u].slot[index[c]] = got[u][c]
      BY DEF EmutlsInv, GotHeld
    <2>2. index[c] \in Indices
      BY <2>1, IndexFits
    <2> QED BY <1>4, <2>1, <2>2
  <1> QED BY <1>5, <1>6, <1>7, <1>8, <1>9, <1>10 DEF EmutlsInv

\* The calling thread's object: the one it has, or a new one that no array holds.
LEMMA GetObjectKeeps ==
  ASSUME EmutlsInv, NEW t \in Threads, GetObject(t)
  PROVE  EmutlsInv' /\ \A u \in Threads, d \in Controls :
                         got[u][d] # 0 => got'[u][d] = got[u][d]
  <1>0. PICK c \in Controls : c = ctl[t] /\ index[c] # 0 /\ ix[t] = index[c]
    BY DEF GetObject, EmutlsInv, EmutlsTypeOK, IndexKnown
  <1>1. PICK n \in Indices : n = ix[t] /\ n = index[c] /\ n <= tls[t].len
    <2>1. index[c] \in Indices
      BY <1>0, IndexFits
    <2>2. ix[t] <= tls[t].len
      BY DEF GetObject, EmutlsInv, IndexKnown
    <2> QED BY <1>0, <2>1, <2>2
  <1>2. /\ index' = index /\ nextIndex' = nextIndex /\ ctl' = ctl /\ ix' = ix
        /\ pc' = [pc EXCEPT ![t] = "idle"]
    BY DEF GetObject
  <1>3. IndicesApart'
    BY <1>2 DEF EmutlsInv, IndicesApart, Indexed
  <1>4. PICK a \in Objects \cup {0} : a = tls[t].slot[n]
    BY DEF EmutlsInv, EmutlsTypeOK
  <1>5. CASE tls' = tls /\ heap' = heap /\ got' = got
    <2>1. EmutlsTypeOK'
      BY <1>2, <1>5 DEF EmutlsInv, EmutlsTypeOK, Places
    <2>2. IndexKnown'
      BY <1>2, <1>5 DEF EmutlsInv, EmutlsTypeOK, IndexKnown
    <2>3. SlotsApart' /\ HeapHeld' /\ GotHeld'
      BY <1>2, <1>5 DEF EmutlsInv, SlotsApart, HeapHeld, Held, GotHeld
    <2> QED BY <1>3, <1>5, <2>1, <2>2, <2>3 DEF EmutlsInv
  <1>6. CASE a # 0 /\ tls' = tls /\ heap' = heap /\ got' = [got EXCEPT ![t][c] = a]
    <2>1. EmutlsTypeOK'
      BY <1>2, <1>6 DEF EmutlsInv, EmutlsTypeOK, Places
    <2>2. IndexKnown'
      BY <1>2, <1>6 DEF EmutlsInv, EmutlsTypeOK, IndexKnown
    <2>3. SlotsApart' /\ HeapHeld'
      BY <1>6 DEF EmutlsInv, SlotsApart, HeapHeld, Held
    <2>4. \A u \in Threads, d \in Controls :
            got'[u][d] = IF u = t /\ d = c THEN a ELSE got[u][d]
      BY <1>6 DEF EmutlsInv, EmutlsTypeOK
    <2>5. GotHeld'
      BY <1>0, <1>1, <1>2, <1>4, <1>6, <2>4 DEF EmutlsInv, GotHeld
    <2>6. \A u \in Threads, d \in Controls : got[u][d] # 0 => got'[u][d] = got[u][d]
      BY <1>1, <1>4, <2>4 DEF EmutlsInv, GotHeld
    <2> QED BY <1>3, <2>1, <2>2, <2>3, <2>5, <2>6 DEF EmutlsInv
  <1>7. ASSUME a = 0, NEW o \in Objects \ heap,
               tls' = [tls EXCEPT ![t].slot[n] = o],
               heap' = heap \cup {o},
               got' = [got EXCEPT ![t][c] = o]
        PROVE  EmutlsInv' /\ \A u \in Threads, d \in Controls :
                               got[u][d] # 0 => got'[u][d] = got[u][d]
    <2>1. \A u \in Threads, i \in Indices :
            tls'[u].slot[i] = IF u = t /\ i = n THEN o ELSE tls[u].slot[i]
      BY <1>7 DEF EmutlsInv, EmutlsTypeOK
    <2>2. \A u \in Threads : tls'[u].len = tls[u].len
      BY <1>7 DEF EmutlsInv, EmutlsTypeOK
    <2>3. \A u \in Threads, d \in Controls :
            got'[u][d] = IF u = t /\ d = c THEN o ELSE got[u][d]
      BY <1>7 DEF EmutlsInv, EmutlsTypeOK
    <2>4. EmutlsTypeOK'
      BY <1>2, <1>7 DEF EmutlsInv, EmutlsTypeOK, Places
    <2>5. IndexKnown'
      BY <1>2, <2>2 DEF EmutlsInv, EmutlsTypeOK, IndexKnown
    <2>6. \A u \in Threads, i \in Indices : tls[u].slot[i] # o /\ o # 0
      BY <1>7 DEF EmutlsInv, HeapHeld, Held, Objects
    <2>7. SlotsApart'
      <3>1. SlotsApart
        BY DEF EmutlsInv
      <3>2. \A u \in Threads, i \in Indices : tls'[u].slot[i] # 0 => i <= tls'[u].len
        BY <1>1, <2>1, <2>2, <3>1 DEF SlotsApart
      <3>3. \A u, w \in Threads, i, j \in Indices :
              tls'[u].slot[i] # 0 /\ tls'[u].slot[i] = tls'[w].slot[j] => u = w /\ i = j
        BY <2>1, <2>6, <3>1 DEF SlotsApart
      <3> QED BY <3>2, <3>3 DEF SlotsApart
    <2>8. HeapHeld'
      <3>1. \A p \in Objects : p \in heap <=> \E u \in Threads, i \in Indices : p = tls[u].slot[i]
        BY DEF EmutlsInv, HeapHeld, Held
      <3>2. \A p \in Objects :
              (\E u \in Threads, i \in Indices : p = tls'[u].slot[i])
                <=> p = o \/ \E u \in Threads, i \in Indices : p = tls[u].slot[i]
        <4> TAKE p \in Objects
        <4>1. p # 0
          BY DEF Objects
        <4>2. tls'[t].slot[n] = o /\ tls[t].slot[n] = 0
          BY <1>4, <1>7, <2>1
        <4> QED BY <1>1, <2>1, <4>1, <4>2
      <3>3. heap \subseteq Objects
        BY DEF EmutlsInv, EmutlsTypeOK
      <3> QED BY <1>7, <3>1, <3>2, <3>3 DEF HeapHeld, Held
    <2>9. \A u \in Threads, d \in Controls : got[u][d] # 0 => ~(u = t /\ d = c)
      <3>1. got[t][c] = 0
        <4>1. got[t][c] # 0 => tls[t].slot[index[c]] = got[t][c]
          BY DEF EmutlsInv, GotHeld
        <4> QED BY <1>1, <1>4, <1>7, <4>1
      <3> QED BY <3>1
    <2>10. GotHeld'
      <3> SUFFICES ASSUME NEW u \in Threads, NEW d \in Controls, got'[u][d] # 0
                   PROVE  index[d] # 0 /\ tls'[u].slot[index[d]] = got'[u][d]
        BY <1>2 DEF GotHeld
      <3>1. CASE u = t /\ d = c
        BY <1>0, <1>1, <2>1, <2>3, <3>1
      <3>2. CASE ~(u = t /\ d = c)
        <4>1. /\ got'[u][d] = got[u][d] /\ index[d] # 0
              /\ tls[u].slot[index[d]] = got[u][d]
          BY <2>3, <3>2 DEF EmutlsInv, GotHeld
        <4>2. index[d] \in Indices
          BY <4>1, IndexFits
        <4>3. ~(u = t /\ index[d] = n)
          BY <1>0, <1>1, <3>2, <4>1 DEF EmutlsInv, IndicesApart
        <4> QED BY <2>1, <4>1, <4>2, <4>3
      <3> QED BY <3>1, <3>2
    <2> QED BY <1>3, <2>3, <2>4, <2>5, <2>7, <2>8, <2>9, <2>10 DEF EmutlsInv
  <1> QED BY <1>0, <1>1, <1>4, <1>5, <1>6, <1>7 DEF GetObject

\* emutls_thread_cleanup frees what the thread's slots hold and nothing else does.
LEMMA ThreadExitKeeps ==
  ASSUME EmutlsInv, NEW t \in Threads, ThreadExit(t)
  PROVE  EmutlsInv' /\ pc'[t] = "gone"
                    /\ \A u \in Threads \ {t} : got'[u] = got[u]
  <1>1. /\ index' = index /\ nextIndex' = nextIndex /\ ctl' = ctl /\ ix' = ix
        /\ pc' = [pc EXCEPT ![t] = "gone"]
        /\ heap' = heap \ Cleaned(tls[t])
        /\ tls' = [tls EXCEPT ![t] = NoArray]
        /\ got' = [got EXCEPT ![t] = [c \in Controls |-> 0]]
    BY DEF ThreadExit, Go
  <1>2. NoArray \in [live : BOOLEAN, len : Nat, slot : [Indices -> Objects \cup {0}]]
    BY DEF NoArray
  <1>3. EmutlsTypeOK'
    BY <1>1, <1>2 DEF EmutlsInv, EmutlsTypeOK, Places
  <1>4. IndicesApart'
    BY <1>1 DEF EmutlsInv, IndicesApart, Indexed
  <1>5. IndexKnown'
    BY <1>1 DEF EmutlsInv, EmutlsTypeOK, IndexKnown
  <1>6. \A u \in Threads : tls'[u] = IF u = t THEN NoArray ELSE tls[u]
    BY <1>1 DEF EmutlsInv, EmutlsTypeOK
  <1>7. \A i \in Indices : tls'[t].slot[i] = 0
    BY <1>6 DEF NoArray
  <1>8. SlotsApart'
    <2>1. SlotsApart
      BY DEF EmutlsInv
    <2>2. \A u \in Threads, i \in Indices : tls'[u].slot[i] # 0 => u # t /\ tls'[u] = tls[u]
      BY <1>6, <1>7
    <2>3. \A u \in Threads, i \in Indices : tls'[u].slot[i] # 0 => i <= tls'[u].len
      BY <2>1, <2>2 DEF SlotsApart
    <2>4. \A u, w \in Threads, i, j \in Indices :
            tls'[u].slot[i] # 0 /\ tls'[u].slot[i] = tls'[w].slot[j] => u = w /\ i = j
      BY <2>1, <2>2 DEF SlotsApart
    <2> QED BY <2>3, <2>4 DEF SlotsApart
  <1>9. HeapHeld'
    <2>1. \A p \in Objects : p \in heap <=> \E u \in Threads, i \in Indices : p = tls[u].slot[i]
      BY DEF EmutlsInv, HeapHeld, Held
    <2>2. \A p \in Objects : p # 0
      BY DEF Objects
    <2>3. \A p \in Objects : p \in Cleaned(tls[t]) <=> \E i \in Indices : p = tls[t].slot[i]
      BY <2>2 DEF Cleaned, EmutlsInv, SlotsApart
    <2>4. \A p \in Objects :
            (\E u \in Threads, i \in Indices : p = tls'[u].slot[i])
              <=> p \in heap /\ p \notin Cleaned(tls[t])
      <3> TAKE p \in Objects
      <3>1. ASSUME NEW u \in Threads, NEW i \in Indices, p = tls'[u].slot[i]
            PROVE  p \in heap /\ p \notin Cleaned(tls[t])
        <4>1. u # t /\ p = tls[u].slot[i]
          BY <1>6, <1>7, <2>2, <3>1
        <4>2. \A j \in Indices : p # tls[t].slot[j]
          BY <2>2, <4>1 DEF EmutlsInv, SlotsApart
        <4> QED BY <2>1, <2>3, <4>1, <4>2
      <3>2. ASSUME p \in heap, p \notin Cleaned(tls[t])
            PROVE  \E u \in Threads, i \in Indices : p = tls'[u].slot[i]
        <4>1. PICK u \in Threads, i \in Indices : p = tls[u].slot[i]
          BY <2>1, <3>2
        <4>2. u # t
          BY <2>3, <3>2, <4>1
        <4> QED BY <1>6, <4>1, <4>2
      <3> QED BY <3>1, <3>2
    <2>5. heap \subseteq Objects
      BY DEF EmutlsInv, EmutlsTypeOK
    <2> QED BY <1>1, <2>4, <2>5 DEF HeapHeld, Held
  <1>10. \A u \in Threads : got'[u] = IF u = t THEN [c \in Controls |-> 0] ELSE got[u]
    BY <1>1 DEF EmutlsInv, EmutlsTypeOK
  <1>11. GotHeld'
    <2> SUFFICES ASSUME NEW u \in Threads, NEW c \in Controls, got'[u][c] # 0
                 PROVE  index[c] # 0 /\ tls'[u].slot[index[c]] = got'[u][c]
      BY <1>1 DEF GotHeld
    <2>1. u # t
      BY <1>10
    <2> QED BY <1>6, <1>10, <2>1 DEF EmutlsInv, GotHeld
  <1>12. pc'[t] = "gone"
    BY <1>1 DEF EmutlsInv, EmutlsTypeOK
  <1> QED BY <1>3, <1>4, <1>5, <1>8, <1>9, <1>10, <1>11, <1>12 DEF EmutlsInv

\* What a step of any thread does: it keeps the invariant, and it changes no address a
\* thread was given, unless that thread exits.
LEMMA EmutlsStepKeeps ==
  ASSUME EmutlsInv, [Next]_vars
  PROVE  EmutlsInv' /\ \A u \in Threads, d \in Controls :
                         got[u][d] # 0 /\ pc'[u] # "gone" => got'[u][d] = got[u][d]
  <1>1. ASSUME NEW t \in Threads, NEW c \in Controls, Call(t, c)
        PROVE  EmutlsInv' /\ got' = got
    BY <1>1, OnceKeeps DEF Call
  <1>2. ASSUME NEW t \in Threads,
               Once(t) \/ InitLock(t) \/ OnceRefused(t) \/ Lock(t) \/ Test(t) \/ Claim(t)
                 \/ Pass(t) \/ KeyInit(t)
        PROVE  EmutlsInv' /\ got' = got
    <2>1. ctl[t] \in Controls
      BY DEF EmutlsInv, EmutlsTypeOK
    <2>2. got' = got
      BY <1>2 DEF Once, InitLock, OnceRefused, Lock, Test, Claim, Pass, KeyInit
    <2> QED BY <1>2, <2>1, <2>2, OnceKeeps
  <1>3. ASSUME NEW t \in Threads, ReadIndex(t) PROVE EmutlsInv' /\ got' = got
    BY <1>3, ReadIndexKeeps DEF ReadIndex
  <1>4. ASSUME NEW t \in Threads, AssignIndex(t) PROVE EmutlsInv' /\ got' = got
    BY <1>4, AssignIndexKeeps DEF AssignIndex
  <1>5. ASSUME NEW t \in Threads, ArrayFor(t) PROVE EmutlsInv' /\ got' = got
    BY <1>5, ArrayForKeeps DEF ArrayFor, ReturnNull
  <1>6. ASSUME NEW t \in Threads, GetObject(t)
        PROVE  EmutlsInv' /\ \A u \in Threads, d \in Controls :
                               got[u][d] # 0 => got'[u][d] = got[u][d]
    BY <1>6, GetObjectKeeps
  <1>7. ASSUME NEW t \in Threads, ThreadExit(t)
        PROVE  EmutlsInv' /\ \A u \in Threads, d \in Controls :
                               got[u][d] # 0 /\ pc'[u] # "gone" => got'[u][d] = got[u][d]
    BY <1>7, ThreadExitKeeps
  <1>8. CASE UNCHANGED vars
    <2>1. /\ index' = index /\ nextIndex' = nextIndex /\ tls' = tls /\ heap' = heap
          /\ got' = got /\ ix' = ix /\ pc' = pc /\ ctl' = ctl
      BY <1>8 DEF vars
    <2>2. EmutlsTypeOK' /\ IndicesApart' /\ IndexKnown'
      BY <2>1 DEF EmutlsInv, EmutlsTypeOK, IndicesApart, Indexed, IndexKnown
    <2>3. SlotsApart' /\ HeapHeld' /\ GotHeld'
      BY <2>1 DEF EmutlsInv, SlotsApart, HeapHeld, Held, GotHeld
    <2> QED BY <2>1, <2>2, <2>3 DEF EmutlsInv
  <1> QED BY <1>1, <1>2, <1>3, <1>4, <1>5, <1>6, <1>7, <1>8 DEF Next

\* The inductive invariant of thread-local storage, for any number of threads and
\* variables, any allocator and any refusals.
THEOREM EmutlsInvariant == Spec => []EmutlsInv
  <1>1. Init => EmutlsInv
    <2> SUFFICES ASSUME Init PROVE EmutlsInv
      OBVIOUS
    <2>1. \A t \in Threads, i \in Indices : tls[t].slot[i] = 0
      BY DEF Init, NoArray
    <2>2. EmutlsTypeOK
      BY DEF Init, NoArray, EmutlsTypeOK, Places
    <2>3. IndicesApart
      <3>1. Indexed = {}
        BY DEF Init, Indexed
      <3> QED BY <3>1, FS_EmptySet DEF Init, IndicesApart
    <2>4. IndexKnown /\ GotHeld
      BY DEF Init, IndexKnown, GotHeld
    <2>5. SlotsApart
      BY <2>1 DEF SlotsApart
    <2>6. HeapHeld
      BY <2>1 DEF Init, HeapHeld, Held, Objects
    <2> QED BY <2>2, <2>3, <2>4, <2>5, <2>6 DEF EmutlsInv
  <1>2. EmutlsInv /\ [Next]_vars => EmutlsInv'
    BY EmutlsStepKeeps
  <1> QED BY <1>1, <1>2, PTL DEF Spec

\* __emutls_get_address gives each thread storage of its own, and no two variables share
\* an index, for any number of threads and variables.
THEOREM StorageIsPrivate == Spec => []StoragePrivate
  <1>1. EmutlsInv => StoragePrivate
    <2> SUFFICES ASSUME EmutlsInv PROVE StoragePrivate
      OBVIOUS
    <2>1. \A t \in Threads, c \in Controls :
            got[t][c] # 0 => /\ index[c] # 0 /\ index[c] \in Indices
                             /\ tls[t].slot[index[c]] = got[t][c]
      BY IndexFits DEF EmutlsInv, GotHeld
    <2>2. ASSUME NEW t \in Threads, NEW c \in Controls, got[t][c] # 0
          PROVE  got[t][c] \in heap
      <3>1. got[t][c] \in Objects
        BY <2>2 DEF EmutlsInv, EmutlsTypeOK
      <3> QED BY <2>1, <2>2, <3>1 DEF EmutlsInv, HeapHeld, Held
    <2>3. ASSUME NEW t \in Threads, NEW u \in Threads, NEW c \in Controls, NEW d \in Controls,
                 got[t][c] # 0, got[t][c] = got[u][d]
          PROVE  t = u /\ c = d
      <3>1. tls[t].slot[index[c]] = tls[u].slot[index[d]] /\ tls[t].slot[index[c]] # 0
        BY <2>1, <2>3
      <3>2. t = u /\ index[c] = index[d]
        BY <2>1, <2>3, <3>1 DEF EmutlsInv, SlotsApart
      <3> QED BY <2>1, <2>3, <3>2 DEF EmutlsInv, IndicesApart
    <2>4. heap = {o \in Objects : \E t \in Threads, i \in Indices : o = tls[t].slot[i]}
      BY DEF EmutlsInv, HeapHeld, Held
    <2> QED BY <2>2, <2>3, <2>4 DEF StoragePrivate, EmutlsInv, IndicesApart
  <1> QED BY <1>1, EmutlsInvariant, PTL

\* A thread-local keeps its address for as long as its thread runs, however its array
\* grows, for any number of threads and variables.
THEOREM AddressesStable == Spec => AddressStable
  <1>1. EmutlsInv /\ [Next]_vars =>
          [Defined => \A t \in Threads, c \in Controls :
             got[t][c] # 0 /\ pc'[t] # "gone" => got'[t][c] = got[t][c]]_vars
    BY EmutlsStepKeeps
  <1> QED BY <1>1, EmutlsInvariant, PTL DEF Spec, AddressStable

----------------------------------------------------------------------------
\* Static guards, for any set of threads.  GuardInv is inductive as it stands.
\* UseIsBuilt and BuiltOnce are not: a thread about to run the initialiser is safe only
\* because it holds the pending byte and saw the done byte clear while holding it, which
\* is what OneHolder and ObjectInStep add.

\* The state the guard is zero-initialised to satisfies the invariant.
LEMMA GuardStarts == GuardInit => GuardInv
  BY DEF GuardInit, GuardInv, GuardTypeOK, OneHolder, ObjectInStep, BuiltOnce, Holds, Accesses

\* No atomic access of acquire or release, and no step of an initialiser, breaks it.
LEMMA GuardKept == GuardInv /\ [GuardNext]_guardVars => GuardInv'
  <1> SUFFICES ASSUME GuardInv, [GuardNext]_guardVars PROVE GuardInv'
    OBVIOUS
  <1> USE DEF GuardInv, GuardTypeOK, OneHolder, ObjectInStep, BuiltOnce, Holds, Accesses, Goes
  <1>1. CASE UNCHANGED guardVars
    BY <1>1 DEF guardVars
  <1>2. ASSUME NEW t \in Callers, Look(t) PROVE GuardInv'
    BY <1>2 DEF Look
  <1>3. ASSUME NEW t \in Callers, Exchange(t) PROVE GuardInv'
    BY <1>3 DEF Exchange
  <1>4. ASSUME NEW t \in Callers, Spin(t) PROVE GuardInv'
    BY <1>4 DEF Spin
  <1>5. ASSUME NEW t \in Callers, Check(t) PROVE GuardInv'
    BY <1>5 DEF Check
  <1>6. ASSUME NEW t \in Callers, Undo(t) PROVE GuardInv'
    BY <1>6 DEF Undo
  <1>7. ASSUME NEW t \in Callers, Begin(t) PROVE GuardInv'
    BY <1>7 DEF Begin
  <1>8. ASSUME NEW t \in Callers, Finish(t) PROVE GuardInv'
    BY <1>8 DEF Finish
  <1>9. ASSUME NEW t \in Callers, Release(t) PROVE GuardInv'
    BY <1>9 DEF Release
  <1>10. ASSUME NEW t \in Callers, Clear(t) PROVE GuardInv'
    BY <1>10 DEF Clear
  <1>11. ASSUME NEW t \in Callers, Again(t) PROVE GuardInv'
    BY <1>11 DEF Again
  <1>12. QED
    BY <1>1, <1>2, <1>3, <1>4, <1>5, <1>6, <1>7, <1>8, <1>9, <1>10, <1>11 DEF GuardNext, GuardStep

\* For every set of threads the pending byte is a lock and the done byte is set only
\* over a finished object.
THEOREM GuardInvariant == GuardSpec => []GuardInv
  BY GuardStarts, GuardKept, PTL DEF GuardSpec

\* For every set of threads, a thread that acquire lets through finds the static
\* fully initialised.
THEOREM UseAfterInit == GuardSpec => []UseIsBuilt
  <1>1. GuardInv => UseIsBuilt
    BY DEF GuardInv, ObjectInStep, UseIsBuilt
  <1>2. QED
    BY <1>1, GuardInvariant, PTL

\* For every set of threads the initialiser runs at most once.
THEOREM InitialisedOnce == GuardSpec => []BuiltOnce
  <1>1. GuardInv => BuiltOnce
    BY DEF GuardInv, ObjectInStep
  <1>2. QED
    BY <1>1, GuardInvariant, PTL

============================================================================
