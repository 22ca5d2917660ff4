------------------------------- MODULE Waits --------------------------------
(***************************************************************************)
(* Bounded waits: pthread_cond_timedwait, pthread_mutex_timedlock and      *)
(* to_errno of src/runtime/threads.c, usleep of src/runtime/libc_absent.c. *)
(*                                                                         *)
(* A caller gives an absolute deadline; the platform's call takes a number *)
(* of microseconds from now.  The wrapper reads the clock, converts, and   *)
(* then blocks, and time passes in between.  A sleep that is interrupted   *)
(* goes back for what is left of it.  Time is a number of nanoseconds.     *)
(***************************************************************************)
EXTENDS Integers

CONSTANTS
  NsPerUsec,    \* 1000 in the code
  UsecPerSec,   \* 1000000 in the code
  MaxUsec,      \* UINT32_MAX in the code
  Epoch,        \* what CLOCK_REALTIME reads when CLOCK_MONOTONIC reads 0
  Deadlines,    \* deadlines callers give, in nanoseconds on the clock they use
  Sleeps,       \* lengths callers give usleep, in microseconds
  Horizon,      \* bound: the last instant
  MaxInterrupts \* bound: interruptions of one sleep

ASSUME WaitsAssumption ==
  /\ NsPerUsec \in Nat \ {0} /\ UsecPerSec \in Nat \ {0} /\ MaxUsec \in Nat
  /\ Epoch \in Nat /\ Horizon \in Nat /\ MaxInterrupts \in Nat
  /\ Deadlines \subseteq Nat /\ Sleeps \subseteq Nat

NsPerSec == NsPerUsec * UsecPerSec

VARIABLES
  now,        \* CLOCK_REALTIME
  call,       \* the call in progress, or how the last one ended
  interrupts  \* interruptions of the sleep in progress

waitsVars == <<now, call, interrupts>>

Larger(a, b) == IF a > b THEN a ELSE b

----------------------------------------------------------------------------
\* Conversions.

\* C's division, which rounds towards zero.
Quotient(a, b) == IF a >= 0 THEN a \div b ELSE -((-a) \div b)

\* Microseconds from a clock reading to a deadline, both split into seconds and
\* nanoseconds as struct timespec is.
UsecUntil(deadline, reading) ==
  (deadline \div NsPerSec - reading \div NsPerSec) * UsecPerSec
    + Quotient((deadline % NsPerSec) - (reading % NsPerSec), NsPerUsec)

\* Mutant: a deadline in the past is passed on as an unsigned number.
TimeoutWrapped(usec) == IF usec < 0 THEN MaxUsec + 1 + usec ELSE usec

Timeout(usec) == IF usec < 0 THEN 0 ELSE IF usec > MaxUsec THEN MaxUsec ELSE usec

\* A platform call answers 0, an errno under its own facility, or something else
\* whose low half may be any number.
Answers == [facility : {"none"}, low : {"0"}]
             \cup [facility : {"kernel"}, low : {"ETIMEDOUT", "EPERM"}]
             \cup [facility : {"other"}, low : {"ETIMEDOUT"}]

ToErrno(rc) ==
  CASE rc.facility = "none"   -> "0"
    [] rc.facility = "kernel" -> rc.low
    [] OTHER                  -> "EINVAL"

----------------------------------------------------------------------------
\* pthread_cond_timedwait and pthread_mutex_timedlock, which convert alike.

Idle == call.at = "idle"

Nothing == [at |-> "idle", op |-> "none", result |-> "none"]

Ended(result) == [call EXCEPT !.at = "idle", !.result = result]

\* The call is unbound, the deadline is null or the clock cannot be read.
WaitRefused ==
  /\ Idle
  /\ call' \in {[Nothing EXCEPT !.result = e] : e \in {"ENOSYS", "EINVAL"}}
  /\ UNCHANGED <<now, interrupts>>

\* The deadline is on the clock of the condition, which pthread_condattr_setclock may
\* have made the monotonic one.  The clock that is read is always CLOCK_REALTIME.
ReadClock(deadline, clock) ==
  /\ Idle
  /\ call' = [at |-> "armed", op |-> "wait", clock |-> clock,
              due |-> IF clock = "monotonic" THEN Epoch + deadline ELSE deadline,
              read |-> now, usec |-> Timeout(UsecUntil(deadline, now)), result |-> "none"]
  /\ UNCHANGED <<now, interrupts>>

Block ==
  /\ call.at = "armed"
  /\ call' = [at |-> "blocked", op |-> "wait", clock |-> call.clock, due |-> call.due,
              read |-> call.read, usec |-> call.usec, result |-> "none",
              from |-> now, until |-> now + call.usec * NsPerUsec]
  /\ UNCHANGED <<now, interrupts>>

\* The platform's call returns: signalled or unlocked, refused, or timed out.
Unblock(rc) ==
  /\ call.at = "blocked"
  /\ rc = [facility |-> "kernel", low |-> "ETIMEDOUT"] => now = call.until
  /\ call' = Ended(ToErrno(rc))
  /\ UNCHANGED <<now, interrupts>>

----------------------------------------------------------------------------
\* usleep.

\* The timespec usleep asks nanosleep for, in nanoseconds.
Want(usec) == (usec \div UsecPerSec) * NsPerSec + (usec % UsecPerSec) * NsPerUsec

Sleep(usec) ==
  /\ Idle
  /\ call' = [at |-> "asleep", op |-> "sleep", begun |-> now, asked |-> usec * NsPerUsec,
              want |-> Want(usec), awake |-> 0, from |-> now, until |-> now + Want(usec),
              result |-> "none"]
  /\ interrupts' = 0
  /\ UNCHANGED now

Slept ==
  /\ call.at = "asleep"
  /\ now = call.until
  /\ call' = Ended("0")
  /\ UNCHANGED <<now, interrupts>>

\* Mutant: the whole sleep is asked for again.
RemainderWhole == call.want

Remainder == call.until - now

\* nanosleep is interrupted, at worst with nothing left, and says what is left.
Interrupt ==
  /\ call.at = "asleep"
  /\ interrupts < MaxInterrupts
  /\ interrupts' = interrupts + 1
  /\ call' = IF call.until = now THEN Ended("-1")
             ELSE [call EXCEPT !.at = "awake", !.want = Remainder, !.from = now]
  /\ UNCHANGED now

\* Round the loop.
Resume ==
  /\ call.at = "awake"
  /\ call' = [call EXCEPT !.at = "asleep", !.awake = @ + (now - call.from),
                          !.from = now, !.until = now + call.want]
  /\ UNCHANGED <<now, interrupts>>

----------------------------------------------------------------------------
\* Time passes, but not past the end of a wait the platform is timing.  How the last
\* call ended is forgotten once it has been seen.
Tick ==
  /\ now < Horizon
  /\ call.at \in {"blocked", "asleep"} => now < call.until
  /\ now' = now + 1
  /\ call' = IF Idle THEN Nothing ELSE call
  /\ UNCHANGED interrupts

WaitsInit ==
  /\ now = Epoch
  /\ call = Nothing
  /\ interrupts = 0

WaitsNext ==
  \/ WaitRefused
  \/ \E d \in Deadlines, c \in {"realtime", "monotonic"} : ReadClock(d, c)
  \/ Block
  \/ \E rc \in Answers : Unblock(rc)
  \/ \E n \in Sleeps : Sleep(n)
  \/ Slept \/ Interrupt \/ Resume \/ Tick

WaitsSpec == WaitsInit /\ [][WaitsNext]_waitsVars

----------------------------------------------------------------------------
\* Properties.

\* A wait keeps its deadline.  It outlasts it by no more than the microsecond the
\* conversion may round off and the time that passed between the reading of the clock
\* and the call, so a deadline already past is hardly a wait at all.  And one that says
\* ETIMEDOUT has waited: its deadline has passed, but for that microsecond.  Left out of
\* the second: a deadline further off than the platform's call can express, and a
\* condition on the monotonic clock.
KeepsDeadline ==
  /\ call.at = "blocked" =>
       now - call.from < Larger(call.due - call.read, 0) + NsPerUsec
  /\ call.op = "wait" /\ call.result = "ETIMEDOUT"
       /\ call.clock = "realtime" /\ call.usec < MaxUsec =>
         now + NsPerUsec > call.due

\* usleep returns when what it was asked for has passed, interrupted or not, and no
\* later than the time the interruptions themselves took.
SleepsWhole ==
  call.op = "sleep" =>
    /\ call.at = "asleep" => now <= call.begun + call.asked + call.awake
    /\ call.at = "idle"   => now >= call.begun + call.asked

============================================================================
