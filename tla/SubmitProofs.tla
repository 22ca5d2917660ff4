---------------------------- MODULE SubmitProofs ----------------------------
(***************************************************************************)
(* Proofs about Submit for every set of contexts and chunk lists, every    *)
(* bound on chains, polls and calls, with and without refusals and hangs.  *)
(*                                                                         *)
(* All that follows the type theorem is for a GPU that is on time or hung  *)
(* (~LateGpu): a submission that outlasts the timeout and retires          *)
(* afterwards breaks the promise, as run submit_late shows.                *)
(***************************************************************************)
EXTENDS Submit, SequenceTheorems, TLAPS

Jobs == [call : 1 .. MaxCalls, ctx : Ctxs, kind : {"ib", "fence"}]

UnderWay == {"chunks", "fence", "poll", "publish", "commit"}

\* A call under way has been counted.
Counted == pc \in UnderWay => calls > 0

\* The queue holds the work of the calls made so far, in the order of the calls.
Ordered ==
  /\ \A i \in 1 .. Len(gpu) : gpu[i].call <= calls
  /\ \A i, j \in 1 .. Len(gpu) : i <= j => gpu[i].call <= gpu[j].call

\* While the GPU runs, a fence stream is queued only by the call that is polling, and
\* is the last thing queued: one left by an earlier call would fire this call's word.
OneFence ==
  ~hung => \A i \in 1 .. Len(gpu) :
             gpu[i].kind = "fence" => pc = "poll" /\ fence = "armed" /\ i = Len(gpu)

\* The word a call polls was armed by it; until it fires, the call's fence stream is at
\* the end of the queue, and once it has fired the queue is empty.
Polled ==
  /\ pc = "fence" => fence = "armed"
  /\ pc = "poll" => fence \in {"armed", "fired"}
  /\ pc = "poll" /\ fence = "armed" => gpu # <<>> /\ gpu[Len(gpu)] = Job("fence")
  /\ pc = "poll" /\ fence = "fired" => gpu = <<>>
  /\ pc \in {"publish", "commit"} => gpu = <<>>

\* Numbers have gone to calls made so far, each to a later call than the one before,
\* and none yet to the call under way; s_sequence and the user fence are not ahead.
Numbering ==
  /\ \A k \in 1 .. Len(published) : published[k] <= calls
  /\ pc \in {"chunks", "fence", "poll", "publish"} =>
       \A k \in 1 .. Len(published) : published[k] < calls
  /\ Len(published) = IF pc = "commit" THEN sequence + 1 ELSE sequence
  /\ userFence <= Len(published)

\* No numbered submission has work on the GPU.
NumberedRetired == \A k \in 1 .. Len(published) : ~Busy(published[k])

SubmitInv ==
  /\ TypeOK /\ Counted /\ Ordered /\ OneFence /\ Polled /\ Numbering /\ NumberedRetired
  /\ SuccessMeansIdle /\ GuiltMeansStuck

----------------------------------------------------------------------------
\* Types.

\* A stream handed to the driver is at the end of the queue, which is otherwise as it was.
LEMMA Appended ==
  ASSUME NEW s \in Seq(Jobs), NEW j \in Jobs
  PROVE  /\ Append(s, j) \in Seq(Jobs)
         /\ Len(Append(s, j)) = Len(s) + 1
         /\ Append(s, j)[Len(s) + 1] = j
         /\ \A i \in 1 .. Len(s) : Append(s, j)[i] = s[i]
  OBVIOUS

\* When the oldest stream retires the others move up by one.
LEMMA Retired ==
  ASSUME NEW s \in Seq(Jobs), s # <<>>
  PROVE  /\ Tail(s) \in Seq(Jobs)
         /\ Head(s) = s[1] /\ s[1] \in Jobs
         /\ Len(s) \in Nat \ {0}
         /\ Len(Tail(s)) = Len(s) - 1
         /\ \A i \in 1 .. Len(s) - 1 : Tail(s)[i] = s[i + 1]
         /\ Len(s) = 1 => Tail(s) = <<>>
<1>1. Len(s) \in Nat \ {0}
  BY EmptySeq
<1>2. Head(s) = s[1] /\ s[1] \in Jobs
  BY <1>1, ElementOfSeq
<1>3. /\ Tail(s) \in Seq(Jobs)
      /\ Len(Tail(s)) = Len(s) - 1
      /\ \A i \in 1 .. Len(s) - 1 : Tail(s)[i] = s[i + 1]
  BY HeadTailProperties
<1>4. ASSUME Len(s) = 1 PROVE Tail(s) = <<>>
  <2>1. Len(Tail(s)) = 0
    BY <1>3, <1>4
  <2>2. Tail(s) # <<>> => Len(Tail(s)) \in Nat \ {0}
    BY <1>3, EmptySeq
  <2>3. QED
    BY <2>1, <2>2
<1>5. QED
  BY <1>1, <1>2, <1>3, <1>4

\* A call is identified by its number, so the work it hands over is well-formed.
LEMMA JobType ==
  ASSUME TypeOK, Counted, pc \in UnderWay, NEW k \in {"ib", "fence"}
  PROVE  Job(k) \in Jobs
  BY SubmitAssumption DEF TypeOK, Counted, Jobs, Job

\* The call starts, and goes on starting, within its types and bounds.
LEMMA TypeStep ==
  ASSUME TypeOK, Counted, [Next]_vars
  PROVE  TypeOK' /\ Counted'
<1> USE SubmitAssumption DEF TypeOK, Counted, UnderWay, Return, hostVars, outVars, AtChunk
<1>0. gpu \in Seq(Jobs)
  BY DEF Jobs
<1>1. CASE UNCHANGED vars
  BY <1>1 DEF vars
<1>2. ASSUME NEW c \in Ctxs, NEW stream \in Streams, BeginCs(c, stream)
      PROVE  TypeOK' /\ Counted'
  <2>1. queue' \in BOOLEAN /\ mem' \subseteq {"fence", "dcb"}
    BY <1>2 DEF BeginCs, QueueRefused, QueueCreated, QueueUp
  <2>2. calls' \in 1 .. MaxCalls
    BY <1>2 DEF BeginCs
  <2>3. /\ pc' \in {"idle", "chunks"} /\ result' \in Results
        /\ ctx' \in Ctxs /\ slot' \in BOOLEAN
        /\ depth' \in 0 .. MaxIbChain /\ submitted' \in Nat /\ polls' = polls
    <3>1. CASE Return("ENODEV") \/ Return("EINVAL")
      BY <3>1 DEF Results
    <3>2. CASE ~(Return("ENODEV") \/ Return("EINVAL"))
      <4>1. /\ pc' = "chunks" /\ ctx' = c /\ depth' = 0 /\ submitted' = 0
            /\ slot' = FALSE /\ UNCHANGED <<polls, result>>
        BY <1>2, <3>2, Zenon DEF BeginCs
      <4>2. ctx' \in Ctxs /\ slot' \in BOOLEAN
        BY <1>2, <4>1
      <4>3. depth' \in 0 .. MaxIbChain /\ submitted' \in Nat
        BY <4>1
      <4>4. QED
        BY <4>1, <4>2, <4>3
    <3>3. QED
      BY <3>1, <3>2
  <2>4. UNCHANGED <<fence, gpu, hung, sequence, userFence, guilty, published>>
    BY <1>2 DEF BeginCs
  <2>5. QED
    BY <2>1, <2>2, <2>3, <2>4
<1>3. CASE SkipChunk
  BY <1>3 DEF SkipChunk
<1>4. CASE FenceChunk
  BY <1>4 DEF FenceChunk
<1>5. CASE ChainLink
  <2>1. gpu' \in Seq(Jobs)
    <3>1. Job("ib") \in Jobs
      BY <1>5, JobType DEF ChainLink
    <3>2. QED
      BY <1>0, <1>5, <3>1, Appended DEF ChainLink
  <2>2. QED
    BY <1>5, <2>1 DEF ChainLink, LinkAllowed, Jobs
<1>6. CASE ChainRefused
  BY <1>6 DEF ChainRefused, Results
<1>7. CASE NoInstructionBuffer
  BY <1>7 DEF NoInstructionBuffer, Results
<1>8. CASE Arm
  BY <1>8 DEF Arm
<1>9. CASE SubmitFence
  <2>1. gpu' \in Seq(Jobs)
    <3>1. Job("fence") \in Jobs
      BY <1>9, JobType DEF SubmitFence
    <3>2. QED
      BY <1>0, <1>9, <3>1, Appended DEF SubmitFence
  <2>2. QED
    BY <1>9, <2>1 DEF SubmitFence, Results, Jobs
<1>10. CASE Poll
  BY <1>10 DEF Poll
<1>11. CASE PollFired
  BY <1>11 DEF PollFired
<1>12. CASE PollTimesOut
  BY <1>12 DEF PollTimesOut, Results
<1>13. CASE Publish
  BY <1>13 DEF Publish
<1>14. CASE Commit
  BY <1>14 DEF Commit, Results
<1>15. CASE Retire
  <2>1. gpu' \in Seq(Jobs)
    BY <1>0, <1>15, Retired DEF Retire
  <2>2. QED
    BY <1>15, <2>1 DEF Retire, Jobs
<1>16. CASE Hang
  BY <1>16 DEF Hang
<1>17. QED
  BY <1>1, <1>2, <1>3, <1>4, <1>5, <1>6, <1>7, <1>8, <1>9, <1>10, <1>11, <1>12, <1>13,
     <1>14, <1>15, <1>16 DEF Next, HostStep

\* The state before the first submission is well-typed.
LEMMA TypeInit == Init => TypeOK /\ Counted
<1>1. gpu = <<>> /\ published = <<>> =>
        /\ gpu \in Seq([call : 1 .. MaxCalls, ctx : Ctxs, kind : {"ib", "fence"}])
        /\ published \in Seq(1 .. MaxCalls)
  BY EmptySeq
<1>2. Init => depth \in 0 .. MaxIbChain /\ polls \in 0 .. MaxPolls - 1 /\ calls \in 0 .. MaxCalls
  BY SubmitAssumption DEF Init
<1>3. Init => /\ queue \in BOOLEAN /\ hung \in BOOLEAN /\ slot \in BOOLEAN
              /\ result \in Results /\ pc = "idle"
  BY DEF Init, Results
<1>4. Init => /\ mem \subseteq {"fence", "dcb"} /\ fence \in {"fresh", "armed", "fired"}
              /\ ctx \in Ctxs /\ guilty \subseteq Ctxs
              /\ submitted \in Nat /\ sequence \in Nat /\ userFence \in Nat
  BY DEF Init
<1>5. QED
  BY <1>1, <1>2, <1>3, <1>4 DEF Init, TypeOK, Counted, UnderWay

\* Whatever is submitted, refused or hung, and however late the GPU is, the call's state
\* and the counters keep their kinds and bounds, and no chain is followed past
\* OOPS_MAX_IB_CHAIN.
THEOREM SubmitTypeCorrect == Spec => []TypeOK
<1>1. Init => TypeOK /\ Counted
  BY TypeInit
<1>2. TypeOK /\ Counted /\ [Next]_vars => TypeOK' /\ Counted'
  BY TypeStep
<1>3. QED
  BY <1>1, <1>2, PTL DEF Spec

----------------------------------------------------------------------------
\* The invariant, for a GPU that is on time or hung.

\* Steps of the host that leave the queue, the fence word and the outputs alone keep the
\* invariant: the call goes on where it is, or returns an error.
LEMMA QuietStep ==
  ASSUME SubmitInv, TypeOK', Counted',
         UNCHANGED <<fence, gpu, hung, ctx, calls, outVars>>,
         \/ pc' = pc /\ result' = result
         \/ pc' = "idle" /\ pc \in {"chunks", "fence"} /\ result' # "ok"
  PROVE  SubmitInv'
<1> USE DEF SubmitInv, outVars
<1>1. Ordered' /\ OneFence'
  BY DEF Ordered, OneFence
<1>2. Polled'
  BY DEF Polled, Job
<1>3. Numbering' /\ NumberedRetired'
  BY DEF Numbering, NumberedRetired, Busy
<1>4. SuccessMeansIdle' /\ GuiltMeansStuck'
  BY DEF SuccessMeansIdle, GuiltMeansStuck
<1>5. QED
  BY <1>1, <1>2, <1>3, <1>4

\* A stream handed over by a call that has no number yet keeps the queue in order, is of
\* no numbered submission, and leaves stuck what is stuck.
LEMMA HandStep ==
  ASSUME SubmitInv, pc \in {"chunks", "fence"}, NEW k \in {"ib", "fence"},
         gpu' = Append(gpu, Job(k)), UNCHANGED <<hung, calls, published, guilty>>
  PROVE  /\ gpu' \in Seq(Jobs) /\ Len(gpu') = Len(gpu) + 1 /\ Len(gpu) \in Nat
         /\ gpu'[Len(gpu) + 1] = Job(k)
         /\ \A i \in 1 .. Len(gpu) : gpu'[i] = gpu[i]
         /\ Ordered' /\ NumberedRetired' /\ GuiltMeansStuck'
<1>1. gpu \in Seq(Jobs) /\ Job(k) \in Jobs
  BY JobType DEF SubmitInv, TypeOK, Jobs, UnderWay
<1>2. /\ gpu' \in Seq(Jobs) /\ Len(gpu') = Len(gpu) + 1 /\ Len(gpu) \in Nat
      /\ gpu'[Len(gpu) + 1] = Job(k)
      /\ \A i \in 1 .. Len(gpu) : gpu'[i] = gpu[i]
  BY <1>1, Appended
<1>3. Job(k).call = calls /\ calls \in Nat
  BY SubmitAssumption DEF Job, SubmitInv, TypeOK
<1>4. Ordered'
  <2>1. \A i \in 1 .. Len(gpu) : gpu[i] \in Jobs
    BY <1>1, ElementOfSeq
  <2>2. QED
    BY <1>2, <1>3, <2>1 DEF SubmitInv, Ordered, Jobs
<1>5. NumberedRetired'
  <2>1. \A n \in 1 .. Len(published) : published[n] \in Nat /\ published[n] < calls
    <3>1. \A n \in 1 .. Len(published) : published[n] \in 1 .. MaxCalls
      BY ElementOfSeq DEF SubmitInv, TypeOK
    <3>2. QED
      BY <3>1, SubmitAssumption DEF SubmitInv, Numbering
  <2>2. QED
    BY <1>2, <1>3, <2>1 DEF SubmitInv, NumberedRetired, Busy
<1>6. GuiltMeansStuck'
  BY <1>2 DEF SubmitInv, GuiltMeansStuck
<1>7. QED
  BY <1>2, <1>4, <1>5, <1>6

\* No step breaks the invariant.
LEMMA SubmitStep ==
  ASSUME ~LateGpu, SubmitInv, [Next]_vars
  PROVE  SubmitInv'
<1>0. TypeOK' /\ Counted'
  BY TypeStep DEF SubmitInv
<1>1. CASE UNCHANGED vars
  BY <1>0, <1>1, QuietStep DEF vars, hostVars
<1>2. ASSUME NEW c \in Ctxs, NEW stream \in Streams, BeginCs(c, stream)
      PROVE  SubmitInv'
  <2>1. /\ pc = "idle" /\ pc' \in {"idle", "chunks"} /\ calls' = calls + 1
        /\ UNCHANGED <<fence, gpu, hung, sequence, userFence, guilty, published>>
        /\ pc' = "idle" => result' # "ok"
    BY <1>2 DEF BeginCs, Return, outVars
  <2>2. /\ calls \in Nat
        /\ \A i \in 1 .. Len(gpu) : gpu[i].call \in Nat
        /\ \A k \in 1 .. Len(published) : published[k] \in Nat
    <3>1. \A i \in 1 .. Len(gpu) : gpu[i] \in Jobs
      BY ElementOfSeq DEF SubmitInv, TypeOK, Jobs
    <3>2. \A k \in 1 .. Len(published) : published[k] \in 1 .. MaxCalls
      BY ElementOfSeq DEF SubmitInv, TypeOK
    <3>3. QED
      BY <3>1, <3>2, SubmitAssumption DEF SubmitInv, TypeOK, Jobs
  <2>3. Ordered' /\ OneFence'
    BY <2>1, <2>2 DEF SubmitInv, Ordered, OneFence
  <2>4. Polled' /\ SuccessMeansIdle'
    BY <2>1 DEF SubmitInv, Polled, SuccessMeansIdle
  <2>5. Numbering'
    BY <2>1, <2>2 DEF SubmitInv, Numbering
  <2>6. NumberedRetired' /\ GuiltMeansStuck'
    BY <2>1 DEF SubmitInv, NumberedRetired, Busy, GuiltMeansStuck
  <2>7. QED
    BY <1>0, <2>3, <2>4, <2>5, <2>6 DEF SubmitInv
<1>3. CASE SkipChunk
  BY <1>0, <1>3, QuietStep DEF SkipChunk
<1>4. CASE FenceChunk
  BY <1>0, <1>4, QuietStep DEF FenceChunk
<1>5. CASE ChainLink
  <2>1. /\ pc = "chunks" /\ UNCHANGED <<fence, hung, pc, ctx, calls, outVars, result>>
        /\ gpu' = Append(gpu, Job("ib")) \/ gpu' = gpu
    BY <1>5 DEF ChainLink, AtChunk
  <2>2. CASE gpu' = gpu
    BY <1>0, <2>1, <2>2, QuietStep
  <2>3. CASE gpu' = Append(gpu, Job("ib"))
    <3>1. /\ gpu' \in Seq(Jobs) /\ Len(gpu') = Len(gpu) + 1 /\ Len(gpu) \in Nat
          /\ gpu'[Len(gpu) + 1] = Job("ib")
          /\ \A i \in 1 .. Len(gpu) : gpu'[i] = gpu[i]
          /\ Ordered' /\ NumberedRetired' /\ GuiltMeansStuck'
      BY <2>1, <2>3, HandStep DEF outVars
    <3>2. OneFence'
      BY <2>1, <3>1 DEF SubmitInv, OneFence, Job
    <3>3. Polled' /\ SuccessMeansIdle'
      BY <2>1 DEF SubmitInv, Polled, SuccessMeansIdle
    <3>4. Numbering'
      BY <2>1 DEF SubmitInv, Numbering, outVars
    <3>5. QED
      BY <1>0, <3>1, <3>2, <3>3, <3>4 DEF SubmitInv
  <2>4. QED
    BY <2>1, <2>2, <2>3
<1>6. CASE ChainRefused
  BY <1>0, <1>6, QuietStep DEF ChainRefused, Return, AtChunk
<1>7. CASE NoInstructionBuffer
  BY <1>0, <1>7, QuietStep DEF NoInstructionBuffer, Return
<1>8. CASE Arm
  <2>1. /\ pc = "chunks" /\ pc' \in {"fence", "fault"}
        /\ pc' = "fence" => fence' = "armed"
        /\ UNCHANGED <<gpu, hung, ctx, calls, outVars>>
    BY <1>8 DEF Arm
  <2>2. Ordered' /\ OneFence' /\ Polled' /\ SuccessMeansIdle'
    BY <2>1 DEF SubmitInv, Ordered, OneFence, Polled, SuccessMeansIdle
  <2>3. Numbering' /\ NumberedRetired' /\ GuiltMeansStuck'
    BY <2>1 DEF SubmitInv, Numbering, NumberedRetired, Busy, GuiltMeansStuck, outVars
  <2>4. QED
    BY <1>0, <2>2, <2>3 DEF SubmitInv
<1>9. CASE SubmitFence
  <2>1. CASE gpu' = Append(gpu, Job("fence")) /\ pc' = "poll" /\ UNCHANGED <<ctx, result>>
    <3>1. pc = "fence" /\ UNCHANGED <<fence, hung, outVars, calls>>
      BY <1>9 DEF SubmitFence
    <3>2. /\ gpu' \in Seq(Jobs) /\ Len(gpu') = Len(gpu) + 1 /\ Len(gpu) \in Nat
          /\ gpu'[Len(gpu) + 1] = Job("fence")
          /\ \A i \in 1 .. Len(gpu) : gpu'[i] = gpu[i]
          /\ Ordered' /\ NumberedRetired' /\ GuiltMeansStuck'
      BY <2>1, <3>1, HandStep DEF outVars
    <3>3. OneFence'
      BY <2>1, <3>1, <3>2 DEF SubmitInv, OneFence, Polled
    <3>4. Polled'
      <4>1. gpu' # <<>>
        BY <3>2
      <4>2. Job("fence")' = Job("fence")
        BY <2>1, <3>1 DEF Job
      <4>3. QED
        BY <2>1, <3>1, <3>2, <4>1, <4>2 DEF SubmitInv, Polled
    <3>5. Numbering' /\ SuccessMeansIdle'
      BY <2>1, <3>1 DEF SubmitInv, Numbering, SuccessMeansIdle, outVars
    <3>6. QED
      BY <1>0, <3>2, <3>3, <3>4, <3>5 DEF SubmitInv
  <2>2. CASE Return("EIO") /\ UNCHANGED gpu
    BY <1>0, <1>9, <2>2, QuietStep DEF SubmitFence, Return
  <2>3. QED
    BY <1>9, <2>1, <2>2 DEF SubmitFence
<1>10. CASE Poll
  BY <1>0, <1>10, QuietStep DEF Poll
<1>11. CASE PollFired
  <2>1. /\ pc = "poll" /\ fence = "fired" /\ pc' = "publish"
        /\ UNCHANGED <<fence, gpu, hung, ctx, outVars, calls, result>>
    BY <1>11 DEF PollFired
  <2>2. Ordered' /\ OneFence' /\ Polled' /\ SuccessMeansIdle'
    BY <2>1 DEF SubmitInv, Ordered, OneFence, Polled, SuccessMeansIdle
  <2>3. Numbering' /\ NumberedRetired' /\ GuiltMeansStuck'
    BY <2>1 DEF SubmitInv, Numbering, NumberedRetired, Busy, GuiltMeansStuck, outVars
  <2>4. QED
    BY <1>0, <2>2, <2>3 DEF SubmitInv
<1>12. CASE PollTimesOut
  <2>1. /\ pc = "poll" /\ fence # "fired" /\ hung /\ pc' = "idle" /\ result' = "ETIMEDOUT"
        /\ guilty' = guilty \cup {ctx}
        /\ UNCHANGED <<fence, gpu, hung, ctx, calls, sequence, userFence, published>>
    BY <1>12 DEF PollTimesOut, Return
  <2>2. Ordered' /\ OneFence' /\ Polled' /\ SuccessMeansIdle'
    BY <2>1 DEF SubmitInv, Ordered, OneFence, Polled, SuccessMeansIdle
  <2>3. Numbering' /\ NumberedRetired'
    BY <2>1 DEF SubmitInv, Numbering, NumberedRetired, Busy
  <2>4. GuiltMeansStuck'
    <3>1. gpu # <<>> /\ gpu[Len(gpu)].ctx = ctx
      BY <2>1 DEF SubmitInv, Polled, Job
    <3>2. Len(gpu) \in 1 .. Len(gpu)
      BY <3>1, EmptySeq DEF SubmitInv, TypeOK
    <3>3. QED
      BY <2>1, <3>1, <3>2 DEF SubmitInv, GuiltMeansStuck
  <2>5. QED
    BY <1>0, <2>2, <2>3, <2>4 DEF SubmitInv
<1>13. CASE Publish
  <2>1. /\ pc = "publish" /\ pc' = "commit" /\ published' = Append(published, calls)
        /\ userFence' \in {userFence, sequence + 1}
        /\ UNCHANGED <<fence, gpu, hung, ctx, calls, sequence, guilty, result>>
    BY <1>13 DEF Publish
  <2>2. gpu = <<>>
    BY <2>1 DEF SubmitInv, Polled
  <2>3. Ordered' /\ OneFence' /\ Polled' /\ SuccessMeansIdle' /\ GuiltMeansStuck'
    BY <2>1 DEF SubmitInv, Ordered, OneFence, Polled, SuccessMeansIdle, GuiltMeansStuck
  <2>4. NumberedRetired'
    BY <2>1, <2>2 DEF NumberedRetired, Busy
  <2>5. Numbering'
    <3>1. published \in Seq(1 .. MaxCalls) /\ calls \in 1 .. MaxCalls
      BY <2>1, SubmitAssumption DEF SubmitInv, TypeOK, Counted, UnderWay
    <3>2. /\ Len(published') = Len(published) + 1 /\ Len(published) \in Nat
          /\ published'[Len(published) + 1] = calls
          /\ \A k \in 1 .. Len(published) : published'[k] = published[k]
      BY <2>1, <3>1, AppendProperties
    <3>3. QED
      BY <2>1, <3>1, <3>2 DEF SubmitInv, Numbering, TypeOK
  <2>6. QED
    BY <1>0, <2>3, <2>4, <2>5 DEF SubmitInv
<1>14. CASE Commit
  <2>1. /\ pc = "commit" /\ pc' = "idle" /\ sequence' = sequence + 1
        /\ UNCHANGED <<fence, gpu, hung, ctx, calls, userFence, guilty, published>>
    BY <1>14 DEF Commit, Return
  <2>2. Ordered' /\ OneFence' /\ Polled' /\ SuccessMeansIdle'
    BY <2>1 DEF SubmitInv, Ordered, OneFence, Polled, SuccessMeansIdle
  <2>3. Numbering' /\ NumberedRetired' /\ GuiltMeansStuck'
    BY <2>1 DEF SubmitInv, Numbering, NumberedRetired, Busy, GuiltMeansStuck
  <2>4. QED
    BY <1>0, <2>2, <2>3 DEF SubmitInv
<1>15. CASE Retire
  <2>1. /\ ~hung /\ gpu # <<>> /\ gpu' = Tail(gpu)
        /\ fence' = IF Head(gpu).kind = "fence" THEN "fired" ELSE fence
        /\ UNCHANGED <<hung, pc, ctx, calls, result, sequence, userFence, guilty, published>>
    BY <1>15 DEF Retire, hostVars, outVars
  <2>2. gpu \in Seq(Jobs)
    BY DEF SubmitInv, TypeOK, Jobs
  <2>3. /\ Head(gpu) = gpu[1] /\ Len(gpu) \in Nat \ {0} /\ Len(gpu') = Len(gpu) - 1
        /\ \A i \in 1 .. Len(gpu) - 1 : gpu'[i] = gpu[i + 1]
        /\ Len(gpu) = 1 => gpu' = <<>>
    BY <2>1, <2>2, Retired
  <2>4. Ordered'
    BY <2>1, <2>3 DEF SubmitInv, Ordered
  <2>5. gpu[1].kind = "fence" => pc = "poll" /\ fence = "armed" /\ Len(gpu) = 1
    <3>1. 1 \in 1 .. Len(gpu)
      BY <2>3
    <3>2. QED
      BY <2>1, <3>1 DEF SubmitInv, OneFence
  <2>6. OneFence'
    <3>1. ASSUME NEW i \in 1 .. Len(gpu'), gpu'[i].kind = "fence"
          PROVE  pc' = "poll" /\ fence' = "armed" /\ i = Len(gpu')
      <4>1. i + 1 \in 1 .. Len(gpu) /\ gpu[i + 1].kind = "fence"
        BY <2>3, <3>1
      <4>2. pc = "poll" /\ fence = "armed" /\ i + 1 = Len(gpu)
        BY <2>1, <4>1 DEF SubmitInv, OneFence
      <4>3. Len(gpu) # 1 /\ i = Len(gpu')
        BY <2>3, <3>1, <4>2
      <4>4. QED
        BY <2>1, <2>3, <2>5, <4>2, <4>3
    <3>2. QED
      BY <3>1 DEF OneFence
  <2>7. Polled'
    <3>1. CASE gpu[1].kind = "fence"
      BY <2>1, <2>3, <2>5, <3>1 DEF Polled
    <3>2. CASE gpu[1].kind # "fence"
      <4>1. fence' = fence /\ Job("fence")' = Job("fence") /\ Job("fence").kind = "fence"
        BY <2>1, <2>3, <3>2 DEF Job
      <4>2. ASSUME pc = "poll", fence = "armed" PROVE gpu' # <<>> /\ gpu'[Len(gpu')] = gpu[Len(gpu)]
        <5>1. Len(gpu) # 1
          BY <3>2, <4>1, <4>2 DEF SubmitInv, Polled
        <5>2. Len(gpu') \in Nat \ {0} /\ Len(gpu') \in 1 .. Len(gpu) - 1
          BY <2>3, <5>1
        <5>3. QED
          BY <2>3, <5>2
      <4>3. QED
        BY <2>1, <4>1, <4>2 DEF SubmitInv, Polled
    <3>3. QED
      BY <3>1, <3>2
  <2>8. Numbering' /\ SuccessMeansIdle' /\ GuiltMeansStuck'
    BY <2>1 DEF SubmitInv, Numbering, SuccessMeansIdle, GuiltMeansStuck
  <2>9. NumberedRetired'
    BY <2>1, <2>3 DEF SubmitInv, NumberedRetired, Busy
  <2>10. QED
    BY <1>0, <2>4, <2>6, <2>7, <2>8, <2>9 DEF SubmitInv
<1>16. CASE Hang
  <2>1. /\ ~hung /\ hung' = TRUE
        /\ UNCHANGED <<fence, gpu, pc, ctx, calls, result, sequence, userFence, guilty, published>>
    BY <1>16 DEF Hang, hostVars, outVars
  <2>2. Ordered' /\ OneFence' /\ SuccessMeansIdle' /\ GuiltMeansStuck'
    BY <2>1 DEF SubmitInv, Ordered, OneFence, SuccessMeansIdle, GuiltMeansStuck
  <2>3. Polled' /\ Numbering' /\ NumberedRetired'
    BY <2>1 DEF SubmitInv, Polled, Job, Numbering, NumberedRetired, Busy
  <2>4. QED
    BY <1>0, <2>2, <2>3 DEF SubmitInv
<1>17. QED
  BY <1>1, <1>2, <1>3, <1>4, <1>5, <1>6, <1>7, <1>8, <1>9, <1>10, <1>11, <1>12, <1>13,
     <1>14, <1>15, <1>16 DEF Next, HostStep

\* The invariant holds of the state before the first submission.
LEMMA SubmitInit == Init => SubmitInv
<1>1. Init => TypeOK /\ Counted
  BY TypeInit
<1>2. Init => Len(gpu) = 0 /\ Len(published) = 0 /\ gpu = <<>>
  BY DEF Init
<1>3. Init => Ordered /\ OneFence /\ Polled /\ Numbering /\ NumberedRetired
  BY <1>2 DEF Init, Ordered, OneFence, Polled, Numbering, NumberedRetired
<1>4. Init => SuccessMeansIdle /\ GuiltMeansStuck
  BY DEF Init, SuccessMeansIdle, GuiltMeansStuck
<1>5. QED
  BY <1>1, <1>3, <1>4 DEF SubmitInv

\* With a GPU that is on time or hung, at most one fence stream can still fire, and it is
\* the last work of the call that polls for it.
THEOREM SubmitInvariant ==
  ASSUME ~LateGpu
  PROVE  Spec => []SubmitInv
<1>1. SubmitInv /\ [Next]_vars => SubmitInv'
  BY SubmitStep
<1>2. QED
  BY <1>1, SubmitInit, PTL DEF Spec

\* What WAIT_CS and the user fence call done has left the GPU, whatever was refused or
\* hung before, and at every moment of a call.
THEOREM FencesAreHonest ==
  ASSUME ~LateGpu
  PROVE  Spec => []FencesHonest
<1>1. SubmitInv => FencesHonest
  <2>1. SubmitInv => 1 .. sequence \subseteq 1 .. Len(published)
    BY DEF SubmitInv, Numbering, TypeOK
  <2>2. SubmitInv => 1 .. userFence \subseteq 1 .. Len(published)
    BY DEF SubmitInv, Numbering, TypeOK
  <2>3. QED
    BY <2>1, <2>2 DEF SubmitInv, NumberedRetired, FencesHonest, WaitCsHonest
<1>2. QED
  BY <1>1, SubmitInvariant, PTL

\* A CS call that succeeds leaves the GPU idle: the fence word it saw fire was fired by
\* its own last stream.
THEOREM SuccessLeavesIdle ==
  ASSUME ~LateGpu
  PROVE  Spec => []SuccessMeansIdle
<1>1. SubmitInv => SuccessMeansIdle
  BY DEF SubmitInv
<1>2. QED
  BY <1>1, SubmitInvariant, PTL

\* A context is noted guilty only when the GPU is hung with work of that context's own.
THEOREM GuiltIsStuck ==
  ASSUME ~LateGpu
  PROVE  Spec => []GuiltMeansStuck
<1>1. SubmitInv => GuiltMeansStuck
  BY DEF SubmitInv
<1>2. QED
  BY <1>1, SubmitInvariant, PTL

----------------------------------------------------------------------------
\* Submit implements RetireOrder.

\* The submissions with work on the GPU.
Pending == {gpu[i].call : i \in 1 .. Len(gpu)}

\* A stream handed over is the abstract Hand of the call's own number.
LEMMA HandRefines ==
  ASSUME SubmitInv, pc \in {"chunks", "fence"}, NEW k \in {"ib", "fence"},
         gpu' = Append(gpu, Job(k)), UNCHANGED <<hung, calls, published, guilty>>
  PROVE  \E c \in 1 .. MaxCalls : Order!Hand(c)
<1>1. /\ Len(gpu') = Len(gpu) + 1 /\ Len(gpu) \in Nat
      /\ gpu'[Len(gpu) + 1] = Job(k)
      /\ \A i \in 1 .. Len(gpu) : gpu'[i] = gpu[i]
  BY HandStep
<1>2. Job(k).call = calls
  BY DEF Job
<1>3. Pending' = Pending \cup {calls}
  <2>1. \A c : c \in Pending' <=> \E i \in 1 .. Len(gpu) + 1 : c = gpu'[i].call
    BY <1>1 DEF Pending
  <2>2. \A c : c \in Pending' <=> c \in Pending \cup {calls}
    BY <1>1, <1>2, <2>1 DEF Pending
  <2>3. QED
    BY <2>2
<1>4. calls \in 1 .. MaxCalls
  BY SubmitAssumption DEF SubmitInv, TypeOK, Counted, UnderWay
<1>5. \A n \in 1 .. Len(published) : published[n] # calls
  <2>1. \A n \in 1 .. Len(published) : published[n] < calls /\ published[n] \in 1 .. MaxCalls
    BY ElementOfSeq DEF SubmitInv, TypeOK, Numbering
  <2>2. QED
    BY <1>4, <2>1
<1>6. QED
  BY <1>3, <1>4, <1>5 DEF Order!Hand, Order!IsNumbered, Pending

\* Every step of the host and of the GPU hands work over, finishes the oldest pending
\* submission, numbers one that has retired, or changes neither.
LEMMA OrderStep ==
  ASSUME ~LateGpu, SubmitInv, [Next]_vars
  PROVE  [Order!Next]_Order!vars
<1> USE DEF Order!vars
<1>1. ASSUME UNCHANGED <<gpu, published>> PROVE [Order!Next]_Order!vars
  BY <1>1
<1>2. CASE UNCHANGED vars
  BY <1>1, <1>2 DEF vars, outVars
<1>3. ASSUME NEW c \in Ctxs, NEW stream \in Streams, BeginCs(c, stream)
      PROVE  [Order!Next]_Order!vars
  BY <1>1, <1>3 DEF BeginCs, outVars
<1>4. CASE SkipChunk \/ FenceChunk \/ ChainRefused \/ NoInstructionBuffer \/ Arm
  BY <1>1, <1>4 DEF SkipChunk, FenceChunk, ChainRefused, NoInstructionBuffer, Arm, outVars
<1>5. CASE Poll \/ PollFired \/ PollTimesOut \/ Commit \/ Hang
  BY <1>1, <1>5 DEF Poll, PollFired, PollTimesOut, Commit, Hang, outVars
<1>6. CASE ChainLink
  <2>1. /\ pc = "chunks" /\ UNCHANGED <<hung, calls, published, guilty>>
        /\ gpu' = Append(gpu, Job("ib")) \/ gpu' = gpu
    BY <1>6 DEF ChainLink, AtChunk, outVars
  <2>2. CASE gpu' = Append(gpu, Job("ib"))
    <3>1. \E c \in 1 .. MaxCalls : Order!Hand(c)
      BY <2>1, <2>2, HandRefines
    <3>2. QED
      BY <3>1, Zenon DEF Order!Next
  <2>3. QED
    BY <1>1, <2>1, <2>2
<1>7. CASE SubmitFence
  <2>1. /\ pc = "fence" /\ UNCHANGED <<hung, calls, published, guilty>>
        /\ gpu' = Append(gpu, Job("fence")) \/ gpu' = gpu
    BY <1>7 DEF SubmitFence, outVars
  <2>2. CASE gpu' = Append(gpu, Job("fence"))
    <3>1. \E c \in 1 .. MaxCalls : Order!Hand(c)
      BY <2>1, <2>2, HandRefines
    <3>2. QED
      BY <3>1, Zenon DEF Order!Next
  <2>3. QED
    BY <1>1, <2>1, <2>2
<1>8. CASE Publish
  <2>1. /\ pc = "publish" /\ published' = Append(published, calls) /\ UNCHANGED gpu
    BY <1>8 DEF Publish
  <2>2. /\ gpu = <<>> /\ calls \in 1 .. MaxCalls
        /\ \A k \in 1 .. Len(published) : published[k] < calls
    BY <2>1, SubmitAssumption DEF SubmitInv, Polled, TypeOK, Counted, UnderWay, Numbering
  <2>3. Order!Number(calls)
    BY <2>1, <2>2 DEF Order!Number
  <2>4. QED
    BY <2>2, <2>3 DEF Order!Next
<1>9. CASE Retire
  <2>1. /\ gpu # <<>> /\ gpu' = Tail(gpu) /\ UNCHANGED published
        /\ gpu \in Seq(Jobs)
    BY <1>9 DEF Retire, outVars, SubmitInv, TypeOK, Jobs
  <2>2. /\ gpu[1] \in Jobs /\ Len(gpu) \in Nat \ {0} /\ Len(gpu') = Len(gpu) - 1
        /\ \A i \in 1 .. Len(gpu) - 1 : gpu'[i] = gpu[i + 1]
    BY <2>1, Retired
  <2> DEFINE c == gpu[1].call
  <2>3. c \in 1 .. MaxCalls /\ c \in Pending
    BY <2>2 DEF Jobs, Pending
  <2>4. \A d \in Pending : c <= d
    BY <2>2 DEF SubmitInv, Ordered, Pending
  <2>5. Pending' = Pending \/ Pending' = Pending \ {c}
    <3>1. \A d : d \in Pending' <=> \E i \in 2 .. Len(gpu) : d = gpu[i].call
      <4>1. \A d : d \in Pending' <=> \E i \in 1 .. Len(gpu) - 1 : d = gpu[i + 1].call
        BY <2>2 DEF Pending
      <4>2. \A i \in 1 .. Len(gpu) - 1 : i + 1 \in 2 .. Len(gpu)
        BY <2>2
      <4>3. \A j \in 2 .. Len(gpu) : j - 1 \in 1 .. Len(gpu) - 1 /\ (j - 1) + 1 = j
        BY <2>2
      <4>4. QED
        BY <4>1, <4>2, <4>3
    <3>2. \A d : d \in Pending <=> d = c \/ \E i \in 2 .. Len(gpu) : d = gpu[i].call
      BY <2>2 DEF Pending
    <3>3. QED
      BY <3>1, <3>2
  <2>6. CASE Pending' = Pending
    BY <2>1, <2>6 DEF Pending
  <2>7. CASE Pending' = Pending \ {c}
    <3>1. \E d \in 1 .. MaxCalls : Order!Finish(d)
      BY <2>1, <2>3, <2>4, <2>7 DEF Order!Finish, Pending
    <3>2. QED
      BY <3>1, Zenon DEF Order!Next
  <2>8. QED
    BY <2>5, <2>6, <2>7
<1>10. QED
  BY <1>2, <1>3, <1>4, <1>5, <1>6, <1>7, <1>8, <1>9 DEF Next, HostStep

\* Submission as submit.c does it implements the promise radeonsi reads into it: work
\* retires in order, and a number goes out only for work that has retired.
THEOREM SubmitImplementsOrder ==
  ASSUME ~LateGpu
  PROVE  Spec => RetiresInOrder
<1>1. Init => Order!Init
  BY DEF Init, Order!Init
<1>2. SubmitInv /\ [Next]_vars => [Order!Next]_Order!vars
  BY OrderStep
<1>3. QED
  BY <1>1, <1>2, SubmitInvariant, PTL DEF Spec, RetiresInOrder, Order!Spec

============================================================================
