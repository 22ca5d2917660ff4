------------------------------- MODULE Submit -------------------------------
(***************************************************************************)
(* Command submission: src/winsys/submit.c.                                *)
(*                                                                         *)
(* DRM_IOCTL_AMDGPU_CS hands every instruction buffer to the platform's    *)
(* graphics queue, then a small stream whose end-of-pipe event writes      *)
(* FIRED into one fence word, and polls that word before it returns.  The  *)
(* host (radeonsi's one submission thread) and the GPU are two processes;  *)
(* the GPU retires the queue in order, may be slow, and may hang.          *)
(*                                                                         *)
(* An instruction buffer is a chain of links.  Each link is submitted as a *)
(* stream of its own: "dcb" for one with dwords before its chain packet    *)
(* (or no chain packet), "empty" for one that holds nothing else.          *)
(***************************************************************************)
EXTENDS Naturals, Sequences

CONSTANTS
  Ctxs,        \* contexts a submission may name
  Streams,     \* chunk lists a submission may carry
  MaxIbChain,  \* OOPS_MAX_IB_CHAIN
  MaxPolls,    \* OOPS_WINSYS_FENCE_POLLS
  MaxCalls,    \* bound: submissions made in a run
  Refusals,    \* may the driver and the platform refuse a call?
  Hangs,       \* may the GPU stop for good?
  LateGpu      \* may a submission outlast the timeout and retire afterwards?

ASSUME SubmitAssumption ==
  /\ MaxIbChain \in Nat \ {0}
  /\ MaxPolls \in Nat \ {0}
  /\ MaxCalls \in Nat
  /\ {Refusals, Hangs, LateGpu} \subseteq BOOLEAN

VARIABLES
  queue,      \* s_queue is set
  mem,        \* which of s_fence and s_fence_dcb are allocated
  fence,      \* the fence word: "fresh" until first armed
  gpu,        \* streams handed to the driver and not retired, oldest first
  hung,       \* the GPU has stopped
  pc,         \* where the CS call is; "idle" between calls, "fault" after a null write
  rest,       \* chunks of the call not yet walked
  depth,      \* links of the current instruction buffer already followed
  submitted,  \* instruction buffers submitted by the call
  slot,       \* the call carried a user fence
  ctx,        \* the call's ctx_id
  polls,      \* iterations of the fence poll
  sequence,   \* s_sequence
  userFence,  \* the number in the user fence buffer
  guilty,     \* contexts with a hang noted against them
  calls,      \* submissions made so far; the current one's identity
  published,  \* history: the submission each sequence number was given to
  result      \* what the last call returned

hostVars == <<pc, rest, depth, submitted, slot, ctx, polls>>
outVars  == <<sequence, userFence, guilty, published>>
vars == <<queue, mem, fence, gpu, hung, hostVars, outVars, calls, result>>

Job(kind) == [call |-> calls, ctx |-> ctx, kind |-> kind]

Return(rc) ==
  /\ pc' = "idle"
  /\ result' = rc
  /\ UNCHANGED <<rest, depth, submitted, slot, ctx, polls>>

----------------------------------------------------------------------------
\* The host.

\* ensure_queue.  A queue that is up answers at once, whatever became of the fence
\* and its stream; one that is not may be refused, or come up without them.
QueueRefused ==
  /\ ~queue /\ Refusals
  /\ UNCHANGED <<queue, mem>>

QueueCreated(got) ==
  /\ ~queue
  /\ Refusals \/ got = {"fence", "dcb"}
  /\ queue' = TRUE
  /\ mem' = got

QueueUp ==
  /\ queue
  /\ UNCHANGED <<queue, mem>>

\* oops_winsys_cs up to the chunk walk.
BeginCs(c, stream) ==
  /\ pc = "idle"
  /\ calls < MaxCalls
  /\ calls' = calls + 1
  /\ \/ /\ QueueRefused \/ \E got \in SUBSET {"fence", "dcb"} :
                             got # {"fence", "dcb"} /\ QueueCreated(got)
        /\ Return("ENODEV")
     \/ /\ QueueUp \/ QueueCreated({"fence", "dcb"})
        /\ stream = <<>>
        /\ Return("EINVAL")
     \/ /\ QueueUp \/ QueueCreated({"fence", "dcb"})
        /\ stream # <<>>
        /\ pc' = "chunks"
        /\ rest' = stream
        /\ ctx' = c
        /\ depth' = 0 /\ submitted' = 0 /\ slot' = FALSE
        /\ UNCHANGED <<polls, result>>
  /\ UNCHANGED <<fence, gpu, hung, outVars>>

AtChunk(kind) == pc = "chunks" /\ rest # <<>> /\ Head(rest).kind = kind

\* Dependencies, syncobjs, buffer lists, unknown kinds and empty instruction
\* buffers: nothing to do.
SkipChunk ==
  /\ AtChunk("other")
  /\ rest' = Tail(rest)
  /\ UNCHANGED <<queue, mem, fence, gpu, hung, pc, depth, submitted, slot, ctx, polls,
                 outVars, calls, result>>

\* A user fence is remembered, to be written when the work has retired.
FenceChunk ==
  /\ AtChunk("fence")
  /\ slot' = TRUE
  /\ rest' = Tail(rest)
  /\ UNCHANGED <<queue, mem, fence, gpu, hung, pc, depth, submitted, ctx, polls,
                 outVars, calls, result>>

\* submit_chain: one link, while the bound on the chain allows it.
Links == Head(rest).links

LinkAllowed == depth < MaxIbChain

ChainLink ==
  /\ AtChunk("ib")
  /\ LinkAllowed
  /\ gpu' = IF Links[depth + 1] = "dcb" THEN Append(gpu, Job("ib")) ELSE gpu
  /\ IF depth + 1 = Len(Links)
     THEN /\ rest' = Tail(rest) /\ depth' = 0 /\ submitted' = submitted + 1
     ELSE /\ depth' = depth + 1 /\ UNCHANGED <<rest, submitted>>
  /\ UNCHANGED <<queue, mem, fence, hung, pc, slot, ctx, polls, outVars, calls, result>>

\* The driver refuses a link, or the chain is too deep; earlier links stay queued.
ChainRefused ==
  /\ AtChunk("ib")
  /\ ~LinkAllowed \/ (Refusals /\ Links[depth + 1] = "dcb")
  /\ Return("EIO")
  /\ UNCHANGED <<queue, mem, fence, gpu, hung, outVars, calls>>

NoInstructionBuffer ==
  /\ pc = "chunks" /\ rest = <<>> /\ submitted = 0
  /\ Return("EINVAL")
  /\ UNCHANGED <<queue, mem, fence, gpu, hung, outVars, calls>>

\* Mutant: the word of the last submission is left in place.
ArmWithoutReset ==
  /\ pc = "chunks" /\ rest = <<>> /\ submitted > 0
  /\ fence' = IF fence = "fresh" THEN "armed" ELSE fence
  /\ pc' = "fence"
  /\ UNCHANGED <<queue, mem, gpu, hung, rest, depth, submitted, slot, ctx, polls,
                 outVars, calls, result>>

\* The fence word is armed and its stream built, through pointers never checked
\* again: without the memory the process faults.
Arm ==
  /\ pc = "chunks" /\ rest = <<>> /\ submitted > 0
  /\ \/ /\ mem = {"fence", "dcb"}
        /\ fence' = "armed"
        /\ pc' = "fence"
     \/ /\ mem # {"fence", "dcb"}
        /\ pc' = "fault"
        /\ UNCHANGED fence
  /\ UNCHANGED <<queue, mem, gpu, hung, rest, depth, submitted, slot, ctx, polls,
                 outVars, calls, result>>

\* Mutant: a refused fence stream is noted against the context as a hang.
SubmitFenceNotingHang ==
  /\ pc = "fence"
  /\ \/ /\ gpu' = Append(gpu, Job("fence"))
        /\ pc' = "poll"
        /\ polls' = 0
        /\ UNCHANGED <<rest, depth, submitted, slot, ctx, result, guilty>>
     \/ /\ Refusals
        /\ Return("EIO")
        /\ guilty' = guilty \cup {ctx}
        /\ UNCHANGED gpu
  /\ UNCHANGED <<queue, mem, fence, hung, sequence, userFence, published, calls>>

SubmitFence ==
  /\ pc = "fence"
  /\ \/ /\ gpu' = Append(gpu, Job("fence"))
        /\ pc' = "poll"
        /\ polls' = 0
        /\ UNCHANGED <<rest, depth, submitted, slot, ctx, result>>
     \/ /\ Refusals
        /\ Return("EIO")
        /\ UNCHANGED gpu
  /\ UNCHANGED <<queue, mem, fence, hung, outVars, calls>>

\* One iteration of the poll that does not end it.  Unless the GPU is hung or late
\* the work retires before the last of them.
Poll ==
  /\ pc = "poll"
  /\ fence # "fired"
  /\ polls + 1 < MaxPolls
  /\ polls' = polls + 1
  /\ UNCHANGED <<queue, mem, fence, gpu, hung, pc, rest, depth, submitted, slot, ctx,
                 outVars, calls, result>>

PollFired ==
  /\ pc = "poll"
  /\ fence = "fired"
  /\ pc' = "publish"
  /\ UNCHANGED <<queue, mem, fence, gpu, hung, rest, depth, submitted, slot, ctx, polls,
                 outVars, calls, result>>

\* Mutant: a submission that does not retire is waited for again.
PollStartsOver ==
  /\ pc = "poll"
  /\ fence # "fired"
  /\ polls' = 0
  /\ UNCHANGED <<queue, mem, fence, gpu, hung, pc, rest, depth, submitted, slot, ctx,
                 outVars, calls, result>>

\* The clock or the poll count runs out: the hang is noted against the context.
PollTimesOut ==
  /\ pc = "poll"
  /\ fence # "fired"
  /\ hung \/ LateGpu
  /\ guilty' = guilty \cup {ctx}
  /\ Return("ETIMEDOUT")
  /\ UNCHANGED <<queue, mem, fence, gpu, hung, sequence, userFence, published, calls>>

\* Mutant: the number is published when the fence stream is handed over.
PublishEarly ==
  /\ pc \in {"poll", "publish"}
  /\ published' = Append(published, calls)
  /\ userFence' = IF slot THEN sequence + 1 ELSE userFence
  /\ pc' = "commit"
  /\ UNCHANGED <<queue, mem, fence, gpu, hung, rest, depth, submitted, slot, ctx, polls,
                 sequence, guilty, calls, result>>

\* The user fence gets the number the call is about to return; its buffer may have
\* gone, and a refused write is not fatal.
Publish ==
  /\ pc = "publish"
  /\ published' = Append(published, calls)
  /\ \/ slot /\ userFence' = sequence + 1
     \/ (~slot \/ Refusals) /\ UNCHANGED userFence
  /\ pc' = "commit"
  /\ UNCHANGED <<queue, mem, fence, gpu, hung, rest, depth, submitted, slot, ctx, polls,
                 sequence, guilty, calls, result>>

\* s_sequence and the returned handle are set.
Commit ==
  /\ pc = "commit"
  /\ sequence' = sequence + 1
  /\ Return("ok")
  /\ UNCHANGED <<queue, mem, fence, gpu, hung, userFence, guilty, published, calls>>

HostStep ==
  \/ SkipChunk \/ FenceChunk \/ ChainLink \/ ChainRefused \/ NoInstructionBuffer
  \/ Arm \/ SubmitFence \/ Poll \/ PollFired \/ PollTimesOut \/ Publish \/ Commit

----------------------------------------------------------------------------
\* The GPU, as the code expects it: in order, the fence stream's event last.

Retire ==
  /\ ~hung
  /\ gpu # <<>>
  /\ gpu' = Tail(gpu)
  /\ fence' = IF Head(gpu).kind = "fence" THEN "fired" ELSE fence
  /\ UNCHANGED <<queue, mem, hung, hostVars, outVars, calls, result>>

Hang ==
  /\ Hangs
  /\ ~hung
  /\ gpu # <<>>
  /\ hung' = TRUE
  /\ UNCHANGED <<queue, mem, fence, gpu, hostVars, outVars, calls, result>>

----------------------------------------------------------------------------
Init ==
  /\ queue = FALSE
  /\ mem = {}
  /\ fence = "fresh"
  /\ gpu = <<>>
  /\ hung = FALSE
  /\ pc = "idle"
  /\ rest = <<>>
  /\ depth = 0 /\ submitted = 0 /\ slot = FALSE /\ polls = 0
  /\ ctx \in Ctxs
  /\ sequence = 0 /\ userFence = 0 /\ guilty = {} /\ published = <<>>
  /\ calls = 0
  /\ result = "none"

Next ==
  \/ \E c \in Ctxs, stream \in Streams : BeginCs(c, stream)
  \/ HostStep
  \/ Retire
  \/ Hang

\* A CS call under way goes on (its thread is scheduled), and a GPU that has not
\* hung goes on retiring work.
Fairness == WF_vars(HostStep) /\ WF_vars(Retire)

Spec == Init /\ [][Next]_vars /\ Fairness

----------------------------------------------------------------------------
\* Answers given between calls.

\* oops_winsys_wait_cs.
WaitCs(handle) == IF handle > sequence THEN "EINVAL" ELSE "signalled"

Busy(c) == \E i \in 1 .. Len(gpu) : gpu[i].call = c

----------------------------------------------------------------------------
\* Properties.

Results == {"none", "ok", "ENODEV", "EINVAL", "EIO", "ETIMEDOUT"}

\* The call's state and the counters stay within their kinds and bounds; the chain
\* is never followed past OOPS_MAX_IB_CHAIN.
TypeOK ==
  /\ queue \in BOOLEAN /\ hung \in BOOLEAN /\ slot \in BOOLEAN
  /\ mem \subseteq {"fence", "dcb"}
  /\ fence \in {"fresh", "armed", "fired"}
  /\ gpu \in Seq([call : 1 .. MaxCalls, ctx : Ctxs, kind : {"ib", "fence"}])
  /\ pc \in {"idle", "chunks", "fence", "poll", "publish", "commit", "fault"}
  /\ depth \in 0 .. MaxIbChain
  /\ polls \in 0 .. MaxPolls - 1
  /\ ctx \in Ctxs /\ guilty \subseteq Ctxs
  /\ submitted \in Nat /\ sequence \in Nat /\ userFence \in Nat
  /\ calls \in 0 .. MaxCalls
  /\ published \in Seq(1 .. MaxCalls)
  /\ result \in Results

\* WAIT_CS only calls a submission signalled when none of its work is on the GPU.
WaitCsHonest ==
  \A handle \in 1 .. sequence : WaitCs(handle) = "signalled" => ~Busy(published[handle])

\* So does the user fence, which radeonsi reads first and takes for "done" at
\* *user_fence >= seq_no: whatever its buffer holds, and before the call has returned,
\* the submissions up to that number have left the GPU.
FencesHonest == WaitCsHonest /\ \A k \in 1 .. userFence : ~Busy(published[k])

\* A call that succeeds leaves the GPU with nothing to do, which is what lets
\* GEM_WAIT_IDLE and the dependency chunks do nothing.
SuccessMeansIdle == pc = "idle" /\ result = "ok" => gpu = <<>>

\* A context answers GUILTY_RESET only when work of its own is stuck on the GPU and
\* never retires: a refused submission, or somebody else's hang alone, is not enough.
GuiltMeansStuck ==
  \A c \in guilty : hung /\ \E i \in 1 .. Len(gpu) : gpu[i].ctx = c

\* The doc's stronger words: by the time anything can ask, every stream handed to
\* the driver has retired.
NoBusyWindow == pc = "idle" => gpu = <<>>

\* A submission refuses when it cannot do the work; it never writes through a
\* pointer it failed to allocate.
NeverFaults == pc # "fault"

\* Every CS call returns, hung GPU or not, because the poll is bounded.
CallReturns == pc # "idle" ~> pc \in {"idle", "fault"}

\* Numbers go out in order and only for retired work.
Order == INSTANCE RetireOrder WITH
  Calls    <- 1 .. MaxCalls,
  pending  <- {gpu[i].call : i \in 1 .. Len(gpu)},
  numbered <- published

RetiresInOrder == Order!Spec

============================================================================
