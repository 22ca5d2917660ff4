# oops-mesa: a TLA+ verification project

oops-mesa runs Mesa's radeonsi on a console that has no DRM device. A *winsys*
answers libdrm's ioctls from tables of its own and hands command streams to the
platform's graphics queue; a *loader* gives Mesa's DRI frontend a window system and
puts frames on the display; a *runtime* supplies what Mesa's C and C++ expect and the
platform lacks. This directory models the parts of it whose state can go wrong in ways
a test hardly reaches, checks them with TLC on small instances, and proves with TLAPS
what holds for every instance.

Paths below are relative to the repository's root. `PROJECT.json` holds the exact
line ranges each definition models.

## 1. Inventory

| Component | Source | State | Operations | What makes it correct |
|---|---|---|---|---|
| Buffer objects | `src/winsys/buffers.c` | `s_bo`, `s_retained`, the GPU page table and direct memory behind the platform | `GEM_CREATE`, `GEM_MMAP`, `GEM_VA` map/unmap, `GEM_CLOSE`, CPU mapping | each extent of memory has one owner; the GPU's translations are what the tables say; the cache of retained ranges stays within its limits; an address changes its pages only when it must |
| Command submission | `src/winsys/submit.c` | `s_queue`, `s_fence`, `s_fence_dcb`, `s_sequence` | `AMDGPU_CS`, `WAIT_CS`, `GEM_WAIT_IDLE`, queue bring-up | a number handed out stands for work that has retired; every call returns; a hang is charged to a context that hung |
| Chained command streams | `src/winsys/submit.c` | none (a walk over memory) | `oops_winsys_find_chain`, `submit_chain` | what is submitted is what the command processor would have run, in order, once |
| Handle tables | `src/winsys/context.c`, `src/winsys/syncobj.c`, `src/winsys/buffers.c` | four arrays of entries with a live flag; a hang count per context | create, destroy, query, note a hang | no two live handles share an entry; a reset is reported to the context that hung and to no later one |
| Device descriptor | `src/winsys/drm_device.c` | `s_winsys_fd`, the kernel's descriptor table | claim, open, close, duplicate, the ioctl gate | taken once; every descriptor handed out is answered |
| GL loader, presentation | `src/platform/dri_loader.c`, `src/platform/gfx.c` | screen, context, drawable, two colour images, the display's flip queue | create (with every early return), present by flip or copy, readback, destroy | the display never scans an image being drawn or freed; an older frame never comes back; nothing held is left of a bring-up that stopped |
| Log capture | `src/runtime/stderr_to_klog.c`, `winsys_vlog` in `src/winsys/log.c`, `say` in `src/platform/dri_loader.c` | one line buffer | stdio writes, flush, lines of the winsys and the loader | no byte lost, events in order, the buffer never overrun |
| Emulated TLS | `src/runtime/emutls.c` | key, index counter, one array of objects per thread | `__emutls_get_address`, thread cleanup | objects are private to their thread, stable while it lives, freed once |
| CPU mappings | `src/winsys/buffers.c`, `src/winsys/submit.c` | `cpu_ptr` of each buffer, the process's mappings, the CPU's cache | `mmap`, `munmap`, close, the drain before a submission, the fence write | no page is touched unmapped; a mapping lives exactly as long as its buffer; the GPU finds in memory what the CPU wrote |
| Thread wrappers | `src/runtime/threads.c` | the lock of `pthread_once`; otherwise the platform's objects | `pthread_once`, timed waits, mutex, condition, key wrappers | `pthread_once` runs once and before anyone returns; a timed wait ends when its deadline says |
| Static guards | `src/runtime/cxx_support.cpp` | two bytes per static | `__cxa_guard_acquire`, `__cxa_guard_release` | built once, never used unbuilt, nobody waits for ever |
| Rest of the C++ support | `src/runtime/cxx_support.cpp` | none | operator new/delete, personality, terminate | - |
| Missing libc | `src/runtime/libc_absent.c` | the working directory, directory streams, an environment table | `chdir`, `stat`, `opendir`/`readdir`/`closedir`, `getenv`/`setenv`/`unsetenv`, `localtime_r`, `usleep`; stubs | relative names mean what a listing said; descriptors and blocks are neither lost nor shared; variables read back; dates are right; sleeps are whole |
| Device description | `src/winsys/device_info.c` | none | answers of `AMDGPU_INFO` | - |
| Progress marks | `src/winsys/log.c` | `s_marks`, up to 48 addresses with the value found there | clear, note, report | after a hang a mark tells whether its packet was reached |
| ABI checks, patches, build | `src/runtime/abi.c`, `patches/`, `toolchain/`, `tools/`, `bin/` | none at run time | - | - |

**How they interact.** Mesa calls libdrm, which the patches route to `drm_device.c`;
that gates on the descriptor and dispatches to buffers, submission, contexts and
syncobjs. Submission reads buffer objects (to walk chains through the CPU mapping) and
notes hangs in the context table. The loader drives Mesa's frontend, asks the winsys
for the pages of the image it presents, and hands them to the display. Everything logs.
The working directory and directory streams share the kernel's descriptor table and the
repointable root with the device descriptor. Calls are direct; shared state is the
process's memory, with no lock in the winsys.

**What is hard.** Ownership of direct memory moving through retained ranges; a GPU that
is slow, hangs, or answers late, against a bounded poll; a display that flips when it
pleases, against a bounded wait; bring-up sequences that fail half way; threads that
meet in unlocked tables, a line buffer, a `pthread_once` and a pair of guard bytes; a
title that writes, maps and closes buffers while the submission thread drains them;
deadlines that become relative waits while the clock moves; questions about files that
take two opens each.
`PROJECT.json` lists these hazards at their lines with the properties about them.

## 2. Modules

`M` is a component, `MCM` gives TLC its constants where a `.cfg` cannot, `MProofs`
holds its theorems. Components that share an MC module share a proof module too:
`TablesProofs` is on Tables and CpuMaps, `ThreadsProofs` on Emutls, Waits and CxaGuard,
`LibcProofs` on Device, Files, Env and Calendar, `DiagProofs` on Log and Marks. Where two
modules are extended together, the names of one carry its prefix (`MapsSpec`,
`GuardSpec`, `EnvSpec`). Definitions labelled *Mutant* are plausible bugs of the definition
that follows; nothing uses them but the mutation runs, which replace one by the other.

**Buffers.** `bo` is `s_bo`, `ret` is `s_retained`; `NoBo` and `NoRange` are entries
after `memset` (a dead entry's physical offset reads 0, which is a valid offset). Sizes
are in pages; bytes appear as ioctl arguments and `round_up_page` wraps at `Word`. The
platform (page table, direct memory) is state of its own. Each ioctl is one action with
its whole handler: GEM_VA map takes over a retained range, or releases those in the way
and then asks for a batch map that may be refused. A refusal that changes nothing is a
stutter. The size of what is retained is counted page by page (`RetainedPages`), so that it
can be reasoned about as the cardinality of a set. `Liberties` says what a client may do beyond Mesa's own habits:
- `"partial"`: map fewer bytes than the buffer has, or at an offset (logged, performed);
- `"collide"`: map over another live buffer;
- `"swap"`: take over a range with a buffer whose own pages a retained range still maps.
Mesa does none of the first two; the third is legal and the code has no guard for it,
which is finding `buffers_swap`.

**RetireOrder / Submit.** RetireOrder is the promise of synchronous submission: numbers
go out one at a time, each for work that has retired. Submit has two processes. The host
walks the chunks of one CS call (bring-up of queue and fence memory, link by link
submission, the fence stream, the poll, the user fence); the GPU retires its queue in
order, may stall, may hang. `Submit` implements `RetireOrder` under the mapping at the
end of the module.

**Chain.** The memory is command buffers of packets, flattened to dwords the way PM4 lays
them out, with payload dwords that look like chain headers. The walk is dword by dword
as in the code; the reference `Runs` reads packets, following as many chains as the limit
allows. `sent` is what the driver was handed, one stream after another. `Memory` says what
a client may write: chains lead to command buffers, and only the last header of a buffer
is cut off. Unknown packet types, chains to nothing and self-chains are among the inputs.

**Tables.** An entry-by-entry search, then a separate claim, by several callers that
overlap as they like: nothing in the code locks a table. `Kinds` names the tables. `clash`
remembers the entries that two creates had found dead at once, the one way in which an
entry is shared. A hang is noted in two steps, as a CS ioctl learns of it only when its wait
is over: `under` is the context it was called with, `stale` says that it has been freed
meanwhile, and `strays` are the contexts charged in its place.

**Device.** The kernel's descriptor table with lowest-free allocation, `/app0` before and
after the title repoints its root, the claim from `.init_array`, opens, duplicates and
closes by the winsys and by the title.

**Present.** Bring-up is a sequence of steps, each with its early return and its
clean-up; frames are presented by flip until a flip is refused and by copy from then on. A
frame may have no image to be drawn into, if Mesa could not make it. The display is a
process that flips queued images, copies among them, when it likes; `late` says that a flip
which outlasted its wait is queued still, `dropped` that a frame was copied while the queue
was full. `objs` includes what the loader makes and never keeps hold of (`Unheld`): the
descriptors of the dup probe and the list of configs.

**Log.** A byte is the number of the moment it was written, so order and loss can be
read off the log. Two threads append byte by byte (test, then store); the winsys and the
loader write lines, and `said` remembers which bytes are the loader's. Calls overlap as they
like; `mixed` remembers that some have, `raced` that two threads were between the test and
the store at once. `KlogMax` is what
the system log takes in one line; a call with a longer one leaves an empty place in the
log, which is how a loss shows.

**Emutls.** `pthread_once` as `threads.c` has it (the unsynchronised creation of its
lock, done marked before the routine runs), the double-checked index, the growth of a
thread's array by `realloc` (a new array is published by `pthread_setspecific`, and the
old one is gone whether or not that succeeds), and the cleanup at thread exit. `undefined`
remembers a use of the key before it exists or of an array already freed; what the
program does after that is left open by its properties (`Defined`).

**CxaGuard.** Every action is one atomic access. The initialiser is two steps, so that a
second one overlapping it would be seen.

**CpuMaps.** What Buffers leaves out of a CPU mapping: that the platform's map call and
the store of `cpu_ptr` are two steps, that a close unmaps before it clears its entry, and
that a store is in the cache until `clflush` takes it out, one line at a time. The title's
thread and the submission thread are separate processes; `exclusive` says whether their
ioctls may overlap, and both kinds of behaviour are explored. The title stores through the
pointer `mmap` gave it (`Write`) or through the address `GEM_VA` gave the GPU
(`WriteAtVa`), which needs no mapping of the buffer. When a CS ioctl begins, every line that
holds a store and whose buffer has a mapping becomes `"due"`: it must be in memory when the
GPU starts. A line stored to later raced the submission, and nothing is promised of it. An
address is reused as soon as it can be, which is when a stale pointer does most harm.

**Waits.** `pthread_cond_timedwait` and `pthread_mutex_timedlock` read the clock, convert
and block, in three steps, and time passes between them; nanoseconds, microseconds and
seconds are kept apart with small ratios, so that rounding, carries between seconds and
nanoseconds, deadlines in the past and the cut at `UINT32_MAX` all occur. `to_errno` is
applied to what the platform answers, foreign facilities included. `usleep` is the loop
around `nanosleep`.

**Files.** Extends Device: the descriptor table and the root are the same variables. The
working directory is a list of components; `stat` and `chdir` are two opens with the
other threads' steps in between, and an open fails when no descriptor is free. What exists
has a canonical name the platform takes (`CanonicalName`); paths may have `.` and `..`. The
name of a directory may leave no room for the `/.` that tells it from a file (`Roomy`).

**Env.** Slots, blocks and the allocator's reuse of freed blocks. Names and values are
character sequences because the lookup is a prefix comparison, and prefixes are what can
go wrong in it.

**Calendar.** The days-to-civil arithmetic with C's division, against a calendar counted
by leap years with floor division. A day is 8 seconds long in the instance, which keeps the
times of far years within TLC's integers; the date depends on the count of days, which is
not scaled.

**Marks.** The host notes the packets of one buffer while the command processor runs the
buffers before it; the processor may hang at any packet or in a wait. What a packet writes
is in `flight` after it has run, and lands when it likes. A call that is refused half way,
or gives up waiting, leaves its buffers to run under the next one (`left`), which clears
the marks all the same; `crossed` remembers the addresses noted while such a write could
still reach them. A `RELEASE_MEM` may write something other than the value it carries.

**MCThreads, MCTables, MCLibc, MCLog** each put components with no variable in common in one
run. A part's steps are taken only while the other parts are in their initial states:
interleaving parts that share nothing would multiply the states and show no more.

## 3. Runs

| Run | Expect | What it shows |
|---|---|---|
| `buffers` | pass | `Ownership`, `AddressSpace`, `CpuSeesGpuPages`, `RetainedBudget`, `AddressKeepsPages` under Mesa's own calls |
| `buffers_prot` | pass | `AddressSpace` with two protections, so that a retained range of another protection is in the way |
| `buffers_swap` | violation | a buffer unmapped from one address takes over another and frees pages the first range still maps |
| `submit` | pass | fences tell the truth, success means idle, a hang is charged to a context with work stuck, calls return, `RetireOrder` is implemented - with refusals and hangs, and a GPU that either answers within the timeout or never |
| `submit_late` | violation | work that outlasts the timeout and retires later fires the next submission's fence |
| `chain` | pass | what is submitted is a prefix of what the command processor would run, all of it if nothing is refused; the walk stays on packet boundaries and ends |
| `present` | pass | with a display of any speed nothing freed is scanned, a `true` from present means the frame was shown or queued, if it had an image and the queue had room, nothing the loader held is left after a failed bring-up, present returns; no tearing and no older frame after a newer one, except while a flip outlasts its wait |
| `cxa_guard` | pass | the guard's inductive invariant, use only after construction, one construction, everyone gets in |
| `emutls` | pass | the thread runtime: with racing first uses and any call refused: indices apart; and, until something undefined happens (`Defined`), storage private, nothing leaked, addresses stable. A wait that says `ETIMEDOUT` was due, none outlasts its deadline, an interrupted sleep is neither cut short nor begun again |
| `tables` | pass | handles apart and live exactly while held, but for entries two creates clashed over; resets told to the contexts that hung, but for a charge that came too late - with calls overlapping at will; no unmapped page touched and no mapping lost or doubled, ioctls one at a time; every earlier write to a live, mapped buffer in memory when the GPU starts, however the threads interleave |
| `device` | pass | the descriptor is taken once and every one handed out is answered, for a title that starts with its eboot or a standard error; around it, a name a listing gave resolves to what the listing said (`ListingResolves`); variables read back, blocks are neither leaked nor freed twice, pointers from `getenv` stay good; broken-down time is the Gregorian calendar's |
| `log` | pass | while calls have not overlapped no byte is lost and standard error and the winsys keep their order; with calls overlapping the line buffer is overrun only once two threads have been at its end together; progress marks tell which packets were reached, while the GPU runs and after it hangs, submissions refused or abandoned before included |

The two violations quote, in `PROJECT.json`, the comment of the source they refute.

### Known edges

Conditions under which the code departs from what its comments say. Each is excluded
from a passing run by a named constant or a named exception, so that the run says what
holds otherwise; the change on the right shows the departure.

| Where | What happens | The comment | To see it |
|---|---|---|---|
| `buffers.c:654` | a buffer mapped in part is retained whole, and the next one takes over pages nobody mapped | `buffers.c:182-183` "already mapped there" | `BuffersSwap.cfg` with `Liberties = {"partial"}`, `ByteCounts <- TwoSizes`, `PROPERTY TakeOverIsMapped` |
| `submit.c:412` | after a refusal half way, a refused fence stream or a timeout, streams are queued while `GEM_WAIT_IDLE` answers idle | `buffers.c:693-696` "no window in which a buffer is busy" | `NoBusyWindow` in `Submit.cfg` |
| `submit.c:83` | a queue that came up without its fence memory is taken for ready by the next call, which writes through null | `oops_winsys.h:55-56` "Each refuses rather than succeeding when it cannot do the work" | `NeverFaults` in `Submit.cfg` |
| `dri_loader.c:679` | the wait's answer is dropped: a display slower than about 100 ms scans the image being drawn | `dri_loader.c:135-136` "never scans the one radeonsi is drawing into" | `NoTearing` without `~late` |
| `dri_loader.c:225` | with no image to draw into the frame is still "read back" and present answers true, with nothing of it shown | `dri_loader.c:226` "Mesa could not allocate the drawable's colour buffer" is all that is said of it | `TrueMeansShown` without `Which \in back` |
| `dri_loader.c:730` | a frame copied while the flip queue is full is dropped and present answers true | `docs/WORKLOG.md:102` "The flip queue is 26 deep; a title that presents faster than 60 Hz fills it" | `TrueMeansShown` without `~dropped` |
| `dri_loader.c:425` | the descriptors the dup probe is given are never closed, and the configs of `driCreateNewScreen3` never freed | `buffers.c:551-557` "leaked two", of a teardown | `NothingLeft` with `objs = {}` |
| `dri_loader.c:668` | a single image is drawn while it is scanned, and a copy of an earlier frame may follow a part of a later one | `dri_loader.c:135-136` "never scans the one radeonsi is drawing into" | `NeverBackwards` without `nImages # 1` |
| `threads.c:341` | `pthread_once` lets a second caller go before the routine has run, so `emutls.c` uses its key unset | `emutls.c:116` "two threads can reach an object's first use together" | `KeyBeforeUse` in `Emutls.cfg` |
| `emutls.c:76` | a refused `pthread_setspecific` leaves the key with the array `realloc` freed | `emutls.c:57-58` "rather than a wild pointer" | `NoWildPointer` in `Emutls.cfg` |
| `buffers.c:323` | two overlapping creates claim one entry | `buffers.c:41` "instead of overwriting a live entry" | `HandlesApart` without `Unclashed` |
| `context.c:49` | a hang found after its context was freed is charged to the context that has the entry by then | `context.c:46-47` "the source of the reset answer" | `ResetAnswerTrue` without `strays` |
| `drm_device.c:455` | a title that starts with neither eboot nor standard error is given the token, and later another descriptor, after which the token is refused | `drm_device.c:441` "once and hold it for the life of the process" | `Starts = {{}}` in `Device.cfg` |
| `dri_loader.c:57` | the loader's line overtakes a partial one | `stderr_to_klog.c:63-64` "keeps the order events happened in" | the exception in `LogKeepsOrder` |
| `log.c:54` | a winsys line of 129 to 255 bytes is dropped | `log.c:62-63` "stays well inside that" | `Lengths = {1, 3}` in `Log.cfg` |
| `stderr_to_klog.c:85` | two threads at the last free byte store past the buffer's end | `stderr_to_klog.c:28-29` "bounds memory" | `LineBounded` without `raced` |
| `stderr_to_klog.c:75` | calls that overlap mix their bytes in one line, and a flush can lose one | `stderr_to_klog.c:63-64` "keeps the order events happened in" | `LogKeepsOrder` without `~mixed` |
| `buffers.c:375` | a close that overlaps a CS ioctl unmaps what the drain is walking | `buffers.c:465-466` "keeps that order safe" | `MapsOwned` without `exclusive` |
| `buffers.c:451` | `mmap` and the fence write map one buffer twice if they overlap, and one mapping is never undone | `buffers.c:464` "released when the buffer is closed" | `MapsOwned` without `exclusive` |
| `buffers.c:154` | a new buffer on a closed one's pages inherits its undrained lines, and the walk skips it | `buffers.c:147-148` "carries no CPU writes to drain" | `Drained` with `# "due"` replaced by `\notin {"due", "orphan"}` |
| `buffers.c:154` | a buffer written through its GPU address alone has no `cpu_ptr`, and the walk skips it | `buffers.c:147-148` "carries no CPU writes to drain", against `buffers.c:495-498` "writes to it directly" | `Drained` with `Drainable` true |
| `threads.c:259` | a deadline on the monotonic clock is compared with `CLOCK_REALTIME` and times out at once, though `pthread_condattr_setclock` took the clock | `threads.c:246` "POSIX takes an absolute deadline" | `KeepsDeadline` without `"realtime"` |
| `threads.c:268` | a deadline more than 71 minutes off times out early | the same | `KeepsDeadline` without `MaxUsec` |
| `libc_absent.c:727` | with no free descriptor `stat` says that nothing is there, or that a directory is a file | `libc_absent.c:648` "Irrlicht needs it real" | `ListingResolves` without `fair` |
| `libc_absent.c:724` | a directory whose path leaves no room for `/.` is answered as a file | the same | `ListingResolves` without `Roomy` |
| `libc_absent.c:651` | once the root is repointed `s_cwd` names nothing | the same | `ListingResolves` without `answer.root` |
| `log.c:133` | past 48 marks nothing is recorded; the one-dword NOP ends the walk of its buffer; only the first link of a chain is walked | `oops_winsys.h:193` "records every address" | the marks of `MarksTell` are those that were made |
| `log.c:150` | two packets that name one address give each other's progress | `log.c:105-106` "says whether the CP got that far" | `MarksTell` without `OnlyOne` |
| `submit.c:361` | the next call clears the marks and poisons destinations while buffers of a refused or abandoned call still run; their writes are taken for its own, or are lost | `log.c:141-143` "poisoned first so any write shows" | `MarksTell` without `crossed` |
| `log.c:184` | a `RELEASE_MEM` of the clock is noted like one of a value, and what it wrote need not be the mark's `ref` | `log.c:105-106` "the value there says" | `MarksTell` with `Written` including `"T"` |

Smaller ones are outside the models: a `pthread_mutex_lock` refused at `emutls.c:119`
would let two threads in, and is taken to succeed on a statically initialised mutex;
`localtime_r` keeps the year in an `int`, which holds those within 2^31 of 1900; `usleep`
reads `left` unset if `nanosleep` fails for another reason than an interruption, which its
arguments rule out; and `..` is resolved by the text of a path.

One more comment is only stale: that of `write` in
`src/runtime/stderr_to_klog.c:281-284` says that other descriptors are "reported and
dropped", while lines 290-291 pass them to the platform.

### Bounds

- *Buffers*: two buffers of one or two pages, two retained slots, a two-page budget, three
  addresses, three extents. Three addresses let three one-page ranges compete for two
  slots and two pages, so both limits bind; three extents are more than the cache may
  hold, as direct memory is at the code's 256 MiB. `buffers_prot` has two addresses, which
  is enough for one range to be in the way of another. TLC's instance does not carry the
  argument for ownership: the proof does, for all sizes and any client.
- *Submit*: three calls (one to fail, one to be harmed, one after), chains up to two
  links past a limit of two, two polls, two contexts.
- *Chain*: every pair of buffers of up to two packets over seven packets, plus cut-off
  headers; a depth limit of two, so every chain longer than one meets it. The walk keeps
  no state from one link to the next except the depth and where it is.
- *Tables*: two entries and two callers, so that tables fill and searches meet; one entry
  that creates clash over, and one hang to a context. `Kinds` has the buffers, whose create
  can be refused between its search and its claim, and the contexts, which count hangs;
  buffer lists and syncobjs have the same steps and no other. The proof is for all four.
- *Present*: six frames (each of two images used three times), two flips queued at once, so
  that a display two flips behind and a refused flip both occur.
- *Emutls*: two threads and two variables, four objects; array growth and reuse both occur.
- *Log*: a buffer of three, chunks and a system log of two, six bytes and two threads.
  Lengths keep the order chunk <= log limit < buffer of the code's 96, about 128 and 512
  bytes; a full buffer is more than one chunk.
- *Device*: descriptors 0 to 4: the three standard ones and room for two more.
- *CxaGuard*: three threads; the proof covers any number.
- *CpuMaps*: two buffers of two cache lines, two extents, three addresses, so that a buffer
  is mapped while another is, pages and addresses are reused, and a close falls between two
  lines of a flush.
- *Waits*: two nanoseconds to the microsecond and two microseconds to the second; every
  deadline from the distant past to beyond the cut; two interruptions of one sleep.
- *Files*: three directory levels, a name that is a folder at one and a file at the next;
  the five descriptors of Device, so that streams, device and title run out of them.
- *Env*: two slots and three blocks for three good names: the table fills, and the allocator
  has one block more, as a replacement needs both.
- *Calendar*: the days around new year and the leap day in 24 years from -401 to 9999, each
  day's first and last second, three offsets. The method has a period of 400 years.
- *Marks*: up to two buffers of two packets, two marks, one address the CPU cannot map; one
  buffer left over from an earlier call (`MaxLeft`), so that a refused or abandoned
  submission runs under the next, and one write of each value to each address on its way
  (`MaxFlight`), so that two of different values to one address overtake each other.

`CHECK_DEADLOCK FALSE` is set where a bound on calls or bytes ends a behaviour, or where
a run looks for one violation; the other runs check for deadlock.

### Fairness

- *Submit*: weak fairness of the host's steps (a running thread runs) and of the GPU's
  retirement. The GPU's is not assumed to reach the fence: hanging disables retirement.
  `CallReturns` rests on the bounded poll.
- *Present*: weak fairness of the present call's own steps only; none of the display,
  since the wait is bounded.
- *Chain*: weak fairness of the walk.
- *CxaGuard*: weak fairness of each thread's next step. A thread that spins needs
  the holder to be scheduled and nothing more: once the done byte is set, its next look
  lets it go. Strong fairness of the exchange is not assumed.

## 4. Proofs

TLAPS proves the theorems below for every value of the constants, from the named
assumptions (`...Assumption`) in each module, which say that bounds are numbers, tables
finite or not empty and model values distinct. Where the code is right only under a
condition, the condition is a hypothesis of the theorem and the same one that the runs
use; what happens without it is in *Known edges* or is a finding.

| Theorems | Hypothesis | What is proved |
|---|---|---|
| `BuffersProofs`: `TypeCorrect` | none | tables keep their types, dead entries stay zeroed |
| `BuffersProofs`: `OwnershipHolds` | `"swap" \notin Liberties` | `Ownership`: one owner for each allocated extent |
| `BuffersProofs`: `RetainedBudgetHolds` | none | `RetainedBudget` |
| `BuffersProofs`: `AddressInvariant`, `AddressSpaceHolds`, `CpuSeesWhatGpuSees`, `AddressKeeps` | `Orderly`: no partial and no colliding maps | `AddressSpace`, `CpuSeesGpuPages`, `AddressKeepsPages` |
| `SubmitProofs`: `SubmitTypeCorrect` | none | the type invariant, and no chain past its limit |
| `SubmitProofs`: `SubmitInvariant`, `FencesAreHonest`, `SuccessLeavesIdle`, `GuiltIsStuck`, `SubmitImplementsOrder` | `~LateGpu` | `FencesHonest`, `SuccessMeansIdle`, `GuiltMeansStuck`; the refinement of `RetireOrder` |
| `TablesProofs`: `TablesTypeCorrect` | none | no search leaves its table |
| `TablesProofs`: `TablesInvariant`, `HandlesStayApart`, `ResetAnswersTrue` | none (the properties speak of `Unclashed` and `strays`) | `HandlesApart`, `ResetAnswerTrue` |
| `PresentProofs`: `PresentInvariant`, `ScansOnlyLive`, `LeavesNothing`, `NeverTears`, `TrueIsShown`, `ScreenMovesForward` | none | `ScansLiveImages`, `NothingLeft`, `NoTearing`, `TrueMeansShown`, `NeverBackwards` |
| `TablesProofs`: `MapsInvariant`, `StreamIsDrained`, `MappingsOwned` | none (`MapsOwned` itself speaks of `exclusive`) | `Drained`, `MapsOwned` |
| `ThreadsProofs`: `EmutlsInvariant`, `StorageIsPrivate`, `AddressesStable` | none (the properties speak of `Defined`) | `StoragePrivate`, `AddressStable` |
| `ThreadsProofs`: `WaitsInvariant`, `DeadlinesKept`, `SleepsAreWhole` | none | `KeepsDeadline`, `SleepsWhole` |
| `ThreadsProofs`: `GuardInvariant`, `UseAfterInit`, `InitialisedOnce` | none | `GuardInv`, `UseIsBuilt`, `BuiltOnce` |
| `ChainProofs`: `ChainSentAsRun` | none | `SentAsRun` |
| `LibcProofs`: `DeviceStaysOpen` | `{} \notin Starts`: an eboot or a standard error to take | `StaysOpen` |
| `LibcProofs`: `ListedIsFound` | none (the property speaks of `fair` and `Roomy`) | `ListingResolves` |
| `LibcProofs`: `EnvBlocksHeld`, `EnvReads` | none | `BlocksHeld`, `EnvReadsBack` |
| `LibcProofs`: `LocaltimeIsCivil` | none | `FieldsAreCivil` |
| `DiagProofs`: `LineStaysBounded` | none (the property speaks of `raced`) | `LineBounded` |
| `DiagProofs`: `LogStaysInOrder` | winsys lines of at most `KlogMax` (the property speaks of `mixed`) | `LogKeepsOrder` |
| `DiagProofs`: `MarksAlwaysTell` | none (the property speaks of `OnlyOne` and `crossed`) | `MarksTell` |

Every invariant and every action property that a passing run checks is stated by one of
these theorems.

Each argument is an inductive invariant:

- **Ownership.** `TypeOK /\ Ownership` is inductive. Lemmas say what one release of a
  retained range does (frees the extent it owns, or hands it on), then what a *sequence* of
  evictions does, as a loop whose every state satisfies the invariant, then each ioctl on
  top. Types are needed because ownership of a dead entry is decided by its flag alone, and
  a dead entry names extent 0. The hypothesis on `"swap"` is necessary: `buffers_swap` is
  the counterexample without it.
- **Address space.** `AddressInv` says, address by address, what the tables say of it: it
  is in one buffer's range, in one retained range, or in neither, and the page table holds
  that range's page and protection, or nothing. Stated so, releases and maps need to be
  followed at one address at a time and the evictions in the way of a map are a loop over
  that statement. `CpuOwn` adds that a buffer's CPU mapping is of the buffer's present pages. `"swap"` is
  allowed: it breaks ownership, never translation.
- **Retained budget.** `BudgetInv` adds to `RetainedBudget` that no retained range is empty
  and that no two have one stamp, so that oldest first is an order. The eviction loop is
  followed down that order: each step takes the size of one slot off the count, and it
  ends within the limit or with nothing left but the range being added.
- **Submit.** `FencesHonest` does not survive a step by itself: whether the fence word may
  move depends on what is still queued. `SubmitInv` says that while the GPU runs a fence
  stream is queued only by the call that is polling for it and is last in the queue
  (`OneFence`), that the queue is empty once the word has fired (`Polled`), that the queue
  holds work in the order of the calls, and that numbers have gone to calls whose work is
  off the GPU. After a timeout the GPU is hung and nothing queued can fire: that is what
  `~LateGpu` is needed for, and `submit_late` shows it. The refinement maps each host and
  GPU step to one of `RetireOrder` or a stutter, from the same invariant.
- **Tables.** Between the search and the claim the entry must stay dead and be nobody
  else's to claim. `ClaimsApart` says that so it is for an entry that is not in `clash`, on any
  overlap: a second create that finds it dead puts it there. Owners and live entries then
  correspond one to one, and the hangs of a live context are the failures noted since it was
  handed out (`HangsAreFailures`), unless it was charged for the one before.
- **Present.** `PresentInv` ties the loader's place in bring-up to the objects and images
  that exist, the display's queue to the images it was given, and their contents to the
  order in which frames were drawn. `LastUp`, what the display will show once it has done
  every flip, carries the argument: with two images it is never the image to draw into, so
  that the alternation recovers when a late flip is done. `Ahead` says that no image to be
  scanned again is newer than a copy.
- **CPU mappings.** `MapsInv` says which extent each pointer leads to, that only lines of a live
  buffer are dirty and only those of a mapped one due, how much of the table the drain has done
  (`DrainSoFar`: a due line of a live buffer is *ahead* of the walk), and, when
  ioctls are exclusive, that no other call is half way. `Drained` is proved however the
  threads overlap: the drain walks without a lock, and what it passes is owed no more.
- **Thread-local storage.** An address that a thread was given is in its slot for that
  variable (`GotHeld`), no object is in two slots and none past the count (`SlotsApart`),
  the heap is what the slots hold, and what a thread read of a variable's index without
  the lock is still its index when used. That an index fits its array of slots is a
  counting argument: as many indices are handed out as variables have one.
- **Waits.** The conversion is proved to be off by less than a microsecond for any units:
  the difference of the seconds is exact and C's division rounds that of the nanoseconds
  once. The invariant then carries that bound from the reading of the clock to the end of
  the wait; for a sleep it says that what is left is what was asked, moved back by the time
  spent awake. The code's own units are an instance, which TLC's small ones are not.
- **Static guards.** At most one thread is between the exchange that got it the guard and
  its release, and the two bytes and the object are in step with where that thread is.
  `UseIsBuilt` and `BuiltOnce` do not suffice by themselves: the thread that takes the guard
  *after* it was released must find the done byte on its second look.

- **Chain.** `ChainInv` says that what runs from the first command buffer is what was sent
  followed by what runs from here with the links that are left, and that the walk's index
  is where a packet begins (or past the end, after a cut-off header). The reference and the
  layout of packets are recursive functions; that they exist, and are unique, is proved
  once (`ClimbExists`, `ClimbUnique`) by looking for the least place where they fail, and so
  is that the layout of a buffer begins with that of its first packets (`LaidGrows`).
  A header the walk reads is then the first dword of a packet, and each kind of packet is
  passed whole, cut at, or refused.
- **Device descriptor.** From `.init_array` on the winsys holds a descriptor open on the
  eboot or on standard error, and so is each one it gave out; streams have descriptors of
  their own (`HoldsDevice`). The title never closes what it does not own, so `StaysOpen`
  follows for any number of descriptors. With neither eboot nor standard error it fails:
  *Known edges*.
- **Names.** `ListingInv` says that a question under way is about a path that existed from
  the directory the title is in still, that a fair answer is what the path named, and that
  what `readdir` last gave is one of the directory's entries. Joining the directory and
  the entry's name gives the entry, which is its own canonical form (`CanonicalPlain`).
- **Environment.** `EnvInv` says that the table *is* the map: each slot holds the text of a
  name that is set, and no name has two slots. `EnvReadsBack` alone is not inductive:
  a second slot of one name would be read once the first is unset. That a text matches one
  name only, prefixes included, is a lemma on the texts (`EntryIs`).
- **Calendar.** That the days-to-civil arithmetic is right is proved for every instant, from
  quotients and remainders alone: the era, the year in it and the month come out as those
  of a calendar counted by leap years. It holds for the code's units and for any others in which an
  hour is a whole number of minutes.
- **Log.** `BoundInv` says that until two threads have been between the test and the store
  at once, the one that is there finds room, whatever the others do meanwhile: they flush,
  or test and find it there. `OrderInv`, while no calls have overlapped, says that the log, the line and what is left of
  the calls under way hold every byte written, and that what is left comes after what is
  done. A formatted winsys line may have 255 bytes and the log drops lines past about 128,
  which is why the length is a hypothesis.
- **Marks.** Each mark is of a packet the walk has passed (`FromPacket`), noted before the
  command processor had its buffer, so the poison is in place before the packet can run.
  After that, at an address no earlier write can reach (`crossed`), whatever is on its way
  or has landed is the packet's own, if no other of the submission names it (`Tells`).

Model-checked only: liveness (`CallReturns`, `WalkEnds`, `PresentReturns`,
`EveryoneGetsIn`). The prover has no support for fairness.

## 5. Not modelled

- `device_info.c`, `abi.c`: constant answers and compile-time checks.
- The rest of `libc_absent.c`: stubs that refuse and log, and functions of their arguments.
  `getcwd` copies the modelled working directory.
- The dumps of `log.c`: diagnostics that no other part reads.
- The mutex, condition, key and attribute wrappers of `threads.c` that pass one call on to the
  platform and translate its answer. The one object created on first use is the lock of
  `pthread_once`, which is modelled.
- Two callers inside `oops_winsys_cs`: Mesa's winsys makes that ioctl from the one thread of
  its submission queue.
- The rest of `drm_device.c`'s dispatch: routing of ioctl numbers to the handlers, which
  are the modules' actions, and constant answers of version and capability queries.
- The rest of `cxx_support.cpp`; the patches; the build.
- Mesa, libdrm, the platform's driver, display and kernel are external: they are modelled
  by what the code here relies on, and marked so in `PROJECT.json`.
- A chain packet that is a call (returns to its caller) is read as a tail chain, as the
  code does; `ISSUES.md` records the question.

## 6. Plan

Done: the modules above, in the order Buffers, Submit, Chain, Present, CxaGuard, Emutls,
Tables, Device, Log, then Waits, CpuMaps, Files, Env, Calendar, Marks.

A model still worth having: a composition of Buffers, Submit and Present, in which the
image a flip shows is a buffer the GPU has finished with. Today each assumes what the other
shows. Every invariant of the runs is proved; the liveness properties are beyond the prover.
