------------------------------ MODULE CpuMaps -------------------------------
(***************************************************************************)
(* CPU mappings of buffers and the drain before a submission:              *)
(* oops_winsys_mmap, munmap, bo_cpu_range, flush_cpu_writes and gem_close  *)
(* of src/winsys/buffers.c, as oops_winsys_cs (src/winsys/submit.c) uses   *)
(* them.                                                                   *)
(*                                                                         *)
(* Buffers are cached write-back, so what the CPU stored, through the      *)
(* mmap pointer or straight through the GPU address, is in its cache until *)
(* clflush drains it.  The submission thread walks the table and flushes   *)
(* every buffer that has a CPU mapping line by line, while the title's     *)
(* thread writes, maps and closes.  The table has no lock.                 *)
(***************************************************************************)
EXTENDS Naturals, FiniteSets

CONSTANTS
  MaxBo,     \* entries of s_bo: 1 .. MaxBo
  Extents,   \* runs of physical pages, one buffer long
  Sizes,     \* sizes of buffers, in cache lines
  MaxMaps    \* bound: addresses the platform maps at

ASSUME CpuMapsAssumption ==
  /\ MaxBo \in Nat \ {0} /\ MaxMaps \in Nat
  /\ Sizes \subseteq Nat \ {0} /\ IsFiniteSet(Sizes)
  /\ "none" \notin Extents

Bos       == 1 .. MaxBo
Addresses == 1 .. MaxMaps
Lines     == UNION {0 .. n - 1 : n \in Sizes}
NoBuffer  == [live |-> FALSE, phys |-> "none", cpu |-> 0, size |-> 0]

VARIABLES
  exclusive,  \* ioctls are entered one at a time in this behaviour
  bo,         \* s_bo: live, phys, cpu_ptr and size
  maps,       \* the pages mapped at each address, "none" if nothing is
  cache,      \* each line of each extent: "clean", "dirty" if the CPU holds a store,
              \* "due" if it held one when the CS ioctl under way began, with its
              \* buffer mapped then, "orphan" if that buffer has been closed
  ptr,        \* the pointer the title has to each buffer, 0 if none
  app,        \* where the title's thread is: <<"idle">>, <<"mapping", i>>, <<"closing", i>>
  cs,         \* where the submission thread is
  fault       \* an unmapped page was touched

mapsVars == <<exclusive, bo, maps, cache, ptr, app, cs, fault>>

AppIdle == app = <<"idle">>
CsIdle  == cs = <<"idle">>

\* Whether the title's thread, or the submission thread, may enter an ioctl.
AppEnters == AppIdle /\ (exclusive => CsIdle)
CsEnters  == CsIdle /\ (exclusive => AppIdle)

\* Where the platform maps next: the lowest address with nothing at it, so that an
\* address is reused as soon as it can be.
Unmapped == {a \in Addresses : maps[a] = "none"}
NextAddress == {a \in Unmapped : \A b \in Unmapped : a <= b}

----------------------------------------------------------------------------
\* The title's thread.

\* oops_winsys_gem_create: the first dead entry, and pages nobody has.
GemCreate(i, e, n) ==
  /\ AppEnters
  /\ ~bo[i].live /\ \A j \in Bos : j < i => bo[j].live
  /\ \A j \in Bos : bo[j].phys # e
  /\ bo' = [bo EXCEPT ![i] = [live |-> TRUE, phys |-> e, cpu |-> 0, size |-> n]]
  /\ UNCHANGED <<exclusive, maps, cache, ptr, app, cs, fault>>

\* The test in oops_winsys_mmap and in oops_winsys_bo_cpu_range.
NeedsMap(i) == bo[i].cpu = 0

\* oops_winsys_mmap, up to the platform's call ...
Mmap(i) ==
  /\ AppEnters
  /\ bo[i].live
  /\ IF NeedsMap(i)
     THEN app' = <<"mapping", i>> /\ UNCHANGED ptr
     ELSE ptr' = [ptr EXCEPT ![i] = bo[i].cpu] /\ UNCHANGED app
  /\ UNCHANGED <<exclusive, bo, maps, cache, cs, fault>>

\* Map buffer i at address a, and note it in the entry.
MapAt(i, a) ==
  /\ maps' = [maps EXCEPT ![a] = bo[i].phys]
  /\ bo' = [bo EXCEPT ![i].cpu = a]

\* ... and after it.
MmapMap(a) ==
  /\ app[1] = "mapping"
  /\ a \in NextAddress
  /\ MapAt(app[2], a)
  /\ ptr' = [ptr EXCEPT ![app[2]] = a]
  /\ app' = <<"idle">>
  /\ UNCHANGED <<exclusive, cache, cs, fault>>

MmapRefused ==
  /\ app[1] = "mapping"
  /\ app' = <<"idle">>
  /\ UNCHANGED <<exclusive, bo, maps, cache, ptr, cs, fault>>

\* A line once stored to: what the drain owes of it, it still owes.
Stored(line) == IF line = "due" THEN "due" ELSE "dirty"

\* The cache after a store to line n of pages e; there are none at an unmapped address.
AfterStore(e, n) ==
  IF e = "none" THEN cache ELSE [cache EXCEPT ![e][n] = Stored(cache[e][n])]

\* A store through the pointer mmap returned, at any moment.
Write(i, n) ==
  /\ AppIdle
  /\ ptr[i] # 0 /\ n < bo[i].size
  /\ cache' = AfterStore(maps[ptr[i]], n)
  /\ fault' = (fault \/ maps[ptr[i]] = "none")
  /\ UNCHANGED <<exclusive, bo, maps, ptr, app, cs>>

\* A store through the address GEM_VA gave the GPU, which the CPU may write too: the
\* buffer needs no CPU mapping of its own for it.
WriteAtVa(i, n) ==
  /\ AppIdle
  /\ bo[i].live /\ n < bo[i].size
  /\ cache' = AfterStore(bo[i].phys, n)
  /\ UNCHANGED <<exclusive, bo, maps, ptr, app, cs, fault>>

\* Mutant: the mapping goes, and the entry still points at it.
MapsAfterMunmapGone(i) == [maps EXCEPT ![ptr[i]] = "none"]

\* oops_winsys_munmap leaves the mapping to the buffer.
MapsAfterMunmap(i) == maps

Munmap(i) ==
  /\ AppIdle
  /\ ptr[i] # 0
  /\ maps' = MapsAfterMunmap(i)
  /\ ptr' = [ptr EXCEPT ![i] = 0]
  /\ UNCHANGED <<exclusive, bo, cache, app, cs, fault>>

\* Mesa keeps a reference to the buffer of a submission's user fence.
Fencing(i) == cs[1] \in {"fence", "fence map", "store"} /\ cs[2] = i

\* oops_winsys_gem_close: the CPU mapping goes first ...
GemClose(i) ==
  /\ AppEnters
  /\ bo[i].live /\ ~Fencing(i)
  /\ maps' = IF bo[i].cpu # 0 THEN [maps EXCEPT ![bo[i].cpu] = "none"] ELSE maps
  /\ app' = <<"closing", i>>
  /\ UNCHANGED <<exclusive, bo, cache, ptr, cs, fault>>

\* ... then the pages, which another buffer may get as they are, and then the entry.
GemCloseClear ==
  /\ app[1] = "closing"
  /\ cache' = [cache EXCEPT ![bo[app[2]].phys] =
                [n \in Lines |-> IF @[n] = "clean" THEN "clean" ELSE "orphan"]]
  /\ bo' = [bo EXCEPT ![app[2]] = NoBuffer]
  /\ ptr' = [ptr EXCEPT ![app[2]] = 0]
  /\ app' = <<"idle">>
  /\ UNCHANGED <<exclusive, maps, cs, fault>>

----------------------------------------------------------------------------
\* The submission thread, in oops_winsys_cs.

\* Where the walk goes after entry i.
Onward(i) == IF i + 1 \in Bos THEN <<"walk", i + 1>> ELSE <<"submit">>

\* Pages e are those of a buffer with a CPU mapping.
Drainable(e) == \E i \in Bos : bo[i].live /\ bo[i].phys = e /\ bo[i].cpu # 0

\* What the drain owes from here on.
CsBegin ==
  /\ CsEnters
  /\ cs' = <<"walk", 1>>
  /\ cache' = [e \in Extents |-> [n \in Lines |->
       IF cache[e][n] = "dirty" /\ Drainable(e) THEN "due" ELSE cache[e][n]]]
  /\ UNCHANGED <<exclusive, bo, maps, ptr, app, fault>>

\* Mutant: the walk stops at the first entry with nothing to flush.
SkipStops(i) == <<"submit">>

Skip(i) == Onward(i)

\* The entry is looked at once, and its pointer kept.
CsWalk ==
  LET i == cs[2]
  IN  /\ cs[1] = "walk"
      /\ cs' = IF bo[i].live /\ bo[i].cpu # 0 THEN <<"flush", i, bo[i].cpu, 0>> ELSE Skip(i)
      /\ UNCHANGED <<exclusive, bo, maps, cache, ptr, app, fault>>

\* clflush of one line, through the pointer as it was; the size is read every time.
CsFlush ==
  LET i == cs[2]
      a == cs[3]
      n == cs[4]
  IN  /\ cs[1] = "flush"
      /\ cs' = IF n < bo[i].size THEN <<"flush", i, a, n + 1>> ELSE Onward(i)
      /\ IF n < bo[i].size /\ maps[a] # "none"
         THEN cache' = [cache EXCEPT ![maps[a]][n] = "clean"]
         ELSE UNCHANGED cache
      /\ fault' = (fault \/ (n < bo[i].size /\ maps[a] = "none"))
      /\ UNCHANGED <<exclusive, bo, maps, ptr, app>>

\* The stream has been submitted and has retired.  Its user fence, if it has one, is in a
\* buffer.
CsRetired ==
  /\ cs[1] = "submit"
  /\ cs' \in {<<"idle">>} \cup
       {<<"fence", i>> : i \in {j \in Bos : bo[j].live /\ app # <<"closing", j>>}}
  /\ UNCHANGED <<exclusive, bo, maps, cache, ptr, app, fault>>

\* oops_winsys_bo_cpu_range of the fence buffer, up to the platform's call.
CsFence ==
  /\ cs[1] = "fence"
  /\ cs' = CASE ~bo[cs[2]].live                   -> <<"idle">>
             [] bo[cs[2]].live /\ NeedsMap(cs[2]) -> <<"fence map", cs[2]>>
             [] OTHER                             -> <<"store", cs[2], bo[cs[2]].cpu>>
  /\ UNCHANGED <<exclusive, bo, maps, cache, ptr, app, fault>>

\* An entry cleared meanwhile has no bytes to map, which the platform refuses.
CsFenceMap(a) ==
  /\ cs[1] = "fence map"
  /\ a \in NextAddress /\ bo[cs[2]].size > 0
  /\ MapAt(cs[2], a)
  /\ cs' = <<"store", cs[2], a>>
  /\ UNCHANGED <<exclusive, cache, ptr, app, fault>>

CsFenceRefused ==
  /\ cs[1] = "fence map"
  /\ cs' = <<"idle">>
  /\ UNCHANGED <<exclusive, bo, maps, cache, ptr, app, fault>>

\* The sequence number is written.
CsStore ==
  /\ cs[1] = "store"
  /\ cache' = AfterStore(maps[cs[3]], 0)
  /\ fault' = (fault \/ maps[cs[3]] = "none")
  /\ cs' = <<"idle">>
  /\ UNCHANGED <<exclusive, bo, maps, ptr, app>>

----------------------------------------------------------------------------
MapsInit ==
  /\ exclusive \in BOOLEAN
  /\ bo = [i \in Bos |-> NoBuffer]
  /\ maps = [a \in Addresses |-> "none"]
  /\ cache = [e \in Extents |-> [n \in Lines |-> "clean"]]
  /\ ptr = [i \in Bos |-> 0]
  /\ app = <<"idle">>
  /\ cs = <<"idle">>
  /\ fault = FALSE

\* The threads while nothing has faulted.
Running ==
  \/ \E i \in Bos, e \in Extents, n \in Sizes : GemCreate(i, e, n)
  \/ \E i \in Bos : Mmap(i) \/ Munmap(i) \/ GemClose(i)
  \/ \E i \in Bos, n \in Lines : Write(i, n) \/ WriteAtVa(i, n)
  \/ \E a \in Addresses : MmapMap(a) \/ CsFenceMap(a)
  \/ MmapRefused \/ GemCloseClear
  \/ CsBegin \/ CsWalk \/ CsFlush
  \/ CsRetired \/ CsFence \/ CsFenceRefused \/ CsStore

\* A thread that touched an unmapped page has taken the title with it.
Gone == fault /\ UNCHANGED mapsVars

MapsNext == (~fault /\ Running) \/ Gone

MapsSpec == MapsInit /\ [][MapsNext]_mapsVars

----------------------------------------------------------------------------
\* Properties.

\* When ioctls do not overlap, a mapping lives as long as its buffer.  An address is
\* mapped exactly while one live buffer's cpu_ptr is it, and maps that buffer's pages:
\* nothing is mapped twice or left behind.  So neither the drain nor the fence write nor
\* the title ever touches an unmapped page, though libdrm unmaps before it closes.
MapsOwned ==
  exclusive =>
    /\ ~fault
    /\ AppIdle /\ CsIdle => \A a \in Addresses :
         /\ Cardinality({i \in Bos : bo[i].cpu = a}) <= 1
         /\ maps[a] # "none" <=>
              \E i \in Bos : bo[i].live /\ bo[i].cpu = a /\ bo[i].phys = maps[a]

\* When a stream reaches the GPU, whatever the threads did meanwhile, every store made
\* before the CS ioctl began is in memory, by either address, if its buffer had a CPU
\* mapping then, is live and is not being closed.  A buffer written through its GPU
\* address alone is the exception: the walk passes over it.
Drained ==
  cs[1] = "submit" =>
    \A i \in Bos, n \in Lines :
      bo[i].live /\ app # <<"closing", i>> => cache[bo[i].phys][n] # "due"

============================================================================
