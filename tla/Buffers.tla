------------------------------ MODULE Buffers ------------------------------
(***************************************************************************)
(* Buffer objects: src/winsys/buffers.c.                                   *)
(*                                                                         *)
(* The shim answers libdrm's GEM ioctls from a fixed table of buffers.     *)
(* Each buffer is backed by one extent of the platform's direct memory,    *)
(* which GEM_VA maps at the GPU address libdrm chose.  When a buffer       *)
(* leaves an address the range stays mapped, "retained with its pages",    *)
(* so that the next buffer of the same size at that address keeps the      *)
(* translation the GPU may have cached.  The retained ranges are a cache   *)
(* bounded in slots and in bytes, evicted oldest first.                    *)
(*                                                                         *)
(* Sizes and addresses are counted in pages of OOPS_WINSYS_PAGE; byte      *)
(* counts appear only as ioctl arguments.  An ioctl that is refused with   *)
(* nothing changed (a stale handle, a full table, an allocation or a CPU   *)
(* mapping the platform declines) is a stuttering step.                    *)
(***************************************************************************)
EXTENDS Integers, FiniteSets

CONSTANTS
  MaxBo,          \* OOPS_WINSYS_MAX_BO: entries of s_bo
  MaxRetained,    \* OOPS_WINSYS_MAX_RETAINED: entries of s_retained
  RetainedBytes,  \* OOPS_WINSYS_RETAINED_BYTES, in pages
  PageBytes,      \* OOPS_WINSYS_PAGE
  Word,           \* the modulus of uint64_t arithmetic
  MaxPhys,        \* direct-memory extents are named 0 .. MaxPhys; 0 is a valid one
  MaxAddr,        \* GPU addresses libdrm hands out are 1 .. MaxAddr
  ByteCounts,     \* sizes an ioctl may ask for, in bytes
  FlagSets,       \* AMDGPU_VM_PAGE_* combinations GEM_VA may be given
  Liberties       \* what the client does beyond Mesa's own habits, see GemVaMap

ASSUME TableAssumption ==
  /\ MaxBo \in Nat \ {0}
  /\ MaxRetained \in Nat \ {0}
  /\ RetainedBytes \in Nat

ASSUME MemoryAssumption ==
  /\ MaxPhys \in Nat
  /\ MaxAddr \in Nat
  /\ PageBytes \in Nat \ {0}
  /\ Word \in Nat \ {0}
  /\ ByteCounts \subseteq Nat
  /\ FlagSets \subseteq SUBSET {"READABLE", "WRITEABLE"}

ASSUME LibertyAssumption == Liberties \subseteq {"partial", "collide", "swap"}

Handles == 1 .. MaxBo
Slots   == 0 .. MaxRetained - 1
Phys    == 0 .. MaxPhys
Addrs   == 1 .. MaxAddr
Flags   == {"READABLE", "WRITEABLE"}

NoPhys == -1

\* A table entry after memset: the physical offset reads 0, a valid one.
NoBo == [live |-> FALSE, size |-> 0, phys |-> 0, va |-> 0, prot |-> {},
         cpu |-> NoPhys]

NoRange == [used |-> FALSE, owns |-> FALSE, prot |-> {}, va |-> 0, size |-> 0,
            phys |-> 0, seq |-> 0]

NoEntry == [phys |-> NoPhys, page |-> 0, prot |-> {}]

VARIABLES
  bo,     \* s_bo: the buffer table; field cpu is the extent cpu_ptr maps
  ret,    \* s_retained; seq is the rank of the slot's s_retained_seq stamp
  bytes,  \* s_retained_bytes, in pages
  alloc,  \* the platform's direct memory: pages allocated at each extent, 0 if free
  pt      \* the GPU page table: what each address translates to

vars == <<bo, ret, bytes, alloc, pt>>

----------------------------------------------------------------------------
\* Arithmetic and lookups.

\* round_up_page, in pages: the addition wraps at 2^64.
RoundUpPage(n) == ((n + PageBytes - 1) % Word) \div PageBytes

Span(va, n) == va .. va + n - 1

\* The overlap test of the two loops of GEM_VA, as the code writes it.
Overlap(va, n, wa, m) == va < wa + m /\ wa < va + n

\* The protection GEM_VA derives from the flags: none at all means readable.
Prot(flags) == IF flags = {} THEN {"READABLE"} ELSE flags

Live == {h \in Handles : bo[h].live}
Used == {i \in Slots : ret[i].used}

Mapped(h) == bo[h].live /\ bo[h].va # 0

\* The pages of the ranges in the slots of S, each named by its slot and its number;
\* counting them adds the sizes up.
RetainedPages(S) == UNION {{i} \X (1 .. ret[i].size) : i \in S}

SumSizes(S) == Cardinality(RetainedPages(S))

\* What oops_mem_batch_map and oops_mem_unmap do to the page table.
BatchMap(table, va, n, p, prot) ==
  [a \in Addrs |->
    IF a \in Span(va, n) THEN [phys |-> p, page |-> a - va, prot |-> prot]
    ELSE table[a]]

Unmapped(table, S) ==
  [a \in Addrs |->
    IF \E i \in S : a \in Span(ret[i].va, ret[i].size) THEN NoEntry ELSE table[a]]

----------------------------------------------------------------------------
(***************************************************************************)
(* Releasing retained ranges.  The code releases one range at a time; the  *)
(* operators give the outcome of releasing a set of them, in whatever      *)
(* order.  Ownership of an extent is handed to the lowest slot that still  *)
(* maps it, and from there on if that slot is released too, so it ends at  *)
(* the lowest surviving slot; with no survivor the extent is freed once.   *)
(***************************************************************************)

\* A slot that survives the loss of the slots in S, ranked among the survivors.
Survivor(S, i, owns) ==
  [used |-> TRUE, owns |-> owns, prot |-> ret[i].prot, va |-> ret[i].va,
   size |-> ret[i].size, phys |-> ret[i].phys,
   seq |-> Cardinality({j \in Used \ S : ret[j].seq <= ret[i].seq})]

\* retained_drop: the slots in S are cleared, the others keep their order.
Dropped(S) ==
  [i \in Slots |-> IF i \in Used \ S THEN Survivor(S, i, ret[i].owns) ELSE NoRange]

Sharers(S, p) == {i \in Used \ S : ret[i].phys = p}

Orphans(S) == {p \in Phys : \E i \in S : ret[i].owns /\ ret[i].phys = p}

Inherits(S, i) ==
  /\ i \in Used \ S
  /\ ret[i].phys \in Orphans(S)
  /\ \A j \in Sharers(S, ret[i].phys) : i <= j

Released(S) ==
  [i \in Slots |->
    IF i \in Used \ S THEN Survivor(S, i, ret[i].owns \/ Inherits(S, i)) ELSE NoRange]

\* Mutant: pages are freed without looking for another range that maps them.
FreedUnconditionally(S) ==
  [p \in Phys |-> IF p \in Orphans(S) THEN 0 ELSE alloc[p]]

Freed(S) ==
  [p \in Phys |->
    IF p \in Orphans(S) /\ Sharers(S, p) = {} THEN 0 ELSE alloc[p]]

\* Slots from the oldest up whose removal the byte limit asks for.
OverBudget(n) ==
  {i \in Used :
    LET left == bytes - SumSizes({j \in Used : ret[j].seq < ret[i].seq})
    IN  left + n > RetainedBytes /\ left > 0}

Oldest == {i \in Used : \A j \in Used : ret[i].seq <= ret[j].seq}

\* Mutant: the table is only ever pruned when it is out of slots.
EvictedWhenFull(n) == IF Used = Slots THEN Oldest ELSE {}

\* What retain releases before it takes a slot for n pages.
Evicted(n) == IF Used \ OverBudget(n) = Slots THEN Oldest ELSE OverBudget(n)

FreeSlot(S) == CHOOSE i \in Slots \ (Used \ S) :
                 \A j \in Slots \ (Used \ S) : i <= j

Retain(va, n, p, prot, owns) ==
  LET S == Evicted(n)
  IN  /\ ret' = [Released(S) EXCEPT ![FreeSlot(S)] =
                  [used |-> TRUE, owns |-> owns, prot |-> prot, va |-> va,
                   size |-> n, phys |-> p, seq |-> Cardinality(Used \ S) + 1]]
      /\ bytes' = bytes - SumSizes(S) + n
      /\ alloc' = Freed(S)
      /\ pt' = Unmapped(pt, S)

----------------------------------------------------------------------------
\* The ioctls.

\* oops_winsys_gem_create: the first dead entry, over whichever extent the
\* platform hands out.
GemCreate(n, p) ==
  LET h == CHOOSE x \in Handles \ Live : \A y \in Handles \ Live : x <= y
  IN  /\ RoundUpPage(n) # 0
      /\ Live # Handles
      /\ alloc[p] = 0
      /\ alloc' = [alloc EXCEPT ![p] = RoundUpPage(n)]
      /\ bo' = [bo EXCEPT ![h] = [@ EXCEPT !.live = TRUE, !.size = RoundUpPage(n),
                                           !.phys = p, !.va = 0, !.cpu = NoPhys]]
      /\ UNCHANGED <<ret, bytes, pt>>

\* retained_adopt_pages: the first slot that maps the extent becomes its owner.
Adopt(p) ==
  LET i == CHOOSE x \in Sharers({}, p) : \A y \in Sharers({}, p) : x <= y
  IN  /\ Sharers({}, p) # {}
      /\ ret' = [ret EXCEPT ![i].owns = TRUE]
      /\ UNCHANGED <<bytes, alloc, pt>>

FreeDirect(p) ==
  /\ alloc' = [alloc EXCEPT ![p] = 0]
  /\ UNCHANGED <<ret, bytes, pt>>

\* Mutant: the entry is only marked dead, its other fields are left in place.
GemCloseWithoutMemset(h) ==
  /\ h \in Live
  /\ \/ bo[h].va # 0 /\ Retain(bo[h].va, bo[h].size, bo[h].phys, bo[h].prot, TRUE)
     \/ bo[h].va = 0 /\ Adopt(bo[h].phys)
     \/ bo[h].va = 0 /\ Sharers({}, bo[h].phys) = {} /\ FreeDirect(bo[h].phys)
  /\ bo' = [bo EXCEPT ![h].live = FALSE]

\* oops_winsys_gem_close: a mapped range is retained with its pages; otherwise a
\* range still mapping the pages adopts them, and only failing that are they freed.
GemClose(h) ==
  /\ h \in Live
  /\ \/ /\ bo[h].va # 0
        /\ Retain(bo[h].va, bo[h].size, bo[h].phys, bo[h].prot, TRUE)
     \/ /\ bo[h].va = 0
        /\ Adopt(bo[h].phys)
     \/ /\ bo[h].va = 0
        /\ Sharers({}, bo[h].phys) = {}
        /\ FreeDirect(bo[h].phys)
  /\ bo' = [bo EXCEPT ![h] = NoBo]

\* The CPU mapping three callers make on demand; it stays until the buffer closes.
MapDirect(h) ==
  /\ bo[h].cpu = NoPhys
  /\ bo' = [bo EXCEPT ![h].cpu = bo[h].phys]
  /\ UNCHANGED <<ret, bytes, alloc, pt>>

\* The mmap cookie carries the handle; oops_winsys_mmap reads it back.
MmapCookie(h) == h * PageBytes

Mmap(cookie, length) ==
  LET h == cookie \div PageBytes
  IN  /\ h \in Live
      /\ length <= bo[h].size
      /\ MapDirect(h)

\* oops_winsys_bo_cpu_range, from the user fence of a submission.
BoCpuRange(h, offset, n) ==
  /\ h \in Live
  /\ offset <= bo[h].size
  /\ n <= bo[h].size - offset
  /\ MapDirect(h)

\* oops_winsys_cpu_map_va: the first buffer whose range holds the address.
CpuMapVa(a) ==
  LET holders == {h \in Live : bo[h].va # 0 /\ a \in Span(bo[h].va, bo[h].size)}
  IN  \E h \in holders : (\A g \in holders : h <= g) /\ MapDirect(h)

\* oops_winsys_cpu_for_va: the page the CPU reads for a GPU address, if any.
CpuForVa(a) ==
  LET holders == {h \in Live : /\ bo[h].cpu # NoPhys /\ bo[h].va # 0
                               /\ a \in Span(bo[h].va, bo[h].size)}
      h == CHOOSE x \in holders : \A y \in holders : x <= y
  IN  IF holders = {} THEN <<NoPhys, 0>> ELSE <<bo[h].cpu, a - bo[h].va>>

----------------------------------------------------------------------------
(***************************************************************************)
(* GEM_VA.  The code takes any request; Liberties says what the client     *)
(* (libdrm's address manager under Mesa) allows itself:                    *)
(*   "partial" - a map of fewer bytes than the buffer holds;               *)
(*   "collide" - a map over another live buffer's range, or of a buffer    *)
(*               that is mapped already (the code logs and goes on);       *)
(*   "swap"    - a map onto a closed buffer's range by a buffer whose own  *)
(*               pages are still retained at some other address.           *)
(* Without them a buffer is mapped whole, at free addresses, once at a     *)
(* time, which is what radeonsi's winsys does.                             *)
(***************************************************************************)
MapSize(h, n) == IF n = 0 THEN bo[h].size ELSE RoundUpPage(n)

Permitted(h, va, n) ==
  /\ "partial" \in Liberties \/ n = bo[h].size
  /\ "collide" \in Liberties \/
       /\ bo[h].va = 0
       /\ \A g \in Live : bo[g].va # 0 => Span(va, n) \cap Span(bo[g].va, bo[g].size) = {}

SwapPermitted(h) == "swap" \in Liberties \/ Sharers({}, bo[h].phys) = {}

\* Mutant: the protection of the retained range is not compared.
MatchesAnyProt(va, n, prot) == {i \in Used : ret[i].va = va /\ ret[i].size = n}

\* Slots holding exactly the range asked for, with the protection asked for.
Matches(va, n, prot) ==
  {i \in Used : ret[i].va = va /\ ret[i].size = n /\ ret[i].prot = prot}

OwnPages(h, i)  == ret[i].phys = bo[h].phys

\* Mutant: the buffer's CPU mapping is not asked about before its pages are swapped.
TakesOverMapped(h, i, n) == ret[i].owns /\ bo[h].size = n

TakesOver(h, i, n) == ret[i].owns /\ bo[h].cpu = NoPhys /\ bo[h].size = n

\* Mutant: only a buffer coming back to its own pages keeps them.
KeepableOwnOnly(h, va, n, prot) == {i \in Matches(va, n, prot) : OwnPages(h, i)}

\* The slots whose pages the buffer can keep; the loop stops at the first.
Keepable(h, va, n, prot) ==
  {i \in Matches(va, n, prot) : OwnPages(h, i) \/ TakesOver(h, i, n)}

FirstKeepable(h, va, n, prot, i) ==
  /\ i \in Keepable(h, va, n, prot)
  /\ \A j \in Keepable(h, va, n, prot) : i <= j

\* The buffer returns to its own pages, still mapped there.
MapOwn(h, va, n, prot) ==
  \E i \in Slots :
    /\ FirstKeepable(h, va, n, prot, i)
    /\ OwnPages(h, i)
    /\ ret' = Dropped({i})
    /\ bytes' = bytes - ret[i].size
    /\ bo' = [bo EXCEPT ![h].va = va, ![h].prot = prot]
    /\ UNCHANGED <<alloc, pt>>

\* The buffer takes over a closed buffer's pages; its own fresh ones go back.
MapTakeOver(h, va, n, prot) ==
  \E i \in Slots :
    /\ FirstKeepable(h, va, n, prot, i)
    /\ ~OwnPages(h, i)
    /\ SwapPermitted(h)
    /\ alloc' = [alloc EXCEPT ![bo[h].phys] = 0]
    /\ ret' = Dropped({i})
    /\ bytes' = bytes - ret[i].size
    /\ bo' = [bo EXCEPT ![h].va = va, ![h].prot = prot, ![h].phys = ret[i].phys]
    /\ UNCHANGED pt

\* Mutant: a range that only partly overlaps the new one is left in the table.
OverlappingAtBase(va, n) == {i \in Used : ret[i].va = va}

Overlapping(va, n) == {i \in Used : Overlap(va, n, ret[i].va, ret[i].size)}

\* Every retained range in the way is released, then the buffer is mapped; the
\* platform may refuse, and what was released stays released.
MapAfresh(h, va, n, prot) ==
  LET S == Overlapping(va, n)
  IN  /\ Keepable(h, va, n, prot) = {}
      /\ ret' = Released(S)
      /\ bytes' = bytes - SumSizes(S)
      /\ alloc' = Freed(S)
      /\ \/ /\ pt' = BatchMap(Unmapped(pt, S), va, n, bo[h].phys, prot)
            /\ bo' = [bo EXCEPT ![h].va = va, ![h].prot = prot]
         \/ /\ pt' = Unmapped(pt, S)
            /\ UNCHANGED bo

\* oops_winsys_gem_va, AMDGPU_VA_OP_MAP.
GemVaMap(h, va, asked, flags) ==
  LET n == MapSize(h, asked)
  IN  /\ h \in Live
      /\ n <= bo[h].size
      /\ Span(va, n) \subseteq Addrs
      /\ Permitted(h, va, n)
      /\ \/ MapOwn(h, va, n, Prot(flags))
         \/ MapTakeOver(h, va, n, Prot(flags))
         \/ MapAfresh(h, va, n, Prot(flags))

\* oops_winsys_gem_va, AMDGPU_VA_OP_UNMAP.
GemVaUnmap(h) ==
  /\ h \in Live
  /\ bo[h].va # 0
  /\ Retain(bo[h].va, bo[h].size, bo[h].phys, bo[h].prot, FALSE)
  /\ bo' = [bo EXCEPT ![h].va = 0]

----------------------------------------------------------------------------
Init ==
  /\ bo = [h \in Handles |-> NoBo]
  /\ ret = [i \in Slots |-> NoRange]
  /\ bytes = 0
  /\ alloc = [p \in Phys |-> 0]
  /\ pt = [a \in Addrs |-> NoEntry]

Next ==
  \/ \E n \in ByteCounts, p \in Phys : GemCreate(n, p)
  \/ \E h \in Handles : GemClose(h)
  \/ \E h \in Handles, n \in ByteCounts : Mmap(MmapCookie(h), RoundUpPage(n))
  \/ \E h \in Handles, k \in ByteCounts : BoCpuRange(h, RoundUpPage(k), 1)
  \/ \E a \in Addrs : CpuMapVa(a)
  \/ \E h \in Handles, va \in Addrs, n \in ByteCounts, flags \in FlagSets :
       GemVaMap(h, va, n, flags)
  \/ \E h \in Handles : GemVaUnmap(h)

Spec == Init /\ [][Next]_vars

----------------------------------------------------------------------------
\* Properties.

BoRecord == [live : BOOLEAN, size : Nat, phys : Phys, va : Nat,
             prot : SUBSET Flags, cpu : Phys \cup {NoPhys}]

RangeRecord == [used : BOOLEAN, owns : BOOLEAN, prot : SUBSET Flags, va : Nat,
                size : Nat, phys : Phys, seq : Nat]

Entry == [phys : Phys \cup {NoPhys}, page : Nat, prot : SUBSET Flags]

\* Every table of buffers.c holds values of its declared kind, and a dead buffer or
\* an unused slot is all zeros, as memset leaves it (bytes: see RetainedBudget).
TypeOK ==
  /\ bo \in [Handles -> BoRecord]
  /\ ret \in [Slots -> RangeRecord]
  /\ alloc \in [Phys -> Nat]
  /\ pt \in [Addrs -> Entry]
  /\ \A h \in Handles : ~bo[h].live => bo[h] = NoBo
  /\ \A i \in Slots : ~ret[i].used => ret[i] = NoRange

\* Two live buffers never share an extent, and a live buffer's extent is allocated.
BuffersApart ==
  /\ \A h \in Live : alloc[bo[h].phys] = bo[h].size /\ bo[h].size > 0
  /\ \A g, h \in Live : bo[g].phys = bo[h].phys => g = h

\* A slot that owns its pages is their only owner: no live buffer has them and no
\* other slot will free them.
OwnersApart ==
  \A i \in Used : ret[i].owns =>
    /\ \A h \in Live : bo[h].phys # ret[i].phys
    /\ \A j \in Used : ret[j].owns /\ ret[j].phys = ret[i].phys => i = j

\* A retained range never maps pages that were given back: its extent is allocated,
\* with the range's size, so a later free gives back exactly what was allocated.
RetainedPagesHeld == \A i \in Used : alloc[ret[i].phys] = ret[i].size /\ ret[i].size > 0

\* Every allocated extent has someone who will free it: nothing leaks.
NothingLeaks ==
  \A p \in Phys : alloc[p] # 0 =>
    \/ \E h \in Live : bo[h].phys = p
    \/ \E i \in Used : ret[i].owns /\ ret[i].phys = p

\* Direct memory is accounted for: one owner per extent, never two, never none.
Ownership == BuffersApart /\ OwnersApart /\ RetainedPagesHeld /\ NothingLeaks

\* The ranges of mapped buffers and of retained slots never overlap.
RangesDisjoint ==
  /\ \A g, h \in Live : g # h /\ bo[g].va # 0 /\ bo[h].va # 0 =>
       Span(bo[g].va, bo[g].size) \cap Span(bo[h].va, bo[h].size) = {}
  /\ \A i, j \in Used : i # j =>
       Span(ret[i].va, ret[i].size) \cap Span(ret[j].va, ret[j].size) = {}
  /\ \A h \in Live, i \in Used : bo[h].va # 0 =>
       Span(bo[h].va, bo[h].size) \cap Span(ret[i].va, ret[i].size) = {}

\* The address GEM_VA recorded for a live buffer translates, page by page, to that
\* buffer's own memory with the protection asked for.
BuffersTranslated ==
  \A h \in Live : bo[h].va # 0 =>
    \A a \in Span(bo[h].va, bo[h].size) :
      pt[a] = [phys |-> bo[h].phys, page |-> a - bo[h].va, prot |-> bo[h].prot]

\* A retained range is still mapped to the pages it claims.
RetainedTranslated ==
  \A i \in Used : \A a \in Span(ret[i].va, ret[i].size) :
    pt[a] = [phys |-> ret[i].phys, page |-> a - ret[i].va, prot |-> ret[i].prot]

\* No address translates to anything once nobody keeps it: the GPU cannot reach
\* memory that was freed or belongs to somebody else.
NoStrayTranslation ==
  \A a \in Addrs : pt[a] # NoEntry =>
    \/ \E h \in Live : bo[h].va # 0 /\ a \in Span(bo[h].va, bo[h].size)
    \/ \E i \in Used : a \in Span(ret[i].va, ret[i].size)

\* The GPU address space is exactly what the two tables say it is.
AddressSpace ==
  RangesDisjoint /\ BuffersTranslated /\ RetainedTranslated /\ NoStrayTranslation

\* Where the CPU also sees a GPU address (cpu_for_va), it sees the page the GPU does.
CpuSeesGpuPages ==
  \A a \in Addrs : CpuForVa(a) # <<NoPhys, 0>> =>
    CpuForVa(a) = <<pt[a].phys, pt[a].page>>

\* s_retained_bytes is the size of what is retained, so the eviction loop of retain
\* ends; and it exceeds the limit only while one oversized range is all there is.
RetainedBudget ==
  /\ bytes = SumSizes(Used)
  /\ bytes > RetainedBytes => Cardinality(Used) = 1

\* A GPU address keeps the pages it maps: a translation is replaced by another one
\* in a single step only when the retained range could not have been kept.
SwapIsForced ==
  \A a \in Addrs :
    pt[a] # NoEntry /\ pt'[a] # NoEntry /\ pt'[a] # pt[a] =>
      \E h \in Handles, i \in Used :
        /\ bo'[h].va # 0 /\ bo'[h].va # bo[h].va
        /\ a \in Span(ret[i].va, ret[i].size)
        /\ \/ <<ret[i].va, ret[i].size, ret[i].prot>> # <<bo'[h].va, bo[h].size, bo'[h].prot>>
           \/ ~ret[i].owns
           \/ bo[h].cpu # NoPhys

AddressKeepsPages == [][SwapIsForced]_vars

\* A buffer that keeps a retained range's pages finds all of them mapped already:
\* a map that leaves the page table alone leaves the whole buffer translated.
KeptPagesAreMapped ==
  \A h \in Handles :
    bo'[h].va \notin {0, bo[h].va} /\ Used' # Used /\ pt' = pt =>
      \A a \in Span(bo'[h].va, bo'[h].size) :
        pt[a].phys = bo'[h].phys /\ pt[a].page = a - bo'[h].va

TakeOverIsMapped == [][KeptPagesAreMapped]_vars

============================================================================
