--------------------------- MODULE BuffersProofs ----------------------------
(***************************************************************************)
(* Proofs about Buffers, for every table size, byte limit, address range   *)
(* and set of requests. First what every step keeps of the table of buffer *)
(* objects and of the retained ranges; then that every address range has   *)
(* one holder and no free address is lost, which the moves of the free     *)
(* list need together; last the byte limit of the retained ranges.         *)
(***************************************************************************)
EXTENDS Buffers, FiniteSetTheorems, WellFoundedInduction, TLAPS

----------------------------------------------------------------------------
\* Least elements and ranks.

\* A non-empty set of naturals has a least element, so the "first free entry"
\* searches of buffers.c find one whenever there is one.
LEMMA LeastNatural ==
  ASSUME NEW T \in SUBSET Nat, T # {}
  PROVE  \E m \in T : \A k \in T : m <= k
<1>1. IsWellFoundedOn(OpToRel(<, Nat), Nat)
  BY NatLessThanWellFounded
<1>2. PICK x \in T : \A y \in T : ~ (<<y, x>> \in OpToRel(<, Nat))
  BY <1>1, WFMin, Zenon
<1>3. \A y \in T : ~ (y < x)
  BY <1>2 DEF OpToRel
<1>4. QED
  BY <1>3

\* The rank given to a surviving slot is a natural number.
LEMMA RankType ==
  ASSUME NEW T \in SUBSET Slots
  PROVE  Cardinality(T) \in Nat
<1>1. IsFiniteSet(Slots)
  BY TableAssumption, FS_Interval DEF Slots
<1>2. QED
  BY <1>1, FS_Subset, FS_CardinalityType

\* There is a slot to take after an eviction: retain's inner loop ends.
LEMMA FreeSlotExists ==
  ASSUME NEW S \in SUBSET Used, Used \ S # Slots
  PROVE  FreeSlot(S) \in Slots \ (Used \ S)
<1> DEFINE T == Slots \ (Used \ S)
<1>1. T \in SUBSET Nat
  BY TableAssumption DEF Slots
<1>2. T # {}
  BY DEF Used
<1>3. \E m \in T : \A k \in T : m <= k
  BY <1>1, <1>2, LeastNatural
<1>4. QED
  BY <1>3 DEF FreeSlot

\* The oldest slot exists when any slot is used.
LEMMA OldestExists ==
  ASSUME TypeOK, Used # {}
  PROVE  Oldest # {}
<1> DEFINE T == {ret[i].seq : i \in Used}
<1>1. T \in SUBSET Nat
  BY DEF TypeOK, Used, RangeRecord
<1>2. PICK m \in T : \A k \in T : m <= k
  BY <1>1, LeastNatural
<1>3. PICK i \in Used : ret[i].seq = m
  BY <1>2
<1>4. i \in Oldest
  BY <1>2, <1>3 DEF Oldest
<1>5. QED
  BY <1>4

\* Whatever is evicted was in use, and leaves a free slot behind.
LEMMA EvictedFacts ==
  ASSUME TypeOK, NEW n \in Nat
  PROVE  /\ Evicted(n) \in SUBSET Used
         /\ FreeSlot(Evicted(n)) \in Slots \ (Used \ Evicted(n))
<1>1. Evicted(n) \in SUBSET Used
  BY DEF Evicted, Oldest, OverBudget
<1>2. Used \ Evicted(n) # Slots
  <2>1. CASE Used \ OverBudget(n) = Slots
    <3>1. Used = Slots /\ Used # {}
      BY <2>1, TableAssumption DEF Used, Slots
    <3>2. Oldest # {} /\ Oldest \subseteq Used
      BY <3>1, OldestExists DEF Oldest
    <3>3. Evicted(n) = Oldest
      BY <2>1 DEF Evicted
    <3>4. QED
      BY <3>1, <3>2, <3>3
  <2>2. CASE Used \ OverBudget(n) # Slots
    BY <2>2 DEF Evicted
  <2>3. QED
    BY <2>1, <2>2
<1>3. QED
  BY <1>1, <1>2, FreeSlotExists

----------------------------------------------------------------------------
\* What releasing a set of slots leaves behind.

\* Dropping slots keeps every field of the others, ranks apart.
LEMMA DroppedFacts ==
  ASSUME TypeOK, NEW S \in SUBSET Used
  PROVE  /\ Dropped(S) \in [Slots -> RangeRecord]
         /\ \A i \in Slots : i \notin Used \ S => Dropped(S)[i] = NoRange
         /\ \A i \in Used \ S :
              /\ Dropped(S)[i].used
              /\ Dropped(S)[i].owns = ret[i].owns
              /\ Dropped(S)[i].prot = ret[i].prot
              /\ Dropped(S)[i].va = ret[i].va
              /\ Dropped(S)[i].size = ret[i].size
              /\ Dropped(S)[i].phys = ret[i].phys
<1>1. \A i \in Used \ S : Survivor(S, i, ret[i].owns) \in RangeRecord
  <2> SUFFICES ASSUME NEW i \in Used \ S
               PROVE  Survivor(S, i, ret[i].owns) \in RangeRecord
    OBVIOUS
  <2>1. Cardinality({j \in Used \ S : ret[j].seq <= ret[i].seq}) \in Nat
    BY RankType DEF Used
  <2>2. QED
    BY <2>1 DEF Survivor, RangeRecord, TypeOK, Used
<1>2. NoRange \in RangeRecord
  BY MemoryAssumption DEF NoRange, RangeRecord, Phys
<1>3. Dropped(S) \in [Slots -> RangeRecord]
  BY <1>1, <1>2 DEF Dropped
<1>4. QED
  BY <1>3 DEF Dropped, Survivor, Used

\* Releasing slots keeps every field of the others except that one sharer of each
\* orphaned extent becomes its owner.
LEMMA ReleasedFacts ==
  ASSUME TypeOK, NEW S \in SUBSET Used
  PROVE  /\ Released(S) \in [Slots -> RangeRecord]
         /\ \A i \in Slots : i \notin Used \ S => Released(S)[i] = NoRange
         /\ \A i \in Used \ S :
              /\ Released(S)[i].used
              /\ Released(S)[i].owns = (ret[i].owns \/ Inherits(S, i))
              /\ Released(S)[i].prot = ret[i].prot
              /\ Released(S)[i].va = ret[i].va
              /\ Released(S)[i].size = ret[i].size
              /\ Released(S)[i].phys = ret[i].phys
<1>1. \A i \in Used \ S : Survivor(S, i, ret[i].owns \/ Inherits(S, i)) \in RangeRecord
  <2> SUFFICES ASSUME NEW i \in Used \ S
               PROVE  Survivor(S, i, ret[i].owns \/ Inherits(S, i)) \in RangeRecord
    OBVIOUS
  <2>1. Cardinality({j \in Used \ S : ret[j].seq <= ret[i].seq}) \in Nat
    BY RankType DEF Used
  <2>2. (ret[i].owns \/ Inherits(S, i)) \in BOOLEAN
    OBVIOUS
  <2>3. QED
    BY <2>1, <2>2 DEF Survivor, RangeRecord, TypeOK, Used
<1>2. NoRange \in RangeRecord
  BY MemoryAssumption DEF NoRange, RangeRecord, Phys
<1>3. Released(S) \in [Slots -> RangeRecord]
  BY <1>1, <1>2 DEF Released
<1>4. QED
  BY <1>3 DEF Released, Survivor, Used

\* An orphaned extent that some slot still maps has exactly one heir.
LEMMA HeirExists ==
  ASSUME TypeOK, NEW S \in SUBSET Used, NEW p \in Orphans(S), Sharers(S, p) # {}
  PROVE  /\ \E i \in Used \ S : ret[i].phys = p /\ Inherits(S, i)
         /\ \A i, j \in Used \ S :
              (ret[i].phys = p /\ Inherits(S, i) /\ ret[j].phys = p /\ Inherits(S, j))
                => i = j
<1>1. Sharers(S, p) \in SUBSET Nat
  BY TableAssumption DEF Sharers, Used, Slots
<1>2. PICK i \in Sharers(S, p) : \A k \in Sharers(S, p) : i <= k
  BY <1>1, LeastNatural
<1>3. i \in Used \ S /\ ret[i].phys = p /\ Inherits(S, i)
  BY <1>2 DEF Sharers, Inherits
<1>4. ASSUME NEW k \in Used \ S, NEW j \in Used \ S,
             ret[k].phys = p, Inherits(S, k), ret[j].phys = p, Inherits(S, j)
      PROVE  k = j
  <2>1. k \in Sharers(S, p) /\ j \in Sharers(S, p)
    BY <1>4 DEF Sharers
  <2>2. k <= j /\ j <= k
    BY <2>1, <1>4 DEF Inherits
  <2>3. QED
    BY <1>1, <2>1, <2>2
<1>5. QED
  BY <1>3, <1>4

\* Freeing after a release: an extent stays allocated unless its owner went and
\* nobody shares it.
LEMMA FreedFacts ==
  ASSUME TypeOK, NEW S \in SUBSET Used
  PROVE  /\ Freed(S) \in [Phys -> Nat]
         /\ \A p \in Phys : p \notin Orphans(S) => Freed(S)[p] = alloc[p]
         /\ \A p \in Phys : Sharers(S, p) # {} => Freed(S)[p] = alloc[p]
         /\ \A p \in Phys : Freed(S)[p] # 0 => Freed(S)[p] = alloc[p]
         /\ \A p \in Orphans(S) : Sharers(S, p) = {} => Freed(S)[p] = 0
  BY DEF Freed, TypeOK, Orphans

\* The outcome of retain: the slots in S are released, slot s takes the range.
RetainedIn(S, s, va, n, p, prot, owns) ==
  /\ ret' \in [Slots -> RangeRecord]
  /\ Used' = (Used \ S) \cup {s}
  /\ ret'[s].owns = owns /\ ret'[s].prot = prot /\ ret'[s].va = va
  /\ ret'[s].size = n /\ ret'[s].phys = p
  /\ \A i \in Slots : i \notin Used' => ret'[i] = NoRange
  /\ \A i \in Used \ S :
       /\ ret'[i].owns = (ret[i].owns \/ Inherits(S, i))
       /\ ret'[i].prot = ret[i].prot
       /\ ret'[i].va = ret[i].va
       /\ ret'[i].size = ret[i].size
       /\ ret'[i].phys = ret[i].phys
  /\ alloc' = Freed(S)
  /\ pt' = Unmapped(pt, S)

\* Retaining a range: a set of slots is released, a free one takes the range.
LEMMA RetainFacts ==
  ASSUME TypeOK, NEW va \in Nat, NEW n \in Nat, NEW p \in Phys,
         NEW prot \in SUBSET Flags, NEW owns \in BOOLEAN,
         Retain(va, n, p, prot, owns)
  PROVE  \E S \in SUBSET Used : \E s \in Slots \ (Used \ S) :
           RetainedIn(S, s, va, n, p, prot, owns)
<1> DEFINE S == Evicted(n)
           s == FreeSlot(S)
           r == [used |-> TRUE, owns |-> owns, prot |-> prot, va |-> va,
                 size |-> n, phys |-> p, seq |-> Cardinality(Used \ S) + 1]
<1>1. S \in SUBSET Used /\ s \in Slots \ (Used \ S)
  BY EvictedFacts
<1>2. ret' = [Released(S) EXCEPT ![s] = r] /\ alloc' = Freed(S) /\ pt' = Unmapped(pt, S)
  BY DEF Retain
<1>3. r \in RangeRecord
  <2>1. Cardinality(Used \ S) \in Nat
    BY RankType DEF Used
  <2>2. QED
    BY <2>1 DEF RangeRecord
<1> HIDE DEF S, s
<1>4. ret' \in [Slots -> RangeRecord] /\ ret'[s] = r
  BY <1>1, <1>2, <1>3, ReleasedFacts
<1>5. \A i \in Slots : i # s => ret'[i] = Released(S)[i]
  BY <1>1, <1>2, ReleasedFacts
<1>6. \A i \in Used \ S : i \in Slots /\ i # s
  BY <1>1 DEF Used
<1>7. Used' = (Used \ S) \cup {s}
  BY <1>1, <1>4, <1>5, <1>6, ReleasedFacts DEF Used, NoRange
<1>8. \A i \in Slots : i \notin Used' => ret'[i] = NoRange
  BY <1>1, <1>5, <1>7, ReleasedFacts
<1>9. \A i \in Used \ S :
        /\ ret'[i].owns = (ret[i].owns \/ Inherits(S, i))
        /\ ret'[i].prot = ret[i].prot
        /\ ret'[i].va = ret[i].va
        /\ ret'[i].size = ret[i].size
        /\ ret'[i].phys = ret[i].phys
  BY <1>1, <1>5, <1>6, ReleasedFacts
<1>10. RetainedIn(S, s, va, n, p, prot, owns)
  BY <1>1, <1>2, <1>4, <1>7, <1>8, <1>9 DEF RetainedIn
<1>11. QED
  BY <1>1, <1>10

\* The page table stays a table of entries through unmaps and maps.
LEMMA TableType ==
  ASSUME TypeOK, NEW S, NEW va \in Nat, NEW n \in Nat, NEW p \in Phys,
         NEW prot \in SUBSET Flags
  PROVE  /\ Unmapped(pt, S) \in [Addrs -> Entry]
         /\ BatchMap(Unmapped(pt, S), va, n, p, prot) \in [Addrs -> Entry]
<1>1. NoEntry \in Entry
  BY DEF NoEntry, Entry
<1>2. Unmapped(pt, S) \in [Addrs -> Entry]
  BY <1>1 DEF Unmapped, TypeOK
<1>3. \A a \in Span(va, n) : a - va \in Nat
  BY DEF Span
<1>4. \A a \in Span(va, n) : [phys |-> p, page |-> a - va, prot |-> prot] \in Entry
  BY <1>3 DEF Entry
<1>5. QED
  BY <1>2, <1>4 DEF BatchMap

\* Rounding a byte count gives a page count.
LEMMA RoundType ==
  ASSUME NEW n \in ByteCounts
  PROVE  RoundUpPage(n) \in Nat
<1>1. n + PageBytes - 1 \in Nat
  BY MemoryAssumption
<1>2. (n + PageBytes - 1) % Word \in Nat
  BY <1>1, MemoryAssumption
<1>3. QED
  BY <1>2, MemoryAssumption DEF RoundUpPage

\* The handle a create picks is a dead one.
LEMMA FreeHandle ==
  ASSUME Live # Handles
  PROVE  (CHOOSE x \in Handles \ Live : \A y \in Handles \ Live : x <= y)
           \in Handles \ Live
<1>1. Handles \ Live \in SUBSET Nat /\ Handles \ Live # {}
  BY TableAssumption DEF Handles, Live
<1>2. \E x \in Handles \ Live : \A y \in Handles \ Live : x <= y
  BY <1>1, LeastNatural
<1>3. QED
  BY <1>2

\* What GEM_VA is given by the client is typed.
LEMMA MapArgs ==
  ASSUME TypeOK, NEW h \in Live, NEW n \in ByteCounts, NEW flags \in FlagSets
  PROVE  /\ MapSize(h, n) \in Nat
         /\ Prot(flags) \in SUBSET Flags
         /\ h \in Handles
  BY RoundType, MemoryAssumption DEF MapSize, Prot, Flags, Live, TypeOK, BoRecord

----------------------------------------------------------------------------
\* Type correctness.

\* The zeroed tables have their types.
LEMMA TypeInit == Init => TypeOK
<1> SUFFICES ASSUME Init PROVE TypeOK
  OBVIOUS
<1>1. NoBo \in BoRecord /\ NoRange \in RangeRecord /\ NoEntry \in Entry
  BY MemoryAssumption DEF NoBo, BoRecord, NoRange, RangeRecord, NoEntry, Entry, Phys, NoPhys
<1>2. QED
  BY <1>1 DEF Init, TypeOK

\* A retained range keeps the three tables typed.
LEMMA RetainType ==
  ASSUME TypeOK, NEW h \in Live, NEW owns \in BOOLEAN,
         Retain(bo[h].va, bo[h].size, bo[h].phys, bo[h].prot, owns)
  PROVE  /\ ret' \in [Slots -> RangeRecord]
         /\ \A i \in Slots : ~ret'[i].used => ret'[i] = NoRange
         /\ alloc' \in [Phys -> Nat]
         /\ pt' \in [Addrs -> Entry]
<1>1. /\ bo[h].va \in Nat /\ bo[h].size \in Nat /\ bo[h].phys \in Phys
      /\ bo[h].prot \in SUBSET Flags
  BY DEF TypeOK, BoRecord, Live
<1>2. PICK S \in SUBSET Used : \E s \in Slots \ (Used \ S) :
        RetainedIn(S, s, bo[h].va, bo[h].size, bo[h].phys, bo[h].prot, owns)
  BY <1>1, RetainFacts
<1>3. /\ ret' \in [Slots -> RangeRecord] /\ alloc' = Freed(S) /\ pt' = Unmapped(pt, S)
      /\ \A i \in Slots : i \notin Used' => ret'[i] = NoRange
  BY <1>2 DEF RetainedIn
<1>4. alloc' \in [Phys -> Nat]
  BY <1>3, FreedFacts
<1>5. Unmapped(pt, S) \in [Addrs -> Entry]
  BY <1>1, TableType
<1>6. QED
  BY <1>3, <1>4, <1>5 DEF Used

\* A dropped slot keeps the retained table typed.
LEMMA DropType ==
  ASSUME TypeOK, NEW i \in Used, ret' = Dropped({i})
  PROVE  /\ ret' \in [Slots -> RangeRecord]
         /\ \A j \in Slots : ~ret'[j].used => ret'[j] = NoRange
  BY DroppedFacts

\* The outcome of an update to a live buffer: its address, protection and extent
\* are set, everything else stays.
BoSet(h, va, prot, p) ==
  /\ bo' \in [Handles -> BoRecord]
  /\ Live' = Live
  /\ bo'[h].va = va /\ bo'[h].prot = prot /\ bo'[h].phys = p
  /\ bo'[h].size = bo[h].size /\ bo'[h].cpu = bo[h].cpu
  /\ \A g \in Handles : g # h => bo'[g] = bo[g]
  /\ \A g \in Handles : ~bo'[g].live => bo'[g] = NoBo

\* An entry whose pages were exchanged is an entry.
LEMMA BoSwapped ==
  ASSUME TypeOK, NEW h \in Live, NEW va \in Nat, NEW prot \in SUBSET Flags, NEW p \in Phys,
         bo' = [bo EXCEPT ![h].va = va, ![h].prot = prot, ![h].phys = p]
  PROVE  BoSet(h, va, prot, p)
<1>1. h \in Handles /\ bo[h].live /\ bo \in [Handles -> BoRecord]
  BY DEF Live, TypeOK
<1>2. /\ bo' \in [Handles -> BoRecord]
      /\ bo'[h].va = va /\ bo'[h].prot = prot /\ bo'[h].phys = p
      /\ bo'[h].size = bo[h].size /\ bo'[h].cpu = bo[h].cpu /\ bo'[h].live
      /\ \A g \in Handles : g # h => bo'[g] = bo[g]
  BY <1>1 DEF BoRecord
<1>3. Live' = Live
  BY <1>1, <1>2 DEF Live
<1>4. QED
  BY <1>1, <1>2, <1>3 DEF TypeOK, BoSet

\* An entry that was given an address is an entry.
LEMMA BoMapped ==
  ASSUME TypeOK, NEW h \in Live, NEW va \in Nat, NEW prot \in SUBSET Flags,
         bo' = [bo EXCEPT ![h].va = va, ![h].prot = prot]
  PROVE  BoSet(h, va, prot, bo[h].phys)
<1>1. h \in Handles /\ bo[h].live /\ bo \in [Handles -> BoRecord]
  BY DEF Live, TypeOK
<1>2. /\ bo' \in [Handles -> BoRecord]
      /\ bo'[h].va = va /\ bo'[h].prot = prot /\ bo'[h].phys = bo[h].phys
      /\ bo'[h].size = bo[h].size /\ bo'[h].cpu = bo[h].cpu /\ bo'[h].live
      /\ \A g \in Handles : g # h => bo'[g] = bo[g]
  BY <1>1 DEF BoRecord
<1>3. Live' = Live
  BY <1>1, <1>2 DEF Live
<1>4. QED
  BY <1>1, <1>2, <1>3 DEF TypeOK, BoSet

\* An entry that lost its address is an entry.
LEMMA BoUnmapped ==
  ASSUME TypeOK, NEW h \in Live, bo' = [bo EXCEPT ![h].va = 0]
  PROVE  BoSet(h, 0, bo[h].prot, bo[h].phys)
<1>1. h \in Handles /\ bo[h].live /\ bo \in [Handles -> BoRecord]
  BY DEF Live, TypeOK
<1>2. /\ bo' \in [Handles -> BoRecord]
      /\ bo'[h].va = 0 /\ bo'[h].prot = bo[h].prot /\ bo'[h].phys = bo[h].phys
      /\ bo'[h].size = bo[h].size /\ bo'[h].cpu = bo[h].cpu /\ bo'[h].live
      /\ \A g \in Handles : g # h => bo'[g] = bo[g]
  BY <1>1 DEF BoRecord
<1>3. Live' = Live
  BY <1>1, <1>2 DEF Live
<1>4. QED
  BY <1>1, <1>2, <1>3 DEF TypeOK, BoSet

\* Closing a buffer clears its entry and touches no other.
LEMMA BoClear ==
  ASSUME TypeOK, NEW h \in Live, bo' = [bo EXCEPT ![h] = NoBo]
  PROVE  /\ bo' \in [Handles -> BoRecord]
         /\ Live' = Live \ {h}
         /\ \A g \in Handles : g # h => bo'[g] = bo[g]
         /\ \A g \in Handles : ~bo'[g].live => bo'[g] = NoBo
<1>1. NoBo \in BoRecord /\ ~NoBo.live
  BY MemoryAssumption DEF NoBo, BoRecord, Phys
<1>2. h \in Handles /\ bo \in [Handles -> BoRecord]
  BY DEF Live, TypeOK
<1>3. /\ bo' \in [Handles -> BoRecord] /\ bo'[h] = NoBo
      /\ \A g \in Handles : g # h => bo'[g] = bo[g]
  BY <1>1, <1>2
<1>4. QED
  BY <1>1, <1>2, <1>3 DEF Live, TypeOK

\* Every ioctl keeps the types.
LEMMA TypeStep == TypeOK /\ [Next]_vars => TypeOK'
<1> SUFFICES ASSUME TypeOK, [Next]_vars PROVE TypeOK'
  OBVIOUS
<1>1. ASSUME NEW n \in ByteCounts, NEW p \in Phys, GemCreate(n, p)
      PROVE  TypeOK'
  <2> DEFINE h == CHOOSE x \in Handles \ Live : \A y \in Handles \ Live : x <= y
  <2>1. h \in Handles
    BY <1>1, FreeHandle DEF GemCreate
  <2>2. bo' = [bo EXCEPT ![h] = [@ EXCEPT !.live = TRUE, !.size = RoundUpPage(n),
                                          !.phys = p, !.va = 0, !.cpu = NoPhys]]
    BY <1>1 DEF GemCreate
  <2> HIDE DEF h
  <2>3. bo' \in [Handles -> BoRecord] /\ bo'[h].live /\ \A g \in Handles : g # h => bo'[g] = bo[g]
    BY <2>1, <2>2, RoundType DEF TypeOK, BoRecord
  <2>4. QED
    BY <1>1, <2>3, RoundType DEF GemCreate, TypeOK
<1>2. ASSUME NEW h \in Handles, GemClose(h)
      PROVE  TypeOK'
  <2>1. h \in Live /\ bo' = [bo EXCEPT ![h] = NoBo]
    BY <1>2 DEF GemClose
  <2>2. bo' \in [Handles -> BoRecord] /\ \A g \in Handles : ~bo'[g].live => bo'[g] = NoBo
    BY <2>1, BoClear
  <2>3. CASE Retain(bo[h].va, bo[h].size, bo[h].phys, bo[h].prot, TRUE)
    BY <2>1, <2>2, <2>3, RetainType DEF TypeOK
  <2>4. CASE Adopt(bo[h].phys)
    <3> DEFINE T == Sharers({}, bo[h].phys)
               i == CHOOSE x \in T : \A y \in T : x <= y
    <3>1. T \in SUBSET Nat /\ T # {}
      BY <2>4, TableAssumption DEF Adopt, Sharers, Used, Slots
    <3>2. i \in T
      BY <3>1, LeastNatural
    <3>3. i \in Slots /\ ret[i].used
      BY <3>2 DEF Sharers, Used
    <3>4. ret' = [ret EXCEPT ![i].owns = TRUE]
      BY <2>4 DEF Adopt
    <3> HIDE DEF i
    <3>5. ret' \in [Slots -> RangeRecord] /\ \A j \in Slots : ~ret'[j].used => ret'[j] = NoRange
      BY <3>3, <3>4 DEF TypeOK, RangeRecord
    <3>6. QED
      BY <2>2, <2>4, <3>5 DEF TypeOK, Adopt
  <2>5. CASE FreeDirect(bo[h].phys)
    BY <2>2, <2>5 DEF FreeDirect, TypeOK
  <2>6. QED
    BY <1>2, <2>3, <2>4, <2>5 DEF GemClose
<1>3. ASSUME NEW h \in Live, MapDirect(h)
      PROVE  TypeOK'
  <2>1. h \in Handles
    BY DEF Live
  <2>2. bo' \in [Handles -> BoRecord] /\ \A g \in Handles : ~bo'[g].live => bo'[g] = NoBo
    BY <1>3, <2>1 DEF MapDirect, TypeOK, BoRecord, Live
  <2>3. QED
    BY <1>3, <2>2 DEF MapDirect, TypeOK
<1>4. ASSUME NEW h \in Handles, NEW va \in Addrs, NEW k \in ByteCounts, NEW flags \in FlagSets,
             GemVaMap(h, va, k, flags)
      PROVE  TypeOK'
  <2> DEFINE n == MapSize(h, k)
             prot == Prot(flags)
  <2>1. h \in Live /\ n \in Nat /\ prot \in SUBSET Flags /\ va \in Nat /\ bo[h].phys \in Phys
    BY <1>4, MapArgs, MemoryAssumption DEF GemVaMap, Addrs, TypeOK, BoRecord
  <2>2. MapOwn(h, va, n, prot) \/ MapTakeOver(h, va, n, prot) \/ MapAfresh(h, va, n, prot)
    BY <1>4 DEF GemVaMap
  <2> HIDE DEF n, prot
  <2>3. CASE MapOwn(h, va, n, prot)
    <3>1. PICK i \in Used : ret' = Dropped({i})
      BY <2>3 DEF MapOwn, FirstKeepable, Keepable, Matches
    <3>2. bo' \in [Handles -> BoRecord] /\ \A g \in Handles : ~bo'[g].live => bo'[g] = NoBo
      BY <2>1, <2>3, BoMapped DEF MapOwn, BoSet
    <3>3. QED
      BY <2>3, <3>1, <3>2, DropType DEF MapOwn, TypeOK
  <2>4. CASE MapTakeOver(h, va, n, prot)
    <3>1. PICK i \in Used : /\ ret' = Dropped({i})
                            /\ alloc' = [alloc EXCEPT ![bo[h].phys] = 0]
                            /\ bo' = [bo EXCEPT ![h].va = va, ![h].prot = prot,
                                                ![h].phys = ret[i].phys]
      BY <2>4 DEF MapTakeOver, FirstKeepable, Keepable, Matches
    <3>2. ret[i].phys \in Phys
      BY DEF TypeOK, RangeRecord, Used
    <3>3. bo' \in [Handles -> BoRecord] /\ \A g \in Handles : ~bo'[g].live => bo'[g] = NoBo
      BY <2>1, <3>1, <3>2, BoSwapped DEF BoSet
    <3>4. alloc' \in [Phys -> Nat]
      BY <3>1 DEF TypeOK
    <3>5. QED
      BY <2>4, <3>1, <3>3, <3>4, DropType DEF MapTakeOver, TypeOK
  <2>5. CASE MapAfresh(h, va, n, prot)
    <3> DEFINE S == Overlapping(va, n)
    <3>1. S \in SUBSET Used
      BY DEF Overlapping
    <3>2. ret' = Released(S) /\ alloc' = Freed(S)
      BY <2>5 DEF MapAfresh
    <3>3. \/ /\ pt' = BatchMap(Unmapped(pt, S), va, n, bo[h].phys, prot)
             /\ bo' = [bo EXCEPT ![h].va = va, ![h].prot = prot]
          \/ pt' = Unmapped(pt, S) /\ bo' = bo
      BY <2>5 DEF MapAfresh
    <3> HIDE DEF S
    <3>4. bo' \in [Handles -> BoRecord] /\ \A g \in Handles : ~bo'[g].live => bo'[g] = NoBo
      <4>1. CASE bo' = [bo EXCEPT ![h].va = va, ![h].prot = prot]
        BY <2>1, <4>1, BoMapped DEF BoSet
      <4>2. CASE bo' = bo
        BY <4>2 DEF TypeOK
      <4>3. QED
        BY <3>3, <4>1, <4>2
    <3>5. pt' \in [Addrs -> Entry]
      <4>1. /\ Unmapped(pt, S) \in [Addrs -> Entry]
            /\ BatchMap(Unmapped(pt, S), va, n, bo[h].phys, prot) \in [Addrs -> Entry]
        BY <2>1, TableType
      <4>2. QED
        BY <3>3, <4>1
    <3>6. /\ ret' \in [Slots -> RangeRecord] /\ alloc' \in [Phys -> Nat]
          /\ \A i \in Slots : ~ret'[i].used => ret'[i] = NoRange
      BY <3>1, <3>2, ReleasedFacts, FreedFacts
    <3>7. QED
      BY <3>4, <3>5, <3>6 DEF TypeOK
  <2>6. QED
    BY <2>2, <2>3, <2>4, <2>5
<1>5. ASSUME NEW h \in Handles, GemVaUnmap(h)
      PROVE  TypeOK'
  <2>1. h \in Live /\ Retain(bo[h].va, bo[h].size, bo[h].phys, bo[h].prot, FALSE)
    BY <1>5 DEF GemVaUnmap
  <2>2. bo' \in [Handles -> BoRecord] /\ \A g \in Handles : ~bo'[g].live => bo'[g] = NoBo
    BY <1>5, <2>1 DEF GemVaUnmap, TypeOK, BoRecord, Live
  <2>3. QED
    BY <2>1, <2>2, RetainType DEF TypeOK
<1>6. ASSUME UNCHANGED vars
      PROVE  TypeOK'
  BY <1>6 DEF vars, TypeOK
<1>7. QED
  BY <1>1, <1>2, <1>3, <1>4, <1>5, <1>6 DEF Next, Mmap, BoCpuRange, CpuMapVa

\* Every reachable state of the buffer tables is well typed, and what close and
\* release clear is entirely clear (memset in gem_close and retained_drop).
THEOREM TypeCorrect == Spec => []TypeOK
  BY TypeInit, TypeStep, PTL DEF Spec

----------------------------------------------------------------------------
\* Ownership of direct memory.

\* Whether a surviving slot owns its pages once the slots in S are released.
OwnsAfter(S, i) == ret[i].owns \/ Inherits(S, i)

\* Releasing any set of slots leaves one owner per allocated extent.
LEMMA ReleaseKeepsOwners ==
  ASSUME TypeOK, Ownership, NEW S \in SUBSET Used
  PROVE  /\ \A i \in Used \ S : OwnsAfter(S, i) => \A h \in Live : bo[h].phys # ret[i].phys
         /\ \A i, j \in Used \ S :
              (OwnsAfter(S, i) /\ OwnsAfter(S, j) /\ ret[i].phys = ret[j].phys) => i = j
         /\ \A i \in Used \ S : Freed(S)[ret[i].phys] = ret[i].size
         /\ \A p \in Phys : Freed(S)[p] # 0 =>
              \/ \E h \in Live : bo[h].phys = p
              \/ \E i \in Used \ S : OwnsAfter(S, i) /\ ret[i].phys = p
         /\ \A h \in Live : Freed(S)[bo[h].phys] = bo[h].size
<1> USE DEF Ownership
<1>0. /\ \A i \in Used : ret[i].phys \in Phys
      /\ \A h \in Live : bo[h].phys \in Phys
  BY DEF TypeOK, RangeRecord, BoRecord, Used, Live
<1>1. ASSUME NEW i \in Used \ S, Inherits(S, i)
      PROVE  \E k \in S : k \in Used /\ ret[k].owns /\ ret[k].phys = ret[i].phys
  BY <1>1 DEF Inherits, Orphans
<1>2. ASSUME NEW i \in Used \ S, OwnsAfter(S, i), NEW h \in Live
      PROVE  bo[h].phys # ret[i].phys
  BY <1>1, <1>2 DEF OwnsAfter, OwnersApart
<1>3. ASSUME NEW i \in Used \ S, NEW j \in Used \ S, OwnsAfter(S, i), OwnsAfter(S, j),
             ret[i].phys = ret[j].phys
      PROVE  i = j
  <2>1. CASE ret[i].owns /\ ret[j].owns
    BY <1>3, <2>1 DEF OwnersApart
  <2>2. CASE ret[i].owns /\ Inherits(S, j)
    <3>1. PICK k \in S : k \in Used /\ ret[k].owns /\ ret[k].phys = ret[j].phys
      BY <1>1, <2>2
    <3>2. k = i
      BY <1>3, <2>2, <3>1 DEF OwnersApart
    <3>3. QED
      BY <3>2
  <2>3. CASE Inherits(S, i) /\ ret[j].owns
    <3>1. PICK k \in S : k \in Used /\ ret[k].owns /\ ret[k].phys = ret[i].phys
      BY <1>1, <2>3
    <3>2. k = j
      BY <1>3, <2>3, <3>1 DEF OwnersApart
    <3>3. QED
      BY <3>2
  <2>4. CASE Inherits(S, i) /\ Inherits(S, j)
    <3>1. ret[i].phys \in Orphans(S) /\ Sharers(S, ret[i].phys) # {}
      BY <2>4 DEF Inherits, Sharers
    <3>2. QED
      BY <1>3, <2>4, <3>1, HeirExists
  <2>5. QED
    BY <1>3, <2>1, <2>2, <2>3, <2>4 DEF OwnsAfter
<1>4. ASSUME NEW i \in Used \ S
      PROVE  Freed(S)[ret[i].phys] = ret[i].size
  <2>1. Sharers(S, ret[i].phys) # {}
    BY DEF Sharers
  <2>2. QED
    BY <1>0, <2>1, FreedFacts DEF RetainedPagesHeld
<1>5. ASSUME NEW p \in Phys, Freed(S)[p] # 0
      PROVE  \/ \E h \in Live : bo[h].phys = p
             \/ \E i \in Used \ S : OwnsAfter(S, i) /\ ret[i].phys = p
  <2>1. alloc[p] # 0
    BY <1>5, FreedFacts
  <2>2. CASE \E h \in Live : bo[h].phys = p
    BY <2>2
  <2>3. CASE \E i \in Used \ S : ret[i].owns /\ ret[i].phys = p
    BY <2>3 DEF OwnsAfter
  <2>4. CASE \E i \in S : ret[i].owns /\ ret[i].phys = p
    <3>1. p \in Orphans(S)
      BY <2>4 DEF Orphans
    <3>2. Sharers(S, p) # {}
      BY <1>5, <3>1, FreedFacts
    <3>3. PICK i \in Used \ S : ret[i].phys = p /\ Inherits(S, i)
      BY <3>1, <3>2, HeirExists
    <3>4. QED
      BY <3>3 DEF OwnsAfter
  <2>5. QED
    BY <2>1, <2>2, <2>3, <2>4 DEF NothingLeaks
<1>6. ASSUME NEW h \in Live
      PROVE  Freed(S)[bo[h].phys] = bo[h].size
  <2>1. bo[h].phys \notin Orphans(S)
    BY DEF Orphans, OwnersApart
  <2>2. QED
    BY <1>0, <2>1, FreedFacts DEF BuffersApart
<1>7. QED
  BY <1>2, <1>3, <1>4, <1>5, <1>6

\* Retaining a live buffer's range keeps one owner per extent, whether the buffer
\* goes on living (a VA unmap) or hands its pages to the range (a close).
LEMMA RetainKeepsOwnership ==
  ASSUME TypeOK, Ownership, NEW h \in Live, NEW owns \in BOOLEAN,
         Retain(bo[h].va, bo[h].size, bo[h].phys, bo[h].prot, owns),
         Live' = IF owns THEN Live \ {h} ELSE Live,
         \A g \in Live' : bo'[g].phys = bo[g].phys /\ bo'[g].size = bo[g].size
  PROVE  Ownership'
<1>1. /\ bo[h].va \in Nat /\ bo[h].size \in Nat /\ bo[h].phys \in Phys
      /\ bo[h].prot \in SUBSET Flags
  BY DEF TypeOK, BoRecord, Live
<1>2. PICK S \in SUBSET Used : \E s \in Slots \ (Used \ S) :
        RetainedIn(S, s, bo[h].va, bo[h].size, bo[h].phys, bo[h].prot, owns)
  BY <1>1, RetainFacts
<1>3. PICK s \in Slots \ (Used \ S) :
        RetainedIn(S, s, bo[h].va, bo[h].size, bo[h].phys, bo[h].prot, owns)
  BY <1>2
<1>4. /\ Used' = (Used \ S) \cup {s}
      /\ ret'[s].owns = owns /\ ret'[s].size = bo[h].size /\ ret'[s].phys = bo[h].phys
      /\ alloc' = Freed(S)
      /\ \A i \in Used \ S : /\ ret'[i].owns = OwnsAfter(S, i)
                             /\ ret'[i].size = ret[i].size /\ ret'[i].phys = ret[i].phys
  BY <1>3 DEF RetainedIn, OwnsAfter
<1>5. Live' \subseteq Live
  OBVIOUS
<1>6. BuffersApart'
  BY <1>4, <1>5, ReleaseKeepsOwners DEF Ownership, BuffersApart
<1>7. OwnersApart'
  <2> SUFFICES ASSUME NEW i \in Used', ret'[i].owns
               PROVE  /\ \A g \in Live' : bo'[g].phys # ret'[i].phys
                      /\ \A j \in Used' : (ret'[j].owns /\ ret'[j].phys = ret'[i].phys) => i = j
    BY DEF OwnersApart
  <2>1. CASE i = s
    <3>1. \A g \in Live' : bo'[g].phys # ret'[i].phys
      BY <1>4, <2>1 DEF Ownership, BuffersApart
    <3>2. \A j \in Used \ S : OwnsAfter(S, j) => ret[j].phys # bo[h].phys
      BY ReleaseKeepsOwners
    <3>3. QED
      BY <1>4, <2>1, <3>1, <3>2
  <2>2. CASE i \in Used \ S
    <3>1. OwnsAfter(S, i) /\ ret'[i].phys = ret[i].phys
      BY <1>4, <2>2
    <3>2. \A g \in Live : bo[g].phys # ret[i].phys
      BY <2>2, <3>1, ReleaseKeepsOwners
    <3>3. \A j \in Used \ S : (OwnsAfter(S, j) /\ ret[j].phys = ret[i].phys) => i = j
      BY <2>2, <3>1, ReleaseKeepsOwners
    <3>4. QED
      BY <1>4, <1>5, <3>1, <3>2, <3>3
  <2>3. QED
    BY <1>4, <2>1, <2>2
<1>8. RetainedPagesHeld'
  <2>1. \A i \in Used \ S : Freed(S)[ret[i].phys] = ret[i].size /\ ret[i].size > 0
    BY ReleaseKeepsOwners DEF Ownership, RetainedPagesHeld
  <2>2. Freed(S)[bo[h].phys] = bo[h].size /\ bo[h].size > 0
    BY ReleaseKeepsOwners DEF Ownership, BuffersApart
  <2>3. QED
    BY <1>4, <2>1, <2>2 DEF RetainedPagesHeld
<1>9. NothingLeaks'
  <2> SUFFICES ASSUME NEW p \in Phys, alloc'[p] # 0
               PROVE  \/ \E g \in Live' : bo'[g].phys = p
                      \/ \E i \in Used' : ret'[i].owns /\ ret'[i].phys = p
    BY DEF NothingLeaks
  <2>1. \/ \E g \in Live : bo[g].phys = p
        \/ \E i \in Used \ S : OwnsAfter(S, i) /\ ret[i].phys = p
    BY <1>4, ReleaseKeepsOwners
  <2>2. QED
    BY <1>4, <2>1
<1>10. QED
  BY <1>6, <1>7, <1>8, <1>9 DEF Ownership

\* Nothing is allocated at the start.
LEMMA OwnershipInit == Init => Ownership
  BY DEF Init, Ownership, BuffersApart, OwnersApart, RetainedPagesHeld, NothingLeaks,
         Live, Used, NoBo, NoRange

\* Every ioctl keeps one owner for each extent.
LEMMA OwnershipStep ==
  ASSUME "swap" \notin Liberties, TypeOK, Ownership, [Next]_vars
  PROVE  Ownership'
<1>0. /\ \A i \in Used : i \in Slots /\ ret[i].phys \in Phys
      /\ \A h \in Live : h \in Handles /\ bo[h].phys \in Phys
  BY DEF TypeOK, RangeRecord, BoRecord, Used, Live
<1>1. ASSUME NEW n \in ByteCounts, NEW p \in Phys, GemCreate(n, p)
      PROVE  Ownership'
  <2> DEFINE h == CHOOSE x \in Handles \ Live : \A y \in Handles \ Live : x <= y
  <2>1. h \in Handles \ Live
    BY <1>1, FreeHandle DEF GemCreate
  <2>2. bo' = [bo EXCEPT ![h] = [@ EXCEPT !.live = TRUE, !.size = RoundUpPage(n),
                                          !.phys = p, !.va = 0, !.cpu = NoPhys]]
    BY <1>1 DEF GemCreate
  <2> HIDE DEF h
  <2>3. /\ bo'[h].live /\ bo'[h].size = RoundUpPage(n) /\ bo'[h].phys = p
        /\ \A g \in Handles : g # h => bo'[g] = bo[g]
    BY <2>1, <2>2 DEF TypeOK, BoRecord
  <2>4. Live' = Live \cup {h}
    BY <2>1, <2>3 DEF Live
  <2>5. /\ alloc[p] = 0 /\ alloc'[p] = RoundUpPage(n) /\ RoundUpPage(n) > 0
        /\ \A q \in Phys : q # p => alloc'[q] = alloc[q]
        /\ ret' = ret /\ Used' = Used
    BY <1>1, RoundType DEF GemCreate, TypeOK, Used
  <2>6. /\ \A g \in Live : bo[g].phys # p
        /\ \A i \in Used : ret[i].phys # p
    BY <2>5 DEF Ownership, BuffersApart, RetainedPagesHeld
  <2>7. BuffersApart'
    BY <1>0, <2>1, <2>3, <2>4, <2>5, <2>6 DEF Ownership, BuffersApart
  <2>8. OwnersApart'
    BY <1>0, <2>1, <2>3, <2>4, <2>5, <2>6 DEF Ownership, OwnersApart
  <2>9. RetainedPagesHeld'
    BY <1>0, <2>5, <2>6 DEF Ownership, RetainedPagesHeld
  <2>10. NothingLeaks'
    BY <1>0, <2>1, <2>3, <2>4, <2>5, <2>6 DEF Ownership, NothingLeaks
  <2>11. QED
    BY <2>7, <2>8, <2>9, <2>10 DEF Ownership
<1>2. ASSUME NEW h \in Handles, GemClose(h)
      PROVE  Ownership'
  <2>1. h \in Live /\ bo' = [bo EXCEPT ![h] = NoBo]
    BY <1>2 DEF GemClose
  <2>2. Live' = Live \ {h} /\ \A g \in Live' : bo'[g] = bo[g]
    BY <1>0, <2>1, BoClear
  <2>3. CASE Retain(bo[h].va, bo[h].size, bo[h].phys, bo[h].prot, TRUE)
    BY <2>1, <2>2, <2>3, RetainKeepsOwnership
  <2>4. CASE Adopt(bo[h].phys)
    <3> DEFINE T == Sharers({}, bo[h].phys)
               i == CHOOSE x \in T : \A y \in T : x <= y
    <3>1. T \in SUBSET Nat /\ T # {}
      BY <2>4, TableAssumption DEF Adopt, Sharers, Used, Slots
    <3>2. i \in T
      BY <3>1, LeastNatural
    <3>3. i \in Used /\ ret[i].phys = bo[h].phys
      BY <3>2 DEF Sharers
    <3>4. ret' = [ret EXCEPT ![i].owns = TRUE] /\ alloc' = alloc
      BY <2>4 DEF Adopt
    <3> HIDE DEF i, T
    <3>5. /\ ret'[i].owns /\ ret'[i].used /\ ret'[i].phys = ret[i].phys
          /\ ret'[i].size = ret[i].size
          /\ \A j \in Slots : j # i => ret'[j] = ret[j]
      BY <1>0, <3>3, <3>4 DEF TypeOK, RangeRecord, Used
    <3>6. Used' = Used
      BY <1>0, <3>3, <3>5 DEF Used
    <3>7. BuffersApart'
      BY <2>2, <3>4 DEF Ownership, BuffersApart
    <3>8. OwnersApart'
      BY <1>0, <2>1, <2>2, <3>3, <3>5, <3>6 DEF Ownership, OwnersApart, BuffersApart
    <3>9. RetainedPagesHeld'
      BY <1>0, <3>3, <3>4, <3>5, <3>6 DEF Ownership, RetainedPagesHeld
    <3>10. NothingLeaks'
      BY <1>0, <2>1, <2>2, <3>3, <3>4, <3>5, <3>6 DEF Ownership, NothingLeaks
    <3>11. QED
      BY <3>7, <3>8, <3>9, <3>10 DEF Ownership
  <2>5. CASE Sharers({}, bo[h].phys) = {} /\ FreeDirect(bo[h].phys)
    <3>1. \A i \in Used : ret[i].phys # bo[h].phys
      BY <2>5 DEF Sharers
    <3>2. /\ alloc'[bo[h].phys] = 0 /\ ret' = ret /\ Used' = Used
          /\ \A q \in Phys : q # bo[h].phys => alloc'[q] = alloc[q]
      BY <1>0, <2>1, <2>5 DEF FreeDirect, TypeOK, Used
    <3>3. BuffersApart'
      BY <1>0, <2>1, <2>2, <3>2 DEF Ownership, BuffersApart
    <3>4. OwnersApart'
      BY <2>2, <3>2 DEF Ownership, OwnersApart
    <3>5. RetainedPagesHeld'
      BY <1>0, <3>1, <3>2 DEF Ownership, RetainedPagesHeld
    <3>6. NothingLeaks'
      BY <1>0, <2>1, <2>2, <3>2 DEF Ownership, NothingLeaks
    <3>7. QED
      BY <3>3, <3>4, <3>5, <3>6 DEF Ownership
  <2>6. QED
    BY <1>2, <2>3, <2>4, <2>5 DEF GemClose
<1>3. ASSUME NEW h \in Live, MapDirect(h)
      PROVE  Ownership'
  <2>1. /\ ret' = ret /\ alloc' = alloc /\ Used' = Used
        /\ \A g \in Handles : /\ bo'[g].live = bo[g].live /\ bo'[g].phys = bo[g].phys
                              /\ bo'[g].size = bo[g].size
    BY <1>0, <1>3 DEF MapDirect, TypeOK, BoRecord, Used
  <2>2. Live' = Live
    BY <2>1 DEF Live
  <2>3. QED
    BY <1>0, <2>1, <2>2 DEF Ownership, BuffersApart, OwnersApart, RetainedPagesHeld, NothingLeaks
<1>4. ASSUME NEW h \in Handles, NEW va \in Addrs, NEW k \in ByteCounts, NEW flags \in FlagSets,
             GemVaMap(h, va, k, flags)
      PROVE  Ownership'
  <2> DEFINE n == MapSize(h, k)
             prot == Prot(flags)
  <2>1. h \in Live /\ n \in Nat /\ prot \in SUBSET Flags /\ va \in Nat /\ bo[h].phys \in Phys
    BY <1>4, MapArgs, MemoryAssumption DEF GemVaMap, Addrs, TypeOK, BoRecord
  <2>2. MapOwn(h, va, n, prot) \/ MapTakeOver(h, va, n, prot) \/ MapAfresh(h, va, n, prot)
    BY <1>4 DEF GemVaMap
  <2> HIDE DEF n, prot
  <2>3. CASE MapOwn(h, va, n, prot)
    <3>1. PICK i \in Used : /\ ret[i].phys = bo[h].phys /\ ret' = Dropped({i})
                            /\ bo' = [bo EXCEPT ![h].va = va, ![h].prot = prot]
      BY <2>3 DEF MapOwn, FirstKeepable, Keepable, Matches, OwnPages
    <3>2. alloc' = alloc
      BY <2>3 DEF MapOwn
    <3>3. /\ Live' = Live
          /\ \A g \in Live : bo'[g].phys = bo[g].phys /\ bo'[g].size = bo[g].size
      <4>1. BoSet(h, va, prot, bo[h].phys)
        BY <2>1, <3>1, BoMapped
      <4>2. QED
        BY <1>0, <4>1 DEF BoSet
    <3>4. Used' = Used \ {i} /\ \A j \in Used' : /\ ret'[j].owns = ret[j].owns
                                                 /\ ret'[j].phys = ret[j].phys
                                                 /\ ret'[j].size = ret[j].size
      BY <3>1, DroppedFacts DEF Used, NoRange
    <3>5. ~ret[i].owns
      BY <2>1, <3>1 DEF Ownership, OwnersApart
    <3>6. QED
      BY <1>0, <3>2, <3>3, <3>4, <3>5
         DEF Ownership, BuffersApart, OwnersApart, RetainedPagesHeld, NothingLeaks
  <2>4. CASE MapTakeOver(h, va, n, prot)
    <3>1. PICK i \in Used : /\ ret[i].phys # bo[h].phys /\ ret[i].owns /\ bo[h].size = ret[i].size
                            /\ ret' = Dropped({i})
                            /\ bo' = [bo EXCEPT ![h].va = va, ![h].prot = prot,
                                                ![h].phys = ret[i].phys]
      BY <2>4 DEF MapTakeOver, FirstKeepable, Keepable, Matches, OwnPages, TakesOver
    <3>2. \A j \in Used : ret[j].phys # bo[h].phys
      BY <2>4 DEF MapTakeOver, SwapPermitted, Sharers
    <3>3. alloc' = [alloc EXCEPT ![bo[h].phys] = 0]
      BY <2>4 DEF MapTakeOver
    <3>4. alloc'[bo[h].phys] = 0 /\ \A q \in Phys : q # bo[h].phys => alloc'[q] = alloc[q]
      BY <1>0, <2>1, <3>3 DEF TypeOK
    <3>5. /\ Live' = Live
          /\ bo'[h].phys = ret[i].phys /\ bo'[h].size = bo[h].size
          /\ \A g \in Live : g # h => bo'[g].phys = bo[g].phys /\ bo'[g].size = bo[g].size
      <4>1. BoSet(h, va, prot, ret[i].phys)
        BY <1>0, <2>1, <3>1, BoSwapped
      <4>2. QED
        BY <1>0, <4>1 DEF BoSet
    <3>6. Used' = Used \ {i} /\ \A j \in Used' : /\ ret'[j].owns = ret[j].owns
                                                 /\ ret'[j].phys = ret[j].phys
                                                 /\ ret'[j].size = ret[j].size
      BY <3>1, DroppedFacts DEF Used, NoRange
    <3>7. /\ \A g \in Live : bo[g].phys # ret[i].phys
          /\ \A j \in Used' : ret[j].owns => ret[j].phys # ret[i].phys
      BY <3>1, <3>6 DEF Ownership, OwnersApart
    <3>8. BuffersApart'
      <4>1. alloc'[bo'[h].phys] = bo'[h].size /\ bo'[h].size > 0
        BY <1>0, <3>1, <3>4, <3>5 DEF Ownership, RetainedPagesHeld
      <4>2. \A g \in Live : g # h => /\ bo[g].phys # bo[h].phys
                                     /\ alloc'[bo'[g].phys] = bo'[g].size /\ bo'[g].size > 0
        BY <1>0, <2>1, <3>4, <3>5 DEF Ownership, BuffersApart
      <4>3. \A f, g \in Live : bo'[f].phys = bo'[g].phys => f = g
        BY <2>1, <3>5, <3>7 DEF Ownership, BuffersApart
      <4>4. QED
        BY <2>1, <3>5, <4>1, <4>2, <4>3 DEF BuffersApart
    <3>9. OwnersApart'
      BY <1>0, <3>5, <3>6, <3>7 DEF Ownership, OwnersApart
    <3>10. RetainedPagesHeld'
      BY <1>0, <3>2, <3>4, <3>6 DEF Ownership, RetainedPagesHeld
    <3>11. NothingLeaks'
      <4> SUFFICES ASSUME NEW q \in Phys, alloc'[q] # 0
                   PROVE  \/ \E g \in Live' : bo'[g].phys = q
                          \/ \E j \in Used' : ret'[j].owns /\ ret'[j].phys = q
        BY DEF NothingLeaks
      <4>1. q # bo[h].phys /\ alloc[q] # 0
        BY <3>4
      <4>2. CASE \E g \in Live : bo[g].phys = q
        BY <3>5, <4>1, <4>2
      <4>3. CASE \E j \in Used : ret[j].owns /\ ret[j].phys = q
        BY <2>1, <3>5, <3>6, <4>3
      <4>4. QED
        BY <4>1, <4>2, <4>3 DEF Ownership, NothingLeaks
    <3>12. QED
      BY <3>8, <3>9, <3>10, <3>11 DEF Ownership
  <2>5. CASE MapAfresh(h, va, n, prot)
    <3> DEFINE S == Overlapping(va, n)
    <3>1. S \in SUBSET Used
      BY DEF Overlapping
    <3>2. ret' = Released(S) /\ alloc' = Freed(S)
      BY <2>5 DEF MapAfresh
    <3>3. bo' = [bo EXCEPT ![h].va = va, ![h].prot = prot] \/ bo' = bo
      BY <2>5 DEF MapAfresh
    <3> HIDE DEF S
    <3>4. Live' = Live /\ \A g \in Live : bo'[g].phys = bo[g].phys /\ bo'[g].size = bo[g].size
      <4>1. CASE bo' = [bo EXCEPT ![h].va = va, ![h].prot = prot]
        <5>1. BoSet(h, va, prot, bo[h].phys)
          BY <2>1, <4>1, BoMapped
        <5>2. QED
          BY <1>0, <5>1 DEF BoSet
      <4>2. CASE bo' = bo
        BY <4>2 DEF Live
      <4>3. QED
        BY <3>3, <4>1, <4>2
    <3>5. Used' = Used \ S /\ \A i \in Used' : /\ ret'[i].owns = OwnsAfter(S, i)
                                               /\ ret'[i].phys = ret[i].phys
                                               /\ ret'[i].size = ret[i].size
      BY <3>1, <3>2, ReleasedFacts DEF Used, NoRange, OwnsAfter
    <3>6. BuffersApart'
      BY <3>1, <3>2, <3>4, ReleaseKeepsOwners DEF Ownership, BuffersApart
    <3>7. OwnersApart'
      BY <3>1, <3>4, <3>5, ReleaseKeepsOwners DEF OwnersApart
    <3>8. RetainedPagesHeld'
      BY <3>1, <3>2, <3>5, ReleaseKeepsOwners DEF Ownership, RetainedPagesHeld
    <3>9. NothingLeaks'
      BY <3>1, <3>2, <3>4, <3>5, ReleaseKeepsOwners DEF NothingLeaks
    <3>10. QED
      BY <3>6, <3>7, <3>8, <3>9 DEF Ownership
  <2>6. QED
    BY <2>2, <2>3, <2>4, <2>5
<1>5. ASSUME NEW h \in Handles, GemVaUnmap(h)
      PROVE  Ownership'
  <2>1. h \in Live /\ Retain(bo[h].va, bo[h].size, bo[h].phys, bo[h].prot, FALSE)
    BY <1>5 DEF GemVaUnmap
  <2>2. bo[h].prot \in SUBSET Flags /\ bo' = [bo EXCEPT ![h].va = 0]
    BY <1>5 DEF GemVaUnmap, TypeOK, BoRecord
  <2>3. Live' = Live /\ \A g \in Live : bo'[g].phys = bo[g].phys /\ bo'[g].size = bo[g].size
    <3>1. BoSet(h, 0, bo[h].prot, bo[h].phys)
      BY <2>1, <2>2, BoUnmapped
    <3>2. QED
      BY <1>0, <3>1 DEF BoSet
  <2>4. QED
    BY <2>1, <2>3, RetainKeepsOwnership
<1>6. ASSUME UNCHANGED vars
      PROVE  Ownership'
  BY <1>6 DEF vars, Ownership, BuffersApart, OwnersApart, RetainedPagesHeld, NothingLeaks,
              Live, Used
<1>7. QED
  BY <1>1, <1>2, <1>3, <1>4, <1>5, <1>6 DEF Next, Mmap, BoCpuRange, CpuMapVa

\* Direct memory has exactly one owner per allocated extent, whatever ranges the
\* client maps over each other, so long as no buffer swaps its pages while a
\* retained range still maps them: gem_close, retained_release and the take-over in
\* gem_va never free twice, never leak, and never free what is still mapped.
THEOREM OwnershipHolds == "swap" \notin Liberties => (Spec => []Ownership)
<1> SUFFICES ASSUME "swap" \notin Liberties PROVE Spec => []Ownership
  OBVIOUS
<1>1. TypeOK /\ Ownership /\ [Next]_vars => Ownership'
  BY OwnershipStep
<1>2. QED
  BY <1>1, OwnershipInit, TypeCorrect, PTL DEF Spec

----------------------------------------------------------------------------
\* The client neither maps part of a buffer nor maps over another one.
Orderly == Liberties \cap {"partial", "collide"} = {}

MappedBos == {h \in Live : bo[h].va # 0}

BoSpan(h)  == Span(bo[h].va, bo[h].size)
RetSpan(i) == Span(ret[i].va, ret[i].size)

\* What an address of a buffer, or of a retained range, has to translate to.
BoEntry(h, a)  == [phys |-> bo[h].phys, page |-> a - bo[h].va, prot |-> bo[h].prot]
RetEntry(i, a) == [phys |-> ret[i].phys, page |-> a - ret[i].va, prot |-> ret[i].prot]

\* The address a has at most one holder, translates to what the holder says, and to
\* nothing if it has none.
Told(a) ==
  /\ \A g, h \in MappedBos : a \in BoSpan(g) /\ a \in BoSpan(h) => g = h
  /\ \A i, j \in Used : a \in RetSpan(i) /\ a \in RetSpan(j) => i = j
  /\ \A h \in MappedBos, i \in Used : ~(a \in BoSpan(h) /\ a \in RetSpan(i))
  /\ \A h \in MappedBos : a \in BoSpan(h) => pt[a] = BoEntry(h, a)
  /\ \A i \in Used : a \in RetSpan(i) => pt[a] = RetEntry(i, a)
  /\ pt[a] # NoEntry => \/ \E h \in MappedBos : a \in BoSpan(h)
                        \/ \E i \in Used : a \in RetSpan(i)

\* AddressSpace address by address, and the ranges inside the address space: outside it
\* the page table says nothing, so AddressSpace alone is not inductive.
AddressInv ==
  /\ \A h \in MappedBos : BoSpan(h) \subseteq Addrs
  /\ \A i \in Used : RetSpan(i) \subseteq Addrs
  /\ \A a \in Addrs : Told(a)

\* A buffer's CPU mapping is of the pages it has now.
CpuOwn == \A h \in Live : bo[h].cpu \in {NoPhys, bo[h].phys}

----------------------------------------------------------------------------
\* Steps that change no range.

\* A range of the table is found again wherever its entry's fields are the same.
LEMMA SameEntry ==
  ASSUME NEW g, bo'[g].va = bo[g].va, bo'[g].size = bo[g].size, bo'[g].phys = bo[g].phys,
         bo'[g].prot = bo[g].prot
  PROVE  BoSpan(g)' = BoSpan(g) /\ \A a : BoEntry(g, a)' = BoEntry(g, a)
  BY DEF BoSpan, BoEntry, Span

\* The same for a slot.
LEMMA SameSlot ==
  ASSUME NEW i, ret'[i].va = ret[i].va, ret'[i].size = ret[i].size, ret'[i].phys = ret[i].phys,
         ret'[i].prot = ret[i].prot
  PROVE  RetSpan(i)' = RetSpan(i) /\ \A a : RetEntry(i, a)' = RetEntry(i, a)
  BY DEF RetSpan, RetEntry, Span

\* A step that moves no range and leaves the page table alone changes nothing here.
LEMMA Unmoved ==
  ASSUME AddressInv, pt' = pt, MappedBos' = MappedBos, Used' = Used,
         \A g \in MappedBos : /\ bo'[g].va = bo[g].va /\ bo'[g].size = bo[g].size
                              /\ bo'[g].phys = bo[g].phys /\ bo'[g].prot = bo[g].prot,
         \A i \in Used : /\ ret'[i].va = ret[i].va /\ ret'[i].size = ret[i].size
                         /\ ret'[i].phys = ret[i].phys /\ ret'[i].prot = ret[i].prot
  PROVE  AddressInv'
<1>1. \A g \in MappedBos : BoSpan(g)' = BoSpan(g) /\ \A a : BoEntry(g, a)' = BoEntry(g, a)
  BY SameEntry
<1>2. \A i \in Used : RetSpan(i)' = RetSpan(i) /\ \A a : RetEntry(i, a)' = RetEntry(i, a)
  BY SameSlot
<1>3. ASSUME NEW a \in Addrs PROVE Told(a)'
  <2>1. Told(a)
    BY <1>3 DEF AddressInv
  <2>2. QED
    BY <1>1, <1>2, <2>1 DEF Told
<1>4. QED
  BY <1>1, <1>2, <1>3 DEF AddressInv

----------------------------------------------------------------------------
\* Releasing, retaining, keeping and mapping.

\* Unmapping the ranges of the slots in S takes no translation from anybody else, and
\* leaves none behind.
LEMMA ReleaseTold ==
  ASSUME AddressInv, NEW S \in SUBSET Used, NEW a \in Addrs
  PROVE  /\ \A h \in MappedBos : a \in BoSpan(h) => Unmapped(pt, S)[a] = BoEntry(h, a)
         /\ \A i \in Used \ S : a \in RetSpan(i) => Unmapped(pt, S)[a] = RetEntry(i, a)
         /\ Unmapped(pt, S)[a] # NoEntry => \/ \E h \in MappedBos : a \in BoSpan(h)
                                            \/ \E i \in Used \ S : a \in RetSpan(i)
<1>1. Unmapped(pt, S)[a] = IF \E i \in S : a \in RetSpan(i) THEN NoEntry ELSE pt[a]
  BY DEF Unmapped, RetSpan
<1>2. Told(a)
  BY DEF AddressInv
<1>3. QED
  BY <1>1, <1>2 DEF Told

\* A buffer's range goes to a slot, after the slots in S have been released.
LEMMA RetainTold ==
  ASSUME TypeOK, AddressInv, NEW h \in MappedBos, NEW owns \in BOOLEAN,
         Retain(bo[h].va, bo[h].size, bo[h].phys, bo[h].prot, owns),
         MappedBos' = MappedBos \ {h}, \A g \in MappedBos' : bo'[g] = bo[g]
  PROVE  AddressInv'
<1>1. /\ h \in Live /\ bo[h].va \in Nat /\ bo[h].size \in Nat /\ bo[h].phys \in Phys
      /\ bo[h].prot \in SUBSET Flags
  BY DEF TypeOK, BoRecord, Live, MappedBos
<1>0. PICK S \in SUBSET Used : \E s \in Slots \ (Used \ S) :
        RetainedIn(S, s, bo[h].va, bo[h].size, bo[h].phys, bo[h].prot, owns)
  BY <1>1, RetainFacts
<1>2. PICK s \in Slots \ (Used \ S) :
        RetainedIn(S, s, bo[h].va, bo[h].size, bo[h].phys, bo[h].prot, owns)
  BY <1>0
<1>3. Used' = (Used \ S) \cup {s} /\ s \notin Used \ S /\ pt' = Unmapped(pt, S)
  BY <1>2 DEF RetainedIn
<1>4. \A g \in MappedBos' : BoSpan(g)' = BoSpan(g) /\ \A a : BoEntry(g, a)' = BoEntry(g, a)
  BY SameEntry
<1>5. \A i \in Used \ S : RetSpan(i)' = RetSpan(i) /\ \A a : RetEntry(i, a)' = RetEntry(i, a)
  BY <1>2, SameSlot DEF RetainedIn
<1>6. RetSpan(s)' = BoSpan(h) /\ \A a : RetEntry(s, a)' = BoEntry(h, a)
  BY <1>2 DEF RetainedIn, RetSpan, BoSpan, RetEntry, BoEntry, Span
<1>7. ASSUME NEW a \in Addrs PROVE Told(a)'
  <2>1. Told(a)
    BY <1>7 DEF AddressInv
  <2>2. /\ \A g \in MappedBos : a \in BoSpan(g) => pt'[a] = BoEntry(g, a)
        /\ \A i \in Used \ S : a \in RetSpan(i) => pt'[a] = RetEntry(i, a)
        /\ pt'[a] # NoEntry => \/ \E g \in MappedBos : a \in BoSpan(g)
                               \/ \E i \in Used \ S : a \in RetSpan(i)
    BY <1>0, <1>3, <1>7, ReleaseTold
  <2>3. QED
    BY <1>2, <1>3, <1>4, <1>5, <1>6, <2>1, <2>2 DEF Told
<1>8. QED
  BY <1>2, <1>3, <1>4, <1>5, <1>6, <1>7 DEF AddressInv

\* A buffer takes the place of a retained range, translated as it is.
LEMMA KeepTold ==
  ASSUME AddressInv, NEW h, h \notin MappedBos, NEW i \in Used, pt' = pt,
         MappedBos' = MappedBos \cup {h}, Used' = Used \ {i},
         \A g \in MappedBos : bo'[g] = bo[g],
         \A j \in Used' : /\ ret'[j].va = ret[j].va /\ ret'[j].size = ret[j].size
                          /\ ret'[j].phys = ret[j].phys /\ ret'[j].prot = ret[j].prot,
         bo'[h].va = ret[i].va, bo'[h].size = ret[i].size, bo'[h].phys = ret[i].phys,
         bo'[h].prot = ret[i].prot
  PROVE  AddressInv'
<1>1. \A g \in MappedBos : BoSpan(g)' = BoSpan(g) /\ \A a : BoEntry(g, a)' = BoEntry(g, a)
  BY SameEntry
<1>2. \A j \in Used' : RetSpan(j)' = RetSpan(j) /\ \A a : RetEntry(j, a)' = RetEntry(j, a)
  BY SameSlot
<1>3. BoSpan(h)' = RetSpan(i) /\ \A a : BoEntry(h, a)' = RetEntry(i, a)
  BY DEF RetSpan, BoSpan, RetEntry, BoEntry, Span
<1>4. ASSUME NEW a \in Addrs PROVE Told(a)'
  <2>1. Told(a)
    BY <1>4 DEF AddressInv
  <2>2. QED
    BY <1>1, <1>2, <1>3, <2>1 DEF Told
<1>5. QED
  BY <1>1, <1>2, <1>3, <1>4 DEF AddressInv

\* Two ranges the overlap test lets pass share no address.
LEMMA OverlapTest ==
  ASSUME NEW va \in Nat, NEW n \in Nat, NEW wa \in Nat, NEW m \in Nat, ~Overlap(va, n, wa, m),
         NEW a \in Span(va, n)
  PROVE  a \notin Span(wa, m)
  BY DEF Overlap, Span

\* Every range in the way has been released, and the buffer is mapped; the others keep
\* their addresses, because none of them reaches into its range.
LEMMA AfreshTold ==
  ASSUME TypeOK, AddressInv, NEW h \in Live \ MappedBos, NEW va \in Nat, NEW n \in Nat,
         NEW prot, n = bo[h].size, va # 0, Span(va, n) \subseteq Addrs,
         \A g \in MappedBos : Span(va, n) \cap BoSpan(g) = {},
         NEW S, S = Overlapping(va, n), Used' = Used \ S,
         \A i \in Used' : /\ ret'[i].va = ret[i].va /\ ret'[i].size = ret[i].size
                          /\ ret'[i].phys = ret[i].phys /\ ret'[i].prot = ret[i].prot,
         pt' = BatchMap(Unmapped(pt, S), va, n, bo[h].phys, prot),
         MappedBos' = MappedBos \cup {h}, \A g \in MappedBos : bo'[g] = bo[g],
         bo'[h].va = va, bo'[h].size = n, bo'[h].phys = bo[h].phys, bo'[h].prot = prot
  PROVE  AddressInv'
<1>0. S \in SUBSET Used
  BY DEF Overlapping
<1>1. \A g \in MappedBos : BoSpan(g)' = BoSpan(g) /\ \A a : BoEntry(g, a)' = BoEntry(g, a)
  BY SameEntry
<1>2. \A j \in Used' : RetSpan(j)' = RetSpan(j) /\ \A a : RetEntry(j, a)' = RetEntry(j, a)
  BY SameSlot
<1>3. /\ BoSpan(h)' = Span(va, n)
      /\ \A a : BoEntry(h, a)' = [phys |-> bo[h].phys, page |-> a - va, prot |-> prot]
  BY DEF BoSpan, BoEntry, Span
<1>4. \A i \in Used \ S : \A a \in Span(va, n) : a \notin RetSpan(i)
  <2> SUFFICES ASSUME NEW i \in Used \ S, NEW a \in Span(va, n) PROVE a \notin RetSpan(i)
    OBVIOUS
  <2>1. ret[i].va \in Nat /\ ret[i].size \in Nat /\ ~Overlap(va, n, ret[i].va, ret[i].size)
    BY DEF TypeOK, RangeRecord, Used, Overlapping
  <2>2. QED
    BY <2>1, OverlapTest DEF RetSpan
<1>5. ASSUME NEW a \in Addrs PROVE Told(a)'
  <2>1. Told(a)
    BY <1>5 DEF AddressInv
  <2>2. /\ \A g \in MappedBos : a \in BoSpan(g) => Unmapped(pt, S)[a] = BoEntry(g, a)
        /\ \A i \in Used \ S : a \in RetSpan(i) => Unmapped(pt, S)[a] = RetEntry(i, a)
        /\ Unmapped(pt, S)[a] # NoEntry => \/ \E g \in MappedBos : a \in BoSpan(g)
                                           \/ \E i \in Used \ S : a \in RetSpan(i)
    BY <1>0, <1>5, ReleaseTold
  <2>3. pt'[a] = IF a \in Span(va, n)
                 THEN [phys |-> bo[h].phys, page |-> a - va, prot |-> prot]
                 ELSE Unmapped(pt, S)[a]
    BY <1>5 DEF BatchMap
  <2>4. CASE a \in Span(va, n)
    <3>1. /\ pt'[a] = BoEntry(h, a)' /\ a \in BoSpan(h)'
          /\ \A g \in MappedBos : a \notin BoSpan(g)
          /\ \A i \in Used' : a \notin RetSpan(i)
      BY <1>3, <1>4, <2>3, <2>4
    <3>2. QED
      BY <1>1, <1>2, <3>1 DEF Told
  <2>5. CASE a \notin Span(va, n)
    BY <1>1, <1>2, <1>3, <2>1, <2>2, <2>3, <2>5 DEF Told
  <2>6. QED
    BY <2>4, <2>5
<1>6. QED
  BY <1>1, <1>2, <1>3, <1>5 DEF AddressInv

\* The platform refused the map: the ranges that were in the way are gone all the same.
LEMMA RefusedTold ==
  ASSUME TypeOK, AddressInv, NEW S \in SUBSET Used, Used' = Used \ S, bo' = bo,
         \A i \in Used' : /\ ret'[i].va = ret[i].va /\ ret'[i].size = ret[i].size
                          /\ ret'[i].phys = ret[i].phys /\ ret'[i].prot = ret[i].prot,
         pt' = Unmapped(pt, S)
  PROVE  AddressInv'
<1>1. /\ MappedBos' = MappedBos
      /\ \A g \in MappedBos : BoSpan(g)' = BoSpan(g) /\ \A a : BoEntry(g, a)' = BoEntry(g, a)
  BY DEF MappedBos, Live, BoSpan, BoEntry
<1>2. \A j \in Used' : RetSpan(j)' = RetSpan(j) /\ \A a : RetEntry(j, a)' = RetEntry(j, a)
  BY SameSlot
<1>3. ASSUME NEW a \in Addrs PROVE Told(a)'
  <2>1. Told(a)
    BY <1>3 DEF AddressInv
  <2>2. /\ \A g \in MappedBos : a \in BoSpan(g) => pt'[a] = BoEntry(g, a)
        /\ \A i \in Used' : a \in RetSpan(i) => pt'[a] = RetEntry(i, a)
        /\ pt'[a] # NoEntry => \/ \E g \in MappedBos : a \in BoSpan(g)
                               \/ \E i \in Used' : a \in RetSpan(i)
    BY <1>3, ReleaseTold
  <2>3. QED
    BY <1>1, <1>2, <2>1, <2>2 DEF Told
<1>4. QED
  BY <1>1, <1>2, <1>3 DEF AddressInv

----------------------------------------------------------------------------
\* The address space.

\* What GEM_VA's arguments are worth when the client is orderly.
LEMMA OrderlyMap ==
  ASSUME TypeOK, Orderly, NEW h \in Handles, NEW va \in Addrs, NEW k \in ByteCounts,
         NEW flags \in FlagSets, GemVaMap(h, va, k, flags)
  PROVE  /\ h \in Live \ MappedBos /\ va \in Nat /\ va # 0
         /\ MapSize(h, k) = bo[h].size /\ bo[h].size \in Nat /\ bo[h].phys \in Phys
         /\ Prot(flags) \in SUBSET Flags
         /\ Span(va, bo[h].size) \subseteq Addrs
         /\ \A g \in MappedBos : Span(va, bo[h].size) \cap BoSpan(g) = {}
         /\ \/ MapOwn(h, va, bo[h].size, Prot(flags))
            \/ MapTakeOver(h, va, bo[h].size, Prot(flags))
            \/ MapAfresh(h, va, bo[h].size, Prot(flags))
<1>1. h \in Live /\ Permitted(h, va, MapSize(h, k)) /\ Span(va, MapSize(h, k)) \subseteq Addrs
  BY DEF GemVaMap
<1>2. "partial" \notin Liberties /\ "collide" \notin Liberties
  BY DEF Orderly
<1>3. /\ MapSize(h, k) = bo[h].size /\ bo[h].va = 0
      /\ \A g \in Live : bo[g].va # 0 =>
           Span(va, MapSize(h, k)) \cap Span(bo[g].va, bo[g].size) = {}
  BY <1>1, <1>2 DEF Permitted
<1>4. va \in Nat /\ va # 0
  BY MemoryAssumption DEF Addrs
<1>5. Prot(flags) \in SUBSET Flags /\ bo[h].size \in Nat /\ bo[h].phys \in Phys
  BY <1>1, MapArgs DEF TypeOK, BoRecord
<1>6. QED
  BY <1>1, <1>3, <1>4, <1>5 DEF GemVaMap, MappedBos, BoSpan

\* A map puts one more buffer among the mapped ones.
LEMMA NowMapped ==
  ASSUME TypeOK, NEW h \in Live \ MappedBos, NEW va, va # 0, NEW prot, NEW p, BoSet(h, va, prot, p)
  PROVE  MappedBos' = MappedBos \cup {h} /\ \A g \in MappedBos : bo'[g] = bo[g]
<1>1. /\ Live' = Live /\ h \in Handles /\ bo'[h].va = va
      /\ \A g \in Handles : g # h => bo'[g] = bo[g]
  BY DEF BoSet, Live
<1>2. Live \subseteq Handles
  BY DEF Live
<1>3. QED
  BY <1>1, <1>2 DEF MappedBos

\* Every ioctl keeps the address space as the tables say.
LEMMA AddressStep ==
  ASSUME Orderly, TypeOK, AddressInv, [Next]_vars
  PROVE  AddressInv'
<1>1. ASSUME NEW n \in ByteCounts, NEW p \in Phys, GemCreate(n, p)
      PROVE  AddressInv'
  <2> DEFINE h == CHOOSE x \in Handles \ Live : \A y \in Handles \ Live : x <= y
  <2>1. h \in Handles \ Live
    BY <1>1, FreeHandle DEF GemCreate
  <2>2. bo' = [bo EXCEPT ![h] = [@ EXCEPT !.live = TRUE, !.size = RoundUpPage(n),
                                          !.phys = p, !.va = 0, !.cpu = NoPhys]]
    BY <1>1 DEF GemCreate
  <2> HIDE DEF h
  <2>3. bo'[h].va = 0 /\ \A g \in Handles : g # h => bo'[g] = bo[g]
    BY <2>1, <2>2 DEF TypeOK, BoRecord
  <2>4. MappedBos' = MappedBos /\ \A g \in MappedBos : bo'[g] = bo[g]
    BY <2>1, <2>3 DEF MappedBos, Live
  <2>5. ret' = ret /\ pt' = pt /\ Used' = Used
    BY <1>1 DEF GemCreate, Used
  <2>6. QED
    BY <2>4, <2>5, Unmoved
<1>2. ASSUME NEW h \in Handles, GemClose(h)
      PROVE  AddressInv'
  <2>1. h \in Live /\ bo' = [bo EXCEPT ![h] = NoBo]
    BY <1>2 DEF GemClose
  <2>2. Live' = Live \ {h} /\ \A g \in Live' : bo'[g] = bo[g]
    BY <2>1, BoClear DEF Live
  <2>3. MappedBos' = MappedBos \ {h} /\ \A g \in MappedBos' : bo'[g] = bo[g]
    BY <2>2 DEF MappedBos
  <2>4. CASE bo[h].va # 0 /\ Retain(bo[h].va, bo[h].size, bo[h].phys, bo[h].prot, TRUE)
    BY <2>1, <2>3, <2>4, RetainTold DEF MappedBos
  <2>5. CASE bo[h].va = 0 /\ Adopt(bo[h].phys)
    <3>1. MappedBos' = MappedBos /\ pt' = pt
      BY <2>3, <2>5 DEF MappedBos, Adopt
    <3>2. PICK i : ret' = [ret EXCEPT ![i].owns = TRUE]
      BY <2>5 DEF Adopt
    <3>3. \A j \in Slots : /\ ret'[j].va = ret[j].va /\ ret'[j].size = ret[j].size
                           /\ ret'[j].phys = ret[j].phys /\ ret'[j].prot = ret[j].prot
                           /\ ret'[j].used = ret[j].used
      BY <3>2 DEF TypeOK, RangeRecord
    <3>4. Used' = Used /\ Used \subseteq Slots
      BY <3>3 DEF Used
    <3>5. QED
      BY <2>3, <3>1, <3>3, <3>4, Unmoved
  <2>6. CASE bo[h].va = 0 /\ FreeDirect(bo[h].phys)
    <3>1. MappedBos' = MappedBos /\ pt' = pt /\ ret' = ret /\ Used' = Used
      BY <2>3, <2>6 DEF MappedBos, FreeDirect, Used
    <3>2. QED
      BY <2>3, <3>1, Unmoved
  <2>7. QED
    BY <1>2, <2>4, <2>5, <2>6 DEF GemClose
<1>3. ASSUME NEW h \in Live, MapDirect(h)
      PROVE  AddressInv'
  <2>1. \A g \in Handles : /\ bo'[g].va = bo[g].va /\ bo'[g].size = bo[g].size
                           /\ bo'[g].phys = bo[g].phys /\ bo'[g].prot = bo[g].prot
                           /\ bo'[g].live = bo[g].live
    BY <1>3 DEF MapDirect, TypeOK, BoRecord
  <2>2. MappedBos' = MappedBos /\ MappedBos \subseteq Handles
    BY <2>1 DEF MappedBos, Live
  <2>3. pt' = pt /\ ret' = ret /\ Used' = Used
    BY <1>3 DEF MapDirect, Used
  <2>4. QED
    BY <2>1, <2>2, <2>3, Unmoved
<1>4. ASSUME NEW h \in Handles, NEW va \in Addrs, NEW k \in ByteCounts, NEW flags \in FlagSets,
             GemVaMap(h, va, k, flags)
      PROVE  AddressInv'
  <2> DEFINE n == bo[h].size
             prot == Prot(flags)
  <2>1. /\ h \in Live \ MappedBos /\ va \in Nat /\ va # 0 /\ n \in Nat /\ bo[h].phys \in Phys
        /\ prot \in SUBSET Flags /\ Span(va, n) \subseteq Addrs
        /\ \A g \in MappedBos : Span(va, n) \cap BoSpan(g) = {}
        /\ MapOwn(h, va, n, prot) \/ MapTakeOver(h, va, n, prot) \/ MapAfresh(h, va, n, prot)
    BY <1>4, OrderlyMap
  <2> HIDE DEF prot
  <2>2. CASE MapOwn(h, va, n, prot) \/ MapTakeOver(h, va, n, prot)
    <3>1. PICK i \in Used : /\ ret[i].va = va /\ ret[i].size = n /\ ret[i].prot = prot
                            /\ ret' = Dropped({i}) /\ pt' = pt
                            /\ \/ /\ bo' = [bo EXCEPT ![h].va = va, ![h].prot = prot]
                                  /\ ret[i].phys = bo[h].phys
                               \/ bo' = [bo EXCEPT ![h].va = va, ![h].prot = prot,
                                                   ![h].phys = ret[i].phys]
      BY <2>2 DEF MapOwn, MapTakeOver, FirstKeepable, Keepable, Matches, OwnPages
    <3>2. ret[i].phys \in Phys
      BY <3>1 DEF TypeOK, RangeRecord, Used
    <3>3. BoSet(h, va, prot, ret[i].phys)
      <4>1. CASE /\ bo' = [bo EXCEPT ![h].va = va, ![h].prot = prot]
                 /\ ret[i].phys = bo[h].phys
        BY <2>1, <4>1, BoMapped
      <4>2. CASE bo' = [bo EXCEPT ![h].va = va, ![h].prot = prot, ![h].phys = ret[i].phys]
        BY <2>1, <3>2, <4>2, BoSwapped
      <4>3. QED
        BY <3>1, <4>1, <4>2
    <3>4. MappedBos' = MappedBos \cup {h} /\ \A g \in MappedBos : bo'[g] = bo[g]
      BY <2>1, <3>3, NowMapped
    <3>5. Used' = Used \ {i} /\ \A j \in Used' : /\ ret'[j].va = ret[j].va
                                                 /\ ret'[j].size = ret[j].size
                                                 /\ ret'[j].phys = ret[j].phys
                                                 /\ ret'[j].prot = ret[j].prot
      BY <3>1, DroppedFacts DEF Used, NoRange
    <3>6. /\ bo'[h].va = ret[i].va /\ bo'[h].size = ret[i].size
          /\ bo'[h].phys = ret[i].phys /\ bo'[h].prot = ret[i].prot
      BY <3>1, <3>3 DEF BoSet
    <3>7. QED
      BY <2>1, <3>1, <3>4, <3>5, <3>6, KeepTold
  <2>3. CASE MapAfresh(h, va, n, prot)
    <3> DEFINE S == Overlapping(va, n)
    <3>1. S \in SUBSET Used
      BY DEF Overlapping
    <3>2. ret' = Released(S)
      BY <2>3 DEF MapAfresh
    <3>3. \/ /\ pt' = BatchMap(Unmapped(pt, S), va, n, bo[h].phys, prot)
             /\ bo' = [bo EXCEPT ![h].va = va, ![h].prot = prot]
          \/ pt' = Unmapped(pt, S) /\ bo' = bo
      BY <2>3 DEF MapAfresh
    <3>4. Used' = Used \ S /\ \A i \in Used' : /\ ret'[i].va = ret[i].va
                                               /\ ret'[i].size = ret[i].size
                                               /\ ret'[i].phys = ret[i].phys
                                               /\ ret'[i].prot = ret[i].prot
      BY <3>1, <3>2, ReleasedFacts DEF Used, NoRange
    <3>5. CASE /\ pt' = BatchMap(Unmapped(pt, S), va, n, bo[h].phys, prot)
               /\ bo' = [bo EXCEPT ![h].va = va, ![h].prot = prot]
      <4>1. BoSet(h, va, prot, bo[h].phys)
        BY <2>1, <3>5, BoMapped
      <4>2. MappedBos' = MappedBos \cup {h} /\ \A g \in MappedBos : bo'[g] = bo[g]
        BY <2>1, <4>1, NowMapped
      <4>3. /\ bo'[h].va = va /\ bo'[h].size = n
            /\ bo'[h].phys = bo[h].phys /\ bo'[h].prot = prot
        BY <4>1 DEF BoSet
      <4>4. QED
        BY <2>1, <3>4, <3>5, <4>2, <4>3, AfreshTold
    <3>6. CASE pt' = Unmapped(pt, S) /\ bo' = bo
      BY <3>1, <3>4, <3>6, RefusedTold
    <3>7. QED
      BY <3>3, <3>5, <3>6
  <2>4. QED
    BY <2>1, <2>2, <2>3
<1>5. ASSUME NEW h \in Handles, GemVaUnmap(h)
      PROVE  AddressInv'
  <2>1. /\ h \in MappedBos /\ h \in Live
        /\ Retain(bo[h].va, bo[h].size, bo[h].phys, bo[h].prot, FALSE)
        /\ bo' = [bo EXCEPT ![h].va = 0]
    BY <1>5 DEF GemVaUnmap, MappedBos
  <2>2. BoSet(h, 0, bo[h].prot, bo[h].phys)
    BY <2>1, BoUnmapped
  <2>3. MappedBos' = MappedBos \ {h} /\ \A g \in MappedBos' : bo'[g] = bo[g]
    BY <2>1, <2>2 DEF BoSet, MappedBos, Live
  <2>4. QED
    BY <2>1, <2>3, RetainTold
<1>6. ASSUME UNCHANGED vars
      PROVE  AddressInv'
  BY <1>6, Unmoved DEF vars, MappedBos, Live, Used
<1>7. QED
  BY <1>1, <1>2, <1>3, <1>4, <1>5, <1>6 DEF Next, Mmap, BoCpuRange, CpuMapVa

\* At the start nothing is mapped.
LEMMA AddressStart == Init => AddressInv
<1> SUFFICES ASSUME Init PROVE AddressInv
  OBVIOUS
<1>1. MappedBos = {} /\ Used = {} /\ \A a \in Addrs : pt[a] = NoEntry
  BY DEF Init, MappedBos, Live, Used, NoBo, NoRange
<1>2. QED
  BY <1>1 DEF AddressInv, Told

\* The invariant says of every address what AddressSpace says of every range.
LEMMA AddressMeans == AddressInv => AddressSpace
<1> SUFFICES ASSUME AddressInv PROVE AddressSpace
  OBVIOUS
<1>1. /\ \A h \in Live : bo[h].va # 0 =>
           h \in MappedBos /\ \A a \in Span(bo[h].va, bo[h].size) : a \in Addrs /\ a \in BoSpan(h)
      /\ \A i \in Used : \A a \in Span(ret[i].va, ret[i].size) : a \in Addrs /\ a \in RetSpan(i)
  BY DEF AddressInv, MappedBos, BoSpan, RetSpan
<1>2. \A a \in Addrs : Told(a)
  BY DEF AddressInv
<1>3. RangesDisjoint
  BY <1>1, <1>2 DEF RangesDisjoint, Told
<1>4. BuffersTranslated
  BY <1>1, <1>2 DEF BuffersTranslated, Told, BoEntry
<1>5. RetainedTranslated
  BY <1>1, <1>2 DEF RetainedTranslated, Told, RetEntry
<1>6. NoStrayTranslation
  BY <1>2 DEF NoStrayTranslation, Told, MappedBos, BoSpan, RetSpan
<1>7. QED
  BY <1>3, <1>4, <1>5, <1>6 DEF AddressSpace

\* The invariant of the address space holds for every orderly client.
THEOREM AddressInvariant == Orderly => (Spec => []AddressInv)
<1> SUFFICES ASSUME Orderly PROVE Spec => []AddressInv
  OBVIOUS
<1>1. TypeOK /\ AddressInv /\ [Next]_vars => AddressInv'
  BY AddressStep
<1>2. QED
  BY <1>1, AddressStart, TypeCorrect, PTL DEF Spec

\* The GPU page table is exactly what the buffer table and the retained ranges say:
\* no two ranges overlap, every page of a range translates to its own memory with its
\* own protection, and gem_close, eviction and gem_va leave no translation behind.
THEOREM AddressSpaceHolds == Orderly => (Spec => []AddressSpace)
<1> SUFFICES ASSUME Orderly PROVE Spec => []AddressSpace
  OBVIOUS
<1>1. AddressInv => AddressSpace
  BY AddressMeans
<1>2. Spec => []AddressInv
  BY AddressInvariant
<1>3. QED
  BY <1>1, <1>2, PTL

----------------------------------------------------------------------------
\* The CPU's view.

\* A buffer's CPU mapping stays that of its pages: its pages are only ever swapped
\* before it has one.
LEMMA CpuOwnStep ==
  ASSUME TypeOK, CpuOwn, [Next]_vars
  PROVE  CpuOwn'
<1>1. ASSUME NEW n \in ByteCounts, NEW p \in Phys, GemCreate(n, p)
      PROVE  CpuOwn'
  <2> DEFINE h == CHOOSE x \in Handles \ Live : \A y \in Handles \ Live : x <= y
  <2>1. h \in Handles \ Live
    BY <1>1, FreeHandle DEF GemCreate
  <2>2. bo' = [bo EXCEPT ![h] = [@ EXCEPT !.live = TRUE, !.size = RoundUpPage(n),
                                          !.phys = p, !.va = 0, !.cpu = NoPhys]]
    BY <1>1 DEF GemCreate
  <2> HIDE DEF h
  <2>3. bo'[h].cpu = NoPhys /\ \A g \in Handles : g # h => bo'[g] = bo[g]
    BY <2>1, <2>2 DEF TypeOK, BoRecord
  <2>4. QED
    BY <2>3 DEF CpuOwn, Live
<1>2. ASSUME NEW h \in Handles, GemClose(h)
      PROVE  CpuOwn'
  BY <1>2, BoClear DEF GemClose, CpuOwn, Live
<1>3. ASSUME NEW h \in Live, MapDirect(h)
      PROVE  CpuOwn'
  <2>1. /\ \A g \in Handles : g # h => bo'[g] = bo[g]
        /\ bo'[h].cpu = bo[h].phys /\ bo'[h].phys = bo[h].phys
    BY <1>3 DEF MapDirect, TypeOK, BoRecord, Live
  <2>2. QED
    BY <2>1 DEF CpuOwn, Live
<1>4. ASSUME NEW h \in Handles, NEW va \in Addrs, NEW k \in ByteCounts, NEW flags \in FlagSets,
             GemVaMap(h, va, k, flags)
      PROVE  CpuOwn'
  <2> DEFINE n == MapSize(h, k)
             prot == Prot(flags)
  <2>1. h \in Live /\ n \in Nat /\ prot \in SUBSET Flags /\ va \in Nat /\ bo[h].phys \in Phys
    BY <1>4, MapArgs, MemoryAssumption DEF GemVaMap, Addrs, TypeOK, BoRecord
  <2>2. MapOwn(h, va, n, prot) \/ MapTakeOver(h, va, n, prot) \/ MapAfresh(h, va, n, prot)
    BY <1>4 DEF GemVaMap
  <2> HIDE DEF n, prot
  <2>3. CASE bo' = [bo EXCEPT ![h].va = va, ![h].prot = prot]
    <3>1. BoSet(h, va, prot, bo[h].phys)
      BY <2>1, <2>3, BoMapped
    <3>2. QED
      BY <2>1, <3>1 DEF BoSet, CpuOwn, Live
  <2>4. CASE MapTakeOver(h, va, n, prot)
    <3>1. PICK i \in Used : /\ bo[h].cpu = NoPhys
                            /\ bo' = [bo EXCEPT ![h].va = va, ![h].prot = prot,
                                                ![h].phys = ret[i].phys]
      BY <2>4 DEF MapTakeOver, FirstKeepable, Keepable, Matches, TakesOver
    <3>2. ret[i].phys \in Phys
      BY <3>1 DEF TypeOK, RangeRecord, Used
    <3>3. BoSet(h, va, prot, ret[i].phys)
      BY <2>1, <3>1, <3>2, BoSwapped
    <3>4. QED
      BY <2>1, <3>1, <3>3 DEF BoSet, CpuOwn, Live
  <2>5. CASE bo' = bo
    BY <2>5 DEF CpuOwn, Live
  <2>6. QED
    BY <2>2, <2>3, <2>4, <2>5 DEF MapOwn, MapAfresh
<1>5. ASSUME NEW h \in Handles, GemVaUnmap(h)
      PROVE  CpuOwn'
  <2>1. BoSet(h, 0, bo[h].prot, bo[h].phys)
    BY <1>5, BoUnmapped DEF GemVaUnmap
  <2>2. QED
    BY <1>5, <2>1 DEF BoSet, CpuOwn, Live
<1>6. ASSUME UNCHANGED vars
      PROVE  CpuOwn'
  BY <1>6 DEF vars, CpuOwn, Live
<1>7. QED
  BY <1>1, <1>2, <1>3, <1>4, <1>5, <1>6 DEF Next, Mmap, BoCpuRange, CpuMapVa

\* cpu_for_va answers with the page the GPU reads at that address, whatever pages the
\* buffer has been through.
THEOREM CpuSeesWhatGpuSees == Orderly => (Spec => []CpuSeesGpuPages)
<1> SUFFICES ASSUME Orderly PROVE Spec => []CpuSeesGpuPages
  OBVIOUS
<1>1. Init => CpuOwn
  BY DEF Init, CpuOwn, Live, NoBo
<1>2. TypeOK /\ CpuOwn /\ [Next]_vars => CpuOwn'
  BY CpuOwnStep
<1>3. ASSUME AddressSpace, CpuOwn PROVE CpuSeesGpuPages
  <2> SUFFICES ASSUME NEW a \in Addrs, CpuForVa(a) # <<NoPhys, 0>>
               PROVE  CpuForVa(a) = <<pt[a].phys, pt[a].page>>
    BY DEF CpuSeesGpuPages
  <2> DEFINE holders == {h \in Live : /\ bo[h].cpu # NoPhys /\ bo[h].va # 0
                                      /\ a \in Span(bo[h].va, bo[h].size)}
             h == CHOOSE x \in holders : \A y \in holders : x <= y
  <2>1. holders # {} /\ CpuForVa(a) = <<bo[h].cpu, a - bo[h].va>>
    BY DEF CpuForVa
  <2>2. holders \in SUBSET Nat
    BY TableAssumption DEF Live, Handles
  <2>3. h \in holders
    BY <2>1, <2>2, LeastNatural
  <2> HIDE DEF h
  <2>4. /\ h \in Live /\ bo[h].cpu # NoPhys /\ bo[h].va # 0
        /\ a \in Span(bo[h].va, bo[h].size)
    BY <2>3
  <2>5. pt[a] = [phys |-> bo[h].phys, page |-> a - bo[h].va, prot |-> bo[h].prot]
    BY <1>3, <2>4 DEF AddressSpace, BuffersTranslated
  <2>6. bo[h].cpu = bo[h].phys
    BY <1>3, <2>4 DEF CpuOwn
  <2>7. QED
    BY <2>1, <2>5, <2>6
<1>4. Spec => []AddressSpace
  BY AddressSpaceHolds
<1>5. QED
  BY <1>1, <1>2, <1>3, <1>4, TypeCorrect, PTL DEF Spec

----------------------------------------------------------------------------
\* Translations that change.

\* Retaining a range gives no address another translation.
LEMMA RetainTranslation ==
  ASSUME NEW h, NEW owns, Retain(bo[h].va, bo[h].size, bo[h].phys, bo[h].prot, owns),
         NEW a \in Addrs
  PROVE  pt'[a] \in {NoEntry, pt[a]}
  BY DEF Retain, Unmapped

\* Only a fresh map changes a translation into another.
LEMMA SwapStep ==
  ASSUME Orderly, TypeOK, AddressInv, [Next]_vars
  PROVE  SwapIsForced \/ UNCHANGED vars
<1> SUFFICES ASSUME NEW a \in Addrs, pt[a] # NoEntry, pt'[a] # NoEntry, pt'[a] # pt[a]
             PROVE  \E h \in Handles, i \in Used :
                      /\ bo'[h].va # 0 /\ bo'[h].va # bo[h].va
                      /\ a \in Span(ret[i].va, ret[i].size)
                      /\ \/ <<ret[i].va, ret[i].size, ret[i].prot>>
                              # <<bo'[h].va, bo[h].size, bo'[h].prot>>
                         \/ ~ret[i].owns
                         \/ bo[h].cpu # NoPhys
  BY DEF SwapIsForced
<1>1. PICK h \in Handles, va \in Addrs, k \in ByteCounts, flags \in FlagSets :
        GemVaMap(h, va, k, flags)
  <2>1. pt' # pt
    OBVIOUS
  <2>2. \A h \in Handles : ~GemVaUnmap(h)
    BY RetainTranslation DEF GemVaUnmap
  <2>3. \A h \in Handles : ~GemClose(h)
    BY <2>1, RetainTranslation DEF GemClose, Adopt, FreeDirect
  <2>4. ~UNCHANGED vars
    BY <2>1 DEF vars
  <2>5. QED
    BY <2>1, <2>2, <2>3, <2>4 DEF Next, GemCreate, Mmap, BoCpuRange, CpuMapVa, MapDirect
<1> DEFINE n == bo[h].size
           prot == Prot(flags)
<1>2. /\ h \in Live \ MappedBos /\ va \in Nat /\ va # 0
      /\ prot \in SUBSET Flags
      /\ \A g \in MappedBos : Span(va, n) \cap BoSpan(g) = {}
      /\ MapOwn(h, va, n, prot) \/ MapTakeOver(h, va, n, prot) \/ MapAfresh(h, va, n, prot)
  BY <1>1, OrderlyMap
<1> HIDE DEF prot
<1>3. MapAfresh(h, va, n, prot)
  BY <1>2 DEF MapOwn, MapTakeOver
<1>4. /\ pt' = BatchMap(Unmapped(pt, Overlapping(va, n)), va, n, bo[h].phys, prot)
      /\ bo' = [bo EXCEPT ![h].va = va, ![h].prot = prot]
      /\ a \in Span(va, n)
  BY <1>3 DEF MapAfresh, BatchMap, Unmapped
<1>5. PICK i \in Used : a \in RetSpan(i)
  BY <1>2, <1>4 DEF AddressInv, Told
<1>6. BoSet(h, va, prot, bo[h].phys)
  BY <1>2, <1>4, BoMapped
<1>7. bo'[h].va = va /\ bo'[h].prot = prot /\ bo[h].va = 0
  BY <1>2, <1>6 DEF BoSet, MappedBos
<1>8. i \notin Keepable(h, va, n, prot)
  BY <1>3 DEF MapAfresh
<1>9. \/ <<ret[i].va, ret[i].size, ret[i].prot>> # <<va, n, prot>>
      \/ ~ret[i].owns
      \/ bo[h].cpu # NoPhys
  BY <1>5, <1>8 DEF Keepable, Matches, TakesOver
<1>10. QED
  BY <1>1, <1>2, <1>5, <1>7, <1>9 DEF RetSpan

\* A GPU address goes from one translation straight to another only in gem_va, over a
\* retained range the buffer could not have kept: the "retained with its pages" promise.
THEOREM AddressKeeps == Orderly => (Spec => AddressKeepsPages)
<1> SUFFICES ASSUME Orderly PROVE Spec => AddressKeepsPages
  OBVIOUS
<1>1. TypeOK /\ AddressInv /\ [Next]_vars => [SwapIsForced]_vars
  BY SwapStep
<1>2. Spec => []AddressInv
  BY AddressInvariant
<1>3. QED
  BY <1>1, <1>2, TypeCorrect, PTL DEF Spec, AddressKeepsPages

----------------------------------------------------------------------------
\* The byte limit of the retained ranges.

\* RetainedPages and SumSizes of any table of ranges, so that the sums before and after
\* a step can be compared.
PagesIn(f, S) == UNION {{i} \X (1 .. f[i].size) : i \in S}
SizesIn(f, S) == Cardinality(PagesIn(f, S))

\* Sums over a set of slots are of finitely many pages.
LEMMA PagesFinite ==
  ASSUME NEW f, NEW S, IsFiniteSet(S), \A i \in S : f[i].size \in Nat
  PROVE  IsFiniteSet(PagesIn(f, S)) /\ SizesIn(f, S) \in Nat
<1> DEFINE P(i) == {i} \X (1 .. f[i].size)
           T == {P(i) : i \in S}
           g == [i \in S |-> P(i)]
<1>1. g \in Surjection(S, T)
  BY DEF Surjection
<1>2. IsFiniteSet(T)
  BY <1>1, FS_Surjection
<1>3. \A i \in S : IsFiniteSet(P(i))
  <2> SUFFICES ASSUME NEW i \in S PROVE IsFiniteSet(P(i))
    OBVIOUS
  <2>1. IsFiniteSet({i})
    BY FS_Singleton
  <2>2. 1 \in Int /\ f[i].size \in Int
    OBVIOUS
  <2>3. IsFiniteSet(1 .. f[i].size)
    BY <2>2, FS_Interval
  <2>4. QED
    BY <2>1, <2>3, FS_Product
<1>4. \A U \in T : IsFiniteSet(U)
  BY <1>3
<1>5. IsFiniteSet(UNION T)
  BY <1>2, <1>4, FS_UNION
<1>6. QED
  BY <1>5, FS_CardinalityType DEF PagesIn, SizesIn

\* The sum over two sets of slots with none in common is the sum of the two sums.
LEMMA SumSplit ==
  ASSUME NEW f, NEW S, NEW R, IsFiniteSet(S), IsFiniteSet(R), S \cap R = {},
         \A i \in S \cup R : f[i].size \in Nat
  PROVE  SizesIn(f, S \cup R) = SizesIn(f, S) + SizesIn(f, R)
<1>1. IsFiniteSet(PagesIn(f, S)) /\ IsFiniteSet(PagesIn(f, R))
  BY PagesFinite
<1>2. PagesIn(f, S \cup R) = PagesIn(f, S) \cup PagesIn(f, R)
  BY DEF PagesIn
<1>3. PagesIn(f, S) \cap PagesIn(f, R) = {}
  BY DEF PagesIn
<1>4. Cardinality(PagesIn(f, S) \cap PagesIn(f, R)) = 0
  BY <1>3, FS_EmptySet
<1>5. Cardinality(PagesIn(f, S) \cup PagesIn(f, R))
        = Cardinality(PagesIn(f, S)) + Cardinality(PagesIn(f, R))
            - Cardinality(PagesIn(f, S) \cap PagesIn(f, R))
  BY <1>1, FS_Union
<1>6. Cardinality(PagesIn(f, S)) \in Nat /\ Cardinality(PagesIn(f, R)) \in Nat
  BY <1>1, FS_CardinalityType
<1>7. Cardinality(PagesIn(f, S \cup R)) = Cardinality(PagesIn(f, S) \cup PagesIn(f, R))
  BY <1>2, Zenon
<1>8. Cardinality(PagesIn(f, S \cup R)) = Cardinality(PagesIn(f, S)) + Cardinality(PagesIn(f, R))
  BY <1>4, <1>5, <1>6, <1>7
<1>9. QED
  BY <1>8, Zenon DEF SizesIn

\* The sum over one slot is its size, over none 0.
LEMMA SumOne ==
  ASSUME NEW f, NEW i, f[i].size \in Nat
  PROVE  SizesIn(f, {i}) = f[i].size /\ SizesIn(f, {}) = 0
<1>1. PagesIn(f, {i}) = {i} \X (1 .. f[i].size)
  BY DEF PagesIn
<1>2. IsFiniteSet({i}) /\ Cardinality({i}) = 1
  BY FS_Singleton
<1>3. Cardinality({i} \X (1 .. f[i].size)) = f[i].size
  <2>1. 1 \in Int /\ f[i].size \in Int
    OBVIOUS
  <2>2. /\ IsFiniteSet(1 .. f[i].size)
        /\ Cardinality(1 .. f[i].size) = IF 1 > f[i].size THEN 0 ELSE f[i].size - 1 + 1
    BY <2>1, FS_Interval
  <2>3. Cardinality({i} \X (1 .. f[i].size)) = 1 * Cardinality(1 .. f[i].size)
    BY <1>2, <2>2, FS_Product
  <2>4. QED
    BY <2>2, <2>3
<1>4. PagesIn(f, {}) = {}
  BY DEF PagesIn
<1>5. QED
  BY <1>1, <1>3, <1>4, FS_EmptySet DEF SizesIn

\* The sum depends on the sizes alone.
LEMMA SumSame ==
  ASSUME NEW f, NEW g, NEW S, \A i \in S : f[i].size = g[i].size
  PROVE  SizesIn(f, S) = SizesIn(g, S)
<1>1. PagesIn(f, S) = PagesIn(g, S)
  BY DEF PagesIn
<1>2. QED
  BY <1>1 DEF SizesIn

\* The inductive invariant: no range is empty, since no buffer is; and the stamps tell
\* the slots apart, so that oldest first is an order.
BosSized == \A h \in Live : bo[h].size > 0

Ranked ==
  /\ \A i \in Used : ret[i].size > 0
  /\ \A i, j \in Used : ret[i].seq = ret[j].seq => i = j

BudgetInv == BosSized /\ Ranked /\ RetainedBudget

\* The slots in use are finitely many, and their sizes are counts.
LEMMA UsedFinite ==
  ASSUME TypeOK, NEW S \in SUBSET Used
  PROVE  /\ IsFiniteSet(S) /\ S \subseteq Slots
         /\ \A i \in S : ret[i].size \in Nat /\ ret[i].seq \in Nat
         /\ SumSizes(S) = SizesIn(ret, S) /\ SumSizes(S) \in Nat
<1>1. IsFiniteSet(Slots)
  BY TableAssumption, FS_Interval DEF Slots
<1>2. S \in SUBSET Slots
  BY DEF Used
<1>3. IsFiniteSet(S)
  BY <1>1, <1>2, FS_Subset
<1>4. \A i \in S : ret[i].size \in Nat /\ ret[i].seq \in Nat
  BY <1>2 DEF TypeOK, RangeRecord
<1>5. SumSizes(S) = SizesIn(ret, S)
  BY DEF SumSizes, SizesIn, RetainedPages, PagesIn
<1>6. QED
  BY <1>2, <1>3, <1>4, <1>5, PagesFinite

\* What is left once some of the slots are gone.
LEMMA SumRest ==
  ASSUME TypeOK, BudgetInv, NEW S \in SUBSET Used
  PROVE  /\ bytes - SumSizes(S) = SizesIn(ret, Used \ S)
         /\ bytes \in Nat /\ SumSizes(S) \in Nat /\ SizesIn(ret, Used \ S) \in Nat
         /\ Used \ S # {} => SizesIn(ret, Used \ S) > 0
<1>1. /\ IsFiniteSet(S) /\ IsFiniteSet(Used \ S)
      /\ SumSizes(S) = SizesIn(ret, S) /\ SumSizes(S) \in Nat
      /\ SizesIn(ret, Used \ S) \in Nat
      /\ SumSizes(Used) = SizesIn(ret, Used) /\ SumSizes(Used) \in Nat
  BY UsedFinite
<1>2. \A i \in S \cup (Used \ S) : ret[i].size \in Nat
  BY UsedFinite
<1>3. SizesIn(ret, S \cup (Used \ S)) = SizesIn(ret, S) + SizesIn(ret, Used \ S)
  <2>1. S \cap (Used \ S) = {}
    OBVIOUS
  <2>2. IsFiniteSet(S) /\ IsFiniteSet(Used \ S)
    BY <1>1
  <2>3. QED
    BY <1>2, <2>1, <2>2, SumSplit, Zenon
<1>4. S \cup (Used \ S) = Used
  OBVIOUS
<1>5. ASSUME Used \ S # {} PROVE SizesIn(ret, Used \ S) > 0
  <2>1. PICK i \in Used \ S : TRUE
    BY <1>5
  <2>2. IsFiniteSet({i}) /\ IsFiniteSet((Used \ S) \ {i})
    BY UsedFinite
  <2>3. \A j \in {i} \cup ((Used \ S) \ {i}) : ret[j].size \in Nat
    BY <1>2
  <2>4. SizesIn(ret, {i} \cup ((Used \ S) \ {i}))
          = SizesIn(ret, {i}) + SizesIn(ret, (Used \ S) \ {i})
    BY <2>2, <2>3, SumSplit
  <2>5. {i} \cup ((Used \ S) \ {i}) = Used \ S
    OBVIOUS
  <2>6. SizesIn(ret, {i}) = ret[i].size
    BY <1>2, SumOne
  <2>7. SizesIn(ret, (Used \ S) \ {i}) \in Nat
    BY <2>2, <2>3, PagesFinite
  <2>8. ret[i].size \in Nat /\ ret[i].size > 0
    BY <1>2 DEF BudgetInv, Ranked
  <2>9. QED
    BY <2>4, <2>5, <2>6, <2>7, <2>8
<1>6. QED
  BY <1>1, <1>3, <1>4, <1>5 DEF BudgetInv, RetainedBudget

\* More slots, more pages.
LEMMA SumGrows ==
  ASSUME TypeOK, NEW R \in SUBSET Used, NEW S \in SUBSET R
  PROVE  SumSizes(S) <= SumSizes(R)
<1>1. IsFiniteSet(PagesIn(ret, R))
  BY UsedFinite, PagesFinite
<1>2. PagesIn(ret, S) \in SUBSET PagesIn(ret, R)
  BY DEF PagesIn
<1>3. Cardinality(PagesIn(ret, S)) <= Cardinality(PagesIn(ret, R))
  BY <1>1, <1>2, FS_Subset
<1>4. SumSizes(S) = SizesIn(ret, S) /\ SumSizes(R) = SizesIn(ret, R)
  BY UsedFinite
<1>5. QED
  BY <1>3, <1>4 DEF SizesIn

\* retain makes room: after the eviction nothing else is retained, or the new range fits
\* the limit with what is.
LEMMA EvictedBudget ==
  ASSUME TypeOK, BudgetInv, NEW n \in Nat, Used \ Evicted(n) # {}
  PROVE  (bytes - SumSizes(Evicted(n))) + n <= RetainedBytes
<1> DEFINE OB == OverBudget(n)
           Older(i) == {j \in Used : ret[j].seq < ret[i].seq}
           Left(i) == bytes - SumSizes(Older(i))
<1>1. \A i \in Used : i \in OB <=> Left(i) + n > RetainedBytes /\ Left(i) > 0
  BY DEF OverBudget
<1>2. OB \in SUBSET Used
  BY DEF OverBudget
<1> HIDE DEF OB
<1>3. \A i \in Used : Older(i) \in SUBSET Used /\ SumSizes(Older(i)) \in Nat
  BY UsedFinite
<1>4. bytes \in Nat
  BY SumRest
<1>5. RetainedBytes \in Nat
  BY TableAssumption
<1>6. CASE Used \ OB = Slots
  <2>1. OB = {} /\ Evicted(n) = Oldest /\ Used # {}
    BY <1>2, <1>6, TableAssumption DEF Evicted, Used, OB, Slots
  <2>2. PICK i \in Oldest : TRUE
    BY <2>1, OldestExists
  <2>3. i \in Used /\ Older(i) = {}
    BY <2>2 DEF Oldest, TypeOK, Used, RangeRecord
  <2>4. SumSizes({}) = 0
    BY FS_EmptySet DEF SumSizes, RetainedPages
  <2>5. Left(i) = bytes
    <3>1. SumSizes(Older(i)) = SumSizes({})
      BY <2>3, Zenon
    <3> HIDE DEF Older
    <3>2. QED
      BY <3>1, <2>4, <1>4
  <2>6. bytes > 0
    <3>1. {} \in SUBSET Used /\ Used \ {} # {}
      BY <2>1
    <3>2. bytes - SumSizes({}) > 0
      BY <3>1, SumRest
    <3>3. QED
      BY <3>2, <2>4, <1>4
  <2>7. bytes + n <= RetainedBytes
    BY <1>1, <1>4, <1>5, <2>1, <2>3, <2>5, <2>6
  <2>8. SumSizes(Oldest) \in Nat
    BY UsedFinite DEF Oldest
  <2>9. QED
    BY <2>1, <2>7, <2>8, <1>4, <1>5
<1>7. CASE Used \ OB # Slots
  <2>1. Evicted(n) = OB
    BY <1>7 DEF Evicted, OB
  <2> DEFINE T == {ret[i].seq : i \in Used \ OB}
  <2>2. T \in SUBSET Nat /\ T # {}
    BY <2>1, UsedFinite
  <2>3. PICK m \in T : \A k \in T : m <= k
    BY <2>2, LeastNatural
  <2>4. PICK i \in Used \ OB : ret[i].seq = m
    BY <2>3
  <2>5. \A j \in Used : ret[j].seq \in Nat
    BY UsedFinite
  <2>6. Older(i) \subseteq OB
    <3> SUFFICES ASSUME NEW j \in Used, ret[j].seq < ret[i].seq, j \notin OB PROVE FALSE
      OBVIOUS
    <3>1. ret[i].seq <= ret[j].seq
      BY <2>3, <2>4
    <3>2. QED
      BY <3>1, <2>4, <2>5
  <2>7. OB \subseteq Older(i)
    <3> SUFFICES ASSUME NEW j \in OB, ~(ret[j].seq < ret[i].seq) PROVE FALSE
      BY <1>2
    <3>1. j \in Used /\ j # i
      BY <1>2, <2>4
    <3>2. Older(i) \in SUBSET Older(j) /\ Older(j) \in SUBSET Used
      BY <3>1, <2>4, <2>5
    <3>3. SumSizes(Older(i)) <= SumSizes(Older(j))
      BY <3>2, SumGrows
    <3>4. Left(j) + n > RetainedBytes /\ Left(j) > 0
      BY <1>1, <3>1
    <3>5. Left(i) + n > RetainedBytes /\ Left(i) > 0
      <4>1. SumSizes(Older(i)) \in Nat /\ SumSizes(Older(j)) \in Nat
        BY <1>3, <3>1, <2>4
      <4> HIDE DEF Older
      <4>2. QED
        BY <3>3, <3>4, <4>1, <1>4, <1>5
    <3>6. QED
      BY <1>1, <2>4, <3>5
  <2>8. Older(i) = OB
    BY <2>6, <2>7
  <2>9. bytes - SumSizes(OB) > 0
    BY <1>2, <2>1, SumRest
  <2>10. ~(Left(i) + n > RetainedBytes /\ Left(i) > 0)
    BY <1>1, <2>4
  <2>11. SumSizes(OB) \in Nat
    BY <1>2, UsedFinite
  <2> HIDE DEF Older
  <2>12. QED
    BY <2>1, <2>8, <2>9, <2>10, <2>11, <1>4, <1>5
<1>8. QED
  BY <1>6, <1>7

\* The rank a slot keeps among those outside S.
Rank(S, i) == Cardinality({j \in Used \ S : ret[j].seq <= ret[i].seq})

\* Ranks tell the survivors apart, and none reaches the one the next range gets.
LEMMA RanksApart ==
  ASSUME TypeOK, Ranked, NEW S \in SUBSET Used
  PROVE  /\ \A i \in Used \ S : Rank(S, i) \in Nat /\ Rank(S, i) < Cardinality(Used \ S) + 1
         /\ \A i, j \in Used \ S : Rank(S, i) = Rank(S, j) => i = j
<1> DEFINE Upto(i) == {j \in Used \ S : ret[j].seq <= ret[i].seq}
<1>1. IsFiniteSet(Used \ S) /\ Cardinality(Used \ S) \in Nat
  BY UsedFinite, FS_CardinalityType
<1>2. \A i \in Used \ S : IsFiniteSet(Upto(i)) /\ Cardinality(Upto(i)) \in Nat
                          /\ Cardinality(Upto(i)) <= Cardinality(Used \ S)
  <2> SUFFICES ASSUME NEW i \in Used \ S
               PROVE  IsFiniteSet(Upto(i)) /\ Cardinality(Upto(i)) \in Nat
                        /\ Cardinality(Upto(i)) <= Cardinality(Used \ S)
    OBVIOUS
  <2>1. Upto(i) \in SUBSET (Used \ S)
    OBVIOUS
  <2> HIDE DEF Upto
  <2>2. QED
    BY <1>1, <2>1, FS_Subset, FS_CardinalityType
<1>3. ASSUME NEW i \in Used \ S, NEW j \in Used \ S, ret[i].seq < ret[j].seq
      PROVE  Cardinality(Upto(i)) # Cardinality(Upto(j))
  <2>1. ret[i].seq \in Nat /\ ret[j].seq \in Nat /\ \A k \in Used : ret[k].seq \in Nat
    BY UsedFinite
  <2>2. Upto(i) \in SUBSET Upto(j) /\ j \in Upto(j) /\ j \notin Upto(i)
    BY <1>3, <2>1
  <2>3. IsFiniteSet(Upto(j))
    BY <1>2
  <2> HIDE DEF Upto
  <2>4. QED
    BY <2>2, <2>3, FS_Subset
<1>4. ASSUME NEW i \in Used \ S, NEW j \in Used \ S, Cardinality(Upto(i)) = Cardinality(Upto(j))
      PROVE  i = j
  <2>1. ret[i].seq \in Nat /\ ret[j].seq \in Nat
    BY UsedFinite
  <2>2. ~(ret[i].seq < ret[j].seq) /\ ~(ret[j].seq < ret[i].seq)
    BY <1>3, <1>4
  <2>3. ret[i].seq = ret[j].seq
    BY <2>1, <2>2
  <2>4. QED
    BY <2>3 DEF Ranked
<1>5. \A i \in Used \ S : Rank(S, i) = Cardinality(Upto(i))
  BY DEF Rank
<1> HIDE DEF Upto
<1>6. \A i \in Used \ S : Rank(S, i) \in Nat /\ Rank(S, i) < Cardinality(Used \ S) + 1
  BY <1>1, <1>2, <1>5
<1>7. \A i, j \in Used \ S : Rank(S, i) = Rank(S, j) => i = j
  BY <1>4, <1>5, Zenon
<1>8. QED
  BY <1>6, <1>7

\* The slots in S are given up and their bytes subtracted: the limit still holds.
LEMMA BudgetLoses ==
  ASSUME TypeOK, BudgetInv, NEW S \in SUBSET Used,
         Used' = Used \ S, bytes' = bytes - SumSizes(S),
         \A i \in Used \ S : ret'[i].size = ret[i].size /\ ret'[i].seq = Rank(S, i)
  PROVE  Ranked' /\ RetainedBudget'
<1>1. Ranked'
  <2>1. \A i \in Used \ S : ret[i].size > 0
    BY DEF BudgetInv, Ranked
  <2>2. \A i, j \in Used \ S : Rank(S, i) = Rank(S, j) => i = j
    BY RanksApart DEF BudgetInv
  <2>3. QED
    BY <2>1, <2>2 DEF Ranked
<1>2. SizesIn(ret', Used \ S) = SizesIn(ret, Used \ S)
  BY SumSame
<1>3. SumSizes(Used)' = SizesIn(ret', Used \ S)
  BY DEF SumSizes, SizesIn, RetainedPages, PagesIn
<1>4. bytes' = SumSizes(Used)'
  BY <1>2, <1>3, SumRest
<1>5. ASSUME bytes' > RetainedBytes PROVE Cardinality(Used') = 1
  <2>1. bytes \in Nat /\ SumSizes(S) \in Nat /\ RetainedBytes \in Nat
    BY SumRest, TableAssumption
  <2>2. bytes > RetainedBytes
    BY <1>5, <2>1
  <2>3. Cardinality(Used) = 1 /\ IsFiniteSet(Used)
    BY <2>2, UsedFinite DEF BudgetInv, RetainedBudget
  <2>4. PICK x : Used = {x}
    BY <2>3, FS_Singleton
  <2>5. CASE S = {}
    BY <2>3, <2>5
  <2>6. CASE S # {}
    <3>1. Used \ S = {}
      BY <2>4, <2>6
    <3>2. SizesIn(ret, Used \ S) = 0
      BY <3>1, FS_EmptySet DEF SizesIn, PagesIn
    <3>3. bytes' = 0
      BY <3>2, SumRest
    <3>4. QED
      BY <1>5, <2>1, <3>3
  <2>7. QED
    BY <2>5, <2>6
<1>6. QED
  BY <1>1, <1>4, <1>5 DEF RetainedBudget

\* retain: slots are given up, and one takes the new range and the next rank.
LEMMA BudgetRetains ==
  ASSUME TypeOK, BudgetInv, NEW va \in Nat, NEW n \in Nat, n > 0, NEW p \in Phys,
         NEW prot \in SUBSET Flags, NEW owns \in BOOLEAN,
         Retain(va, n, p, prot, owns)
  PROVE  Ranked' /\ RetainedBudget'
<1> DEFINE S == Evicted(n)
           s == FreeSlot(S)
           r == [used |-> TRUE, owns |-> owns, prot |-> prot, va |-> va,
                 size |-> n, phys |-> p, seq |-> Cardinality(Used \ S) + 1]
<1>1. S \in SUBSET Used /\ s \in Slots /\ s \notin Used \ S
  BY EvictedFacts
<1>2. ret' = [Released(S) EXCEPT ![s] = r] /\ bytes' = bytes - SumSizes(S) + n
  BY DEF Retain
<1>3. Used \ S # {} => (bytes - SumSizes(S)) + n <= RetainedBytes
  BY EvictedBudget
<1>4. r.size = n /\ r.seq = Cardinality(Used \ S) + 1 /\ r.used
  OBVIOUS
<1> HIDE DEF S, s, r
<1>5. Released(S) \in [Slots -> RangeRecord]
  BY <1>1, ReleasedFacts
<1>6. ret'[s] = r /\ \A i \in Slots : i # s => ret'[i] = Released(S)[i]
  BY <1>1, <1>2, <1>5
<1>7. \A i \in Used \ S : /\ i \in Slots /\ i # s
                          /\ Released(S)[i].used /\ Released(S)[i].size = ret[i].size
                          /\ Released(S)[i].seq = Rank(S, i)
  BY <1>1 DEF Used, Released, Survivor, Rank
<1>8. Used' = (Used \ S) \cup {s}
  <2>1. \A i \in Slots : i \notin Used \ S => Released(S)[i] = NoRange
    BY <1>1, ReleasedFacts
  <2>2. QED
    BY <1>1, <1>4, <1>6, <1>7, <2>1 DEF Used, NoRange
<1>9. /\ ret'[s].size = n /\ ret'[s].seq = Cardinality(Used \ S) + 1
      /\ \A i \in Used \ S : ret'[i].size = ret[i].size /\ ret'[i].seq = Rank(S, i)
  BY <1>4, <1>6, <1>7
<1>10. Ranked'
  <2>1. \A i \in Used \ S : ret[i].size > 0
    BY DEF BudgetInv, Ranked
  <2>2. /\ \A i \in Used \ S : Rank(S, i) \in Nat /\ Rank(S, i) < Cardinality(Used \ S) + 1
        /\ \A i, j \in Used \ S : Rank(S, i) = Rank(S, j) => i = j
    BY <1>1, RanksApart DEF BudgetInv
  <2>3. Cardinality(Used \ S) \in Nat
    BY UsedFinite, FS_CardinalityType
  <2>4. \A i \in Used' : ret'[i].size > 0
    BY <1>8, <1>9, <2>1
  <2>5. \A i \in Used \ S : ret'[i].seq # ret'[s].seq
    <3> SUFFICES ASSUME NEW i \in Used \ S PROVE ret'[i].seq # ret'[s].seq
      OBVIOUS
    <3>1. ret'[i].seq = Rank(S, i) /\ ret'[s].seq = Cardinality(Used \ S) + 1
      BY <1>9
    <3>2. Rank(S, i) \in Nat /\ Rank(S, i) < Cardinality(Used \ S) + 1
      BY <2>2
    <3>3. QED
      BY <2>3, <3>1, <3>2
  <2>6. \A i, j \in Used \ S : ret'[i].seq = ret'[j].seq => i = j
    BY <1>9, <2>2
  <2>7. \A i, j \in Used' : ret'[i].seq = ret'[j].seq => i = j
    BY <1>8, <2>5, <2>6
  <2>8. QED
    BY <2>4, <2>7 DEF Ranked
<1>11. /\ IsFiniteSet(Used \ S) /\ IsFiniteSet({s}) /\ (Used \ S) \cap {s} = {}
       /\ \A i \in (Used \ S) \cup {s} : ret'[i].size \in Nat
  BY <1>1, <1>9, UsedFinite, FS_Singleton
<1>12. SizesIn(ret', (Used \ S) \cup {s}) = SizesIn(ret', Used \ S) + SizesIn(ret', {s})
  BY <1>11, SumSplit, Zenon
<1>13. SizesIn(ret', {s}) = n
  BY <1>9, SumOne
<1>14. SizesIn(ret', Used \ S) = SizesIn(ret, Used \ S)
  BY <1>9, SumSame
<1>15. bytes - SumSizes(S) = SizesIn(ret, Used \ S) /\ SizesIn(ret, Used \ S) \in Nat
       /\ bytes \in Nat /\ SumSizes(S) \in Nat
  BY <1>1, SumRest
<1>16. SumSizes(Used)' = SizesIn(ret', (Used \ S) \cup {s})
  BY <1>8 DEF SumSizes, SizesIn, RetainedPages, PagesIn
<1>17. bytes' = SumSizes(Used)'
  BY <1>2, <1>12, <1>13, <1>14, <1>15, <1>16
<1>18. ASSUME bytes' > RetainedBytes PROVE Cardinality(Used') = 1
  <2>1. Used \ S = {}
    BY <1>2, <1>3, <1>15, <1>18, TableAssumption
  <2>2. Used' = {s}
    BY <1>8, <2>1
  <2>3. QED
    BY <2>2, FS_Singleton
<1>19. QED
  BY <1>10, <1>17, <1>18 DEF RetainedBudget

\* A step that leaves the retained ranges and their count alone.
LEMMA BudgetKept ==
  ASSUME BudgetInv, Used' = Used, bytes' = bytes,
         \A i \in Used : ret'[i].size = ret[i].size /\ ret'[i].seq = ret[i].seq
  PROVE  Ranked' /\ RetainedBudget'
<1>1. Ranked'
  BY DEF BudgetInv, Ranked
<1>2. SizesIn(ret', Used) = SizesIn(ret, Used)
  BY SumSame
<1>3. SumSizes(Used)' = SizesIn(ret', Used) /\ SumSizes(Used) = SizesIn(ret, Used)
  BY DEF SumSizes, SizesIn, RetainedPages, PagesIn
<1>4. QED
  BY <1>1, <1>2, <1>3 DEF BudgetInv, RetainedBudget

\* No ioctl breaks it, whatever the client does.
LEMMA BudgetStep == TypeOK /\ BudgetInv /\ [Next]_vars => BudgetInv'
<1> SUFFICES ASSUME TypeOK, BudgetInv, [Next]_vars PROVE BudgetInv'
  OBVIOUS
<1> USE DEF BudgetInv
<1>0. \A h \in Live : bo[h].size > 0 /\ h \in Handles
  BY DEF BosSized, Live
<1>1. ASSUME NEW n \in ByteCounts, NEW p \in Phys, GemCreate(n, p)
      PROVE  BudgetInv'
  <2> DEFINE h == CHOOSE x \in Handles \ Live : \A y \in Handles \ Live : x <= y
  <2>1. h \in Handles
    BY <1>1, FreeHandle DEF GemCreate
  <2>2. bo' = [bo EXCEPT ![h] = [@ EXCEPT !.live = TRUE, !.size = RoundUpPage(n),
                                          !.phys = p, !.va = 0, !.cpu = NoPhys]]
    BY <1>1 DEF GemCreate
  <2>3. RoundUpPage(n) > 0
    BY <1>1, RoundType DEF GemCreate
  <2> HIDE DEF h
  <2>4. bo'[h].size = RoundUpPage(n) /\ \A g \in Handles : g # h => bo'[g] = bo[g]
    BY <2>1, <2>2 DEF TypeOK, BoRecord
  <2>5. BosSized'
    BY <2>3, <2>4, <1>0 DEF BosSized, Live
  <2>6. Ranked' /\ RetainedBudget'
    BY <1>1, BudgetKept DEF GemCreate, Used
  <2>7. QED
    BY <2>5, <2>6
<1>2. ASSUME NEW h \in Handles, GemClose(h)
      PROVE  BudgetInv'
  <2>1. h \in Live /\ bo' = [bo EXCEPT ![h] = NoBo]
    BY <1>2 DEF GemClose
  <2>2. BosSized'
    <3>1. bo'[h] = NoBo /\ \A g \in Handles : g # h => bo'[g] = bo[g]
      BY <2>1 DEF TypeOK
    <3>2. QED
      BY <3>1, <1>0 DEF BosSized, Live, NoBo
  <2>3. bo[h].va \in Nat /\ bo[h].size \in Nat /\ bo[h].phys \in Phys /\ bo[h].prot \in SUBSET Flags
    BY DEF TypeOK, BoRecord
  <2>4. CASE Retain(bo[h].va, bo[h].size, bo[h].phys, bo[h].prot, TRUE)
    BY <1>0, <2>1, <2>2, <2>3, <2>4, BudgetRetains
  <2>5. CASE Adopt(bo[h].phys)
    <3> DEFINE T == Sharers({}, bo[h].phys)
               i == CHOOSE x \in T : \A y \in T : x <= y
    <3>1. ret' = [ret EXCEPT ![i].owns = TRUE] /\ bytes' = bytes
      BY <2>5 DEF Adopt
    <3> HIDE DEF i
    <3>2. \A j \in Slots : ret'[j].used = ret[j].used /\ ret'[j].size = ret[j].size
                           /\ ret'[j].seq = ret[j].seq
      BY <3>1 DEF TypeOK, RangeRecord
    <3>3. Used' = Used
      BY <3>2 DEF Used
    <3>4. QED
      BY <2>2, <3>1, <3>2, <3>3, BudgetKept DEF Used
  <2>6. CASE FreeDirect(bo[h].phys)
    BY <2>2, <2>6, BudgetKept DEF FreeDirect, Used
  <2>7. QED
    BY <1>2, <2>4, <2>5, <2>6 DEF GemClose
<1>3. ASSUME NEW h \in Live, MapDirect(h)
      PROVE  BudgetInv'
  <2>1. h \in Handles
    BY <1>0
  <2>2. \A g \in Handles : bo'[g].live = bo[g].live /\ bo'[g].size = bo[g].size
    BY <1>3, <2>1 DEF MapDirect, TypeOK, BoRecord
  <2>3. BosSized'
    BY <2>2, <1>0 DEF BosSized, Live
  <2>4. QED
    BY <1>3, <2>3, BudgetKept DEF MapDirect, Used
<1>4. ASSUME NEW h \in Handles, NEW va \in Addrs, NEW k \in ByteCounts, NEW flags \in FlagSets,
             GemVaMap(h, va, k, flags)
      PROVE  BudgetInv'
  <2> DEFINE n == MapSize(h, k)
             prot == Prot(flags)
  <2>1. h \in Live /\ n \in Nat /\ prot \in SUBSET Flags /\ va \in Nat /\ bo[h].phys \in Phys
    BY <1>4, MapArgs, MemoryAssumption DEF GemVaMap, Addrs, TypeOK, BoRecord
  <2>2. MapOwn(h, va, n, prot) \/ MapTakeOver(h, va, n, prot) \/ MapAfresh(h, va, n, prot)
    BY <1>4 DEF GemVaMap
  <2> HIDE DEF n, prot
  <2>3. ASSUME NEW p, BoSet(h, va, prot, p)
        PROVE  BosSized'
    BY <2>1, <2>3, <1>0 DEF BosSized, BoSet
  <2>4. ASSUME NEW i \in Used, ret' = Dropped({i}), bytes' = bytes - ret[i].size
        PROVE  Ranked' /\ RetainedBudget'
    <3>1. SumSizes({i}) = ret[i].size
      <4>1. ret[i].size \in Nat /\ SumSizes({i}) = SizesIn(ret, {i})
        BY UsedFinite
      <4>2. QED
        BY <4>1, SumOne
    <3>2. Used' = Used \ {i}
      BY <2>4, DroppedFacts DEF Used, NoRange
    <3>3. \A j \in Used \ {i} : ret'[j].size = ret[j].size /\ ret'[j].seq = Rank({i}, j)
      BY <2>4 DEF Used, Dropped, Survivor, Rank
    <3>4. QED
      BY <2>4, <3>1, <3>2, <3>3, BudgetLoses
  <2>5. CASE MapOwn(h, va, n, prot)
    <3>1. PICK i \in Used : ret' = Dropped({i}) /\ bytes' = bytes - ret[i].size
      BY <2>5 DEF MapOwn, FirstKeepable, Keepable, Matches
    <3>2. BoSet(h, va, prot, bo[h].phys)
      BY <2>1, <2>5, BoMapped DEF MapOwn
    <3>3. QED
      BY <2>3, <2>4, <3>1, <3>2
  <2>6. CASE MapTakeOver(h, va, n, prot)
    <3>1. PICK i \in Used : /\ ret' = Dropped({i}) /\ bytes' = bytes - ret[i].size
                            /\ bo' = [bo EXCEPT ![h].va = va, ![h].prot = prot,
                                                ![h].phys = ret[i].phys]
      BY <2>6 DEF MapTakeOver, FirstKeepable, Keepable, Matches
    <3>2. ret[i].phys \in Phys
      BY DEF TypeOK, RangeRecord, Used
    <3>3. BoSet(h, va, prot, ret[i].phys)
      BY <2>1, <3>1, <3>2, BoSwapped
    <3>4. QED
      BY <2>3, <2>4, <3>1, <3>3
  <2>7. CASE MapAfresh(h, va, n, prot)
    <3> DEFINE S == Overlapping(va, n)
    <3>1. S \in SUBSET Used
      BY DEF Overlapping
    <3>2. /\ ret' = Released(S) /\ bytes' = bytes - SumSizes(S)
          /\ bo' = [bo EXCEPT ![h].va = va, ![h].prot = prot] \/ bo' = bo
      BY <2>7 DEF MapAfresh
    <3> HIDE DEF S
    <3>3. Used' = Used \ S
      BY <3>1, <3>2, ReleasedFacts DEF Used, NoRange
    <3>4. \A j \in Used \ S : ret'[j].size = ret[j].size /\ ret'[j].seq = Rank(S, j)
      BY <3>1, <3>2 DEF Used, Released, Survivor, Rank
    <3>5. Ranked' /\ RetainedBudget'
      BY <3>1, <3>2, <3>3, <3>4, BudgetLoses
    <3>6. CASE bo' = [bo EXCEPT ![h].va = va, ![h].prot = prot]
      BY <2>1, <2>3, <3>5, <3>6, BoMapped
    <3>7. CASE bo' = bo
      BY <3>5, <3>7 DEF BosSized, Live
    <3>8. QED
      BY <3>2, <3>6, <3>7
  <2>8. QED
    BY <2>2, <2>5, <2>6, <2>7
<1>5. ASSUME NEW h \in Handles, GemVaUnmap(h)
      PROVE  BudgetInv'
  <2>1. h \in Live /\ Retain(bo[h].va, bo[h].size, bo[h].phys, bo[h].prot, FALSE)
    BY <1>5 DEF GemVaUnmap
  <2>2. \A g \in Handles : bo'[g].live = bo[g].live /\ bo'[g].size = bo[g].size
    BY <1>5 DEF GemVaUnmap, TypeOK, BoRecord
  <2>3. BosSized'
    BY <2>2, <1>0 DEF BosSized, Live
  <2>4. bo[h].va \in Nat /\ bo[h].size \in Nat /\ bo[h].phys \in Phys /\ bo[h].prot \in SUBSET Flags
    BY DEF TypeOK, BoRecord
  <2>5. QED
    BY <1>0, <2>1, <2>3, <2>4, BudgetRetains
<1>6. ASSUME UNCHANGED vars
      PROVE  BudgetInv'
  <2>1. BosSized'
    BY <1>6 DEF vars, BosSized, Live
  <2>2. QED
    BY <1>6, <2>1, BudgetKept DEF vars, Used
<1>7. QED
  BY <1>1, <1>2, <1>3, <1>4, <1>5, <1>6 DEF Next, Mmap, BoCpuRange, CpuMapVa

\* Nothing is retained at the start.
LEMMA BudgetStart == Init => BudgetInv
<1> SUFFICES ASSUME Init PROVE BudgetInv
  OBVIOUS
<1>1. Used = {} /\ Live = {}
  BY DEF Init, Used, Live, NoRange, NoBo
<1>2. SumSizes(Used) = 0
  BY <1>1, FS_EmptySet DEF SumSizes, RetainedPages
<1>3. bytes = 0 /\ ~(0 > RetainedBytes)
  BY TableAssumption DEF Init
<1>4. QED
  BY <1>1, <1>2, <1>3 DEF BudgetInv, BosSized, Ranked, RetainedBudget

\* Whatever the client maps, closes and asks for, s_retained_bytes is the size of what is
\* retained, and the limit is exceeded only by a range that is larger than it alone: the
\* eviction loop of retain always frees enough, and never counts on bytes that are not there.
THEOREM RetainedBudgetHolds == Spec => []RetainedBudget
<1>1. TypeOK /\ BudgetInv /\ [Next]_vars => TypeOK' /\ BudgetInv'
  BY TypeStep, BudgetStep
<1>2. Init => TypeOK /\ BudgetInv
  BY TypeInit, BudgetStart
<1>3. BudgetInv => RetainedBudget
  BY DEF BudgetInv
<1>4. QED
  BY <1>1, <1>2, <1>3, PTL DEF Spec

=============================================================================
