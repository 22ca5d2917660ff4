---------------------------- MODULE TablesProofs ----------------------------
(***************************************************************************)
(* Proofs about the tables of the winsys. Tables, for any number of        *)
(* callers, any size of the tables and any bounds, with calls overlapping  *)
(* as they like: an entry has one owner unless two creates had both found  *)
(* it dead. CpuMaps, for any size of the buffer table, any pages, any      *)
(* sizes of buffers and any number of addresses: the drain is proved for   *)
(* threads that overlap as they like; that no mapping is lost or touched   *)
(* after it is gone, for ioctls entered one at a time.                     *)
(***************************************************************************)
EXTENDS Tables, CpuMaps, FiniteSetTheorems, TLAPS

Doing == {"search", "claim"} \X Kinds

\* Searches stay inside their table, and handles name entries of it.
TablesTypeOK ==
  /\ live \in [Kinds -> [Slots -> BOOLEAN]]
  /\ hangs \in [Slots -> 0 .. MaxHangs]
  /\ at \in [Callers -> Slots]
  /\ pc \in [Callers -> {<<"idle">>} \cup Doing]
  /\ held \in [Callers -> [Kinds -> SUBSET Handles]]
  /\ under \in {0} \cup Handles /\ stale \in BOOLEAN
  /\ clash \in SUBSET (Kinds \X Slots)
  /\ failed \in SUBSET Handles /\ strays \in SUBSET Handles

\* Caller c has found entry i of table k dead, and has yet to claim it.
Claiming(c, k, i) == pc[c] = <<"claim", k>> /\ at[c] = i

\* An entry nobody clashed over has at most one caller about to claim it, and is dead.
ClaimsApart ==
  \A k \in Kinds, i \in Slots : Unclashed(k, i) =>
    /\ \A c, d \in Callers : Claiming(c, k, i) /\ Claiming(d, k, i) => c = d
    /\ \A c \in Callers : Claiming(c, k, i) => ~live[k][i]

\* The hangs of a live context are the failures noted since it was handed out, but for
\* one charged too late to the context before it.
HangsAreFailures ==
  \A h \in Handles :
    live["ctx"][SlotOf(h)] /\ h \notin strays => (h \in failed <=> hangs[SlotOf(h)] > 0)

TablesInv == TablesTypeOK /\ ClaimsApart /\ HandlesApart /\ HangsAreFailures

----------------------------------------------------------------------------
\* Types.

\* A handle and the entry it names are one apart.
LEMMA SlotType ==
  /\ \A h \in Handles : SlotOf(h) \in Slots /\ SlotOf(h) + 1 = h
  /\ \A i \in Slots : i + 1 \in Handles /\ SlotOf(i + 1) = i
  /\ \A g, h \in Handles : SlotOf(g) = SlotOf(h) => g = h
  /\ 0 \in Slots
  BY TablesAssumption DEF Handles, Slots, SlotOf

\* A caller that searches or claims does so in one of the tables.
LEMMA DoingType ==
  /\ \A p \in Doing : p[1] \in {"search", "claim"} /\ p[2] \in Kinds /\ p = <<p[1], p[2]>>
  /\ \A k \in Kinds : <<"search", k>> \in Doing /\ <<"claim", k>> \in Doing
  /\ \A k \in Kinds : /\ <<"search", k>>[1] = "search" /\ <<"search", k>>[2] = k
                      /\ <<"claim", k>>[1] = "claim" /\ <<"claim", k>>[2] = k
  /\ <<"idle">>[1] = "idle" /\ <<"idle">> \notin Doing
  BY DEF Doing

\* What a caller inside a call is doing, read part by part.
LEMMA Inside ==
  ASSUME TablesTypeOK, NEW c \in Callers, pc[c][1] \in {"search", "claim"}
  PROVE  /\ pc[c] \in Doing /\ pc[c][2] \in Kinds /\ at[c] \in Slots /\ at[c] + 1 \in Handles
         /\ SlotOf(at[c] + 1) = at[c]
         /\ pc[c][1] = "claim" => Claiming(c, pc[c][2], at[c])
<1>1. pc[c] \in Doing
  <2>1. pc[c] = <<"idle">> \/ pc[c] \in Doing
    BY DEF TablesTypeOK
  <2>2. pc[c] # <<"idle">>
    BY DoingType
  <2>3. QED
    BY <2>1, <2>2
<1>2. pc[c][2] \in Kinds /\ pc[c] = <<pc[c][1], pc[c][2]>>
  BY <1>1, DoingType
<1>3. at[c] \in Slots
  BY DEF TablesTypeOK
<1>4. QED
  BY <1>1, <1>2, <1>3, SlotType DEF Claiming

\* Forgetting a context, or an entry of another table, leaves the other contexts' notes.
LEMMA Forgets ==
  ASSUME TablesTypeOK, NEW k \in Kinds, NEW h \in Handles, Forget(k, h)
  PROVE  /\ hangs' \in [Slots -> 0 .. MaxHangs]
         /\ failed' \in SUBSET Handles /\ strays' \in SUBSET Handles
         /\ \A g \in Handles : ~(k = "ctx" /\ g = h) =>
              /\ hangs'[SlotOf(g)] = hangs[SlotOf(g)]
              /\ g \in failed' <=> g \in failed
              /\ g \in strays' <=> g \in strays
         /\ k = "ctx" => hangs'[SlotOf(h)] = 0 /\ h \notin failed'
<1>1. 0 \in 0 .. MaxHangs
  BY TablesAssumption
<1>2. CASE k = "ctx"
  <2>1. /\ hangs' = [hangs EXCEPT ![SlotOf(h)] = 0]
        /\ failed' = failed \ {h} /\ strays' = strays \ {h}
    BY <1>2 DEF Forget
  <2>2. hangs \in [Slots -> 0 .. MaxHangs] /\ failed \in SUBSET Handles /\ strays \in SUBSET Handles
    BY DEF TablesTypeOK
  <2>3. \A g \in Handles : g # h => SlotOf(g) # SlotOf(h) /\ SlotOf(g) \in Slots
    BY SlotType
  <2>4. SlotOf(h) \in Slots
    BY SlotType
  <2>5. QED
    BY <1>1, <1>2, <2>1, <2>2, <2>3, <2>4
<1>3. CASE k # "ctx"
  BY <1>3 DEF Forget, TablesTypeOK
<1>4. QED
  BY <1>2, <1>3

\* The call returns.
LEMMA Returns ==
  ASSUME TablesTypeOK, NEW c \in Callers, Return(c)
  PROVE  /\ pc' \in [Callers -> {<<"idle">>} \cup Doing] /\ at' \in [Callers -> Slots]
         /\ pc'[c] = <<"idle">>
         /\ \A d \in Callers : d # c => pc'[d] = pc[d] /\ at'[d] = at[d]
  BY SlotType DEF Return, TablesTypeOK

\* No call leaves its table, on any interleaving.
LEMMA TablesTypeStep == TablesTypeOK /\ [Next]_vars => TablesTypeOK'
<1> SUFFICES ASSUME TablesTypeOK, [Next]_vars PROVE TablesTypeOK'
  OBVIOUS
<1>1. CASE UNCHANGED vars
  BY <1>1 DEF vars, tableVars, hangVars, TablesTypeOK
<1>2. ASSUME NEW c \in Callers, NEW k \in Kinds, StartCreate(c, k) PROVE TablesTypeOK'
  BY <1>2, SlotType, DoingType DEF StartCreate, hangVars, TablesTypeOK
<1>3. ASSUME NEW c \in Callers, Search(c) PROVE TablesTypeOK'
  <2> DEFINE k == pc[c][2]
             i == at[c]
  <2>1. pc[c] \in Doing /\ k \in Kinds /\ i \in Slots
    BY <1>3, Inside DEF Search
  <2>2. UNCHANGED <<live, held, hangs, under, stale, failed, strays>>
    BY <1>3 DEF Search, hangVars
  <2>3. \/ /\ i + 1 \in Slots /\ at' = [at EXCEPT ![c] = i + 1] /\ UNCHANGED <<pc, clash>>
        \/ Return(c) /\ UNCHANGED clash
        \/ /\ pc' = [pc EXCEPT ![c] = <<"claim", k>>] /\ UNCHANGED at
           /\ clash' = clash \cup
                {<<k, i>> : d \in {d \in Callers : pc[d] = <<"claim", k>> /\ at[d] = i}}
    BY <1>3 DEF Search
  <2>4. at' \in [Callers -> Slots]
    BY <2>1, <2>3, Returns DEF TablesTypeOK
  <2>5. pc' \in [Callers -> {<<"idle">>} \cup Doing]
    <3>1. pc \in [Callers -> {<<"idle">>} \cup Doing] /\ <<"claim", k>> \in Doing
      BY <2>1, DoingType DEF TablesTypeOK
    <3>2. Return(c) => pc' \in [Callers -> {<<"idle">>} \cup Doing]
      BY Returns
    <3>3. QED
      BY <2>3, <3>1, <3>2
  <2>6. clash' \in SUBSET (Kinds \X Slots)
    BY <2>1, <2>3 DEF TablesTypeOK
  <2>7. QED
    BY <2>2, <2>4, <2>5, <2>6 DEF TablesTypeOK
<1>4. ASSUME NEW c \in Callers, CreateRefused(c) PROVE TablesTypeOK'
  BY <1>4, Returns DEF CreateRefused, hangVars, TablesTypeOK
<1>5. ASSUME NEW c \in Callers, Claim(c) PROVE TablesTypeOK'
  <2> DEFINE k == pc[c][2]
             h == at[c] + 1
  <2>1. k \in Kinds /\ h \in Handles /\ at[c] \in Slots
    BY <1>5, Inside DEF Claim
  <2>2. live' \in [Kinds -> [Slots -> BOOLEAN]]
    BY <1>5, <2>1 DEF Claim, TablesTypeOK
  <2>3. held' \in [Callers -> [Kinds -> SUBSET Handles]]
    BY <1>5, <2>1 DEF Claim, TablesTypeOK
  <2>4. hangs' \in [Slots -> 0 .. MaxHangs] /\ failed' \in SUBSET Handles /\ strays' \in SUBSET Handles
    BY <1>5, <2>1, Forgets DEF Claim
  <2>5. pc' \in [Callers -> {<<"idle">>} \cup Doing] /\ at' \in [Callers -> Slots]
    BY <1>5, Returns DEF Claim
  <2>6. QED
    BY <1>5, <2>2, <2>3, <2>4, <2>5 DEF Claim, TablesTypeOK
<1>6. ASSUME NEW c \in Callers, NEW k \in Kinds, NEW h \in Handles, Destroy(c, k, h)
      PROVE  TablesTypeOK'
  <2>1. live' \in [Kinds -> [Slots -> BOOLEAN]]
    BY <1>6, SlotType DEF Destroy, Clear, TablesTypeOK
  <2>2. hangs' \in [Slots -> 0 .. MaxHangs] /\ failed' \in SUBSET Handles /\ strays' \in SUBSET Handles
    BY <1>6, Forgets DEF Destroy
  <2>3. held' \in [Callers -> [Kinds -> SUBSET Handles]]
    BY <1>6 DEF Destroy, TablesTypeOK
  <2>4. stale' \in BOOLEAN
    BY <1>6 DEF Destroy, TablesTypeOK
  <2>5. QED
    BY <1>6, <2>1, <2>2, <2>3, <2>4 DEF Destroy, TablesTypeOK
<1>7. ASSUME NEW h \in Handles, NoteHang(h) PROVE TablesTypeOK'
  <2>1. hangs' \in [Slots -> 0 .. MaxHangs]
    BY <1>7, SlotType, TablesAssumption DEF NoteHang, TablesTypeOK
  <2>2. failed' \in SUBSET Handles /\ strays' \in SUBSET Handles
    BY <1>7 DEF NoteHang, TablesTypeOK
  <2>3. QED
    BY <1>7, <2>1, <2>2 DEF NoteHang, tableVars, TablesTypeOK
<1>8. ASSUME NEW h \in Handles, Submit(h) PROVE TablesTypeOK'
  BY <1>8 DEF Submit, tableVars, TablesTypeOK
<1>9. CASE SubmitDone
  BY <1>9 DEF SubmitDone, tableVars, TablesTypeOK
<1>10. QED
  BY <1>1, <1>2, <1>3, <1>4, <1>5, <1>6, <1>7, <1>8, <1>9 DEF Next

\* Every table starts empty.
LEMMA TablesTypeInit == Init => TablesTypeOK
<1>1. 0 \in Slots /\ 0 \in 0 .. MaxHangs
  BY TablesAssumption, SlotType
<1>2. QED
  BY <1>1 DEF Init, TablesTypeOK

\* Whatever the callers do, and however their calls overlap, a search never reads past
\* the end of its table and a handle given out names an entry of it.
THEOREM TablesTypeCorrect == Spec => []TablesTypeOK
  BY TablesTypeInit, TablesTypeStep, PTL DEF Spec

----------------------------------------------------------------------------
\* Owners.

\* A step that claims nothing new, and leaves every entry as live as it was or clears it,
\* keeps claims apart.
LEMMA NoNewClaim ==
  ASSUME ClaimsApart, clash' = clash,
         \A c \in Callers, k \in Kinds, i \in Slots : Claiming(c, k, i)' => Claiming(c, k, i),
         \A k \in Kinds, i \in Slots : live'[k][i] => live[k][i]
  PROVE  ClaimsApart'
  BY DEF ClaimsApart, Unclashed

\* A step that leaves entries and holders alone keeps owners apart, also when it clashes.
LEMMA SameOwners ==
  ASSUME HandlesApart, clash \subseteq clash', UNCHANGED <<live, held>>
  PROVE  HandlesApart'
  BY DEF HandlesApart, Unclashed

\* A context forgotten was handed out anew, or is gone: the others' notes stay as they are.
LEMMA ForgetKeeps ==
  ASSUME TablesTypeOK, HangsAreFailures, NEW k \in Kinds, NEW h \in Handles, Forget(k, h),
         \A g \in Handles : live'["ctx"][SlotOf(g)] /\ ~(k = "ctx" /\ g = h) => live["ctx"][SlotOf(g)]
  PROVE  HangsAreFailures'
<1> SUFFICES ASSUME NEW g \in Handles, live'["ctx"][SlotOf(g)], g \notin strays'
             PROVE  g \in failed' <=> hangs'[SlotOf(g)] > 0
  BY DEF HangsAreFailures
<1>1. CASE k = "ctx" /\ g = h
  BY <1>1, Forgets
<1>2. CASE ~(k = "ctx" /\ g = h)
  <2>1. /\ live["ctx"][SlotOf(g)] /\ hangs'[SlotOf(g)] = hangs[SlotOf(g)]
        /\ (g \in failed' <=> g \in failed) /\ g \notin strays
    BY <1>2, Forgets
  <2>2. QED
    BY <2>1 DEF HangsAreFailures
<1>3. QED
  BY <1>1, <1>2

\* One entry of the search: two callers that find it dead clash over it.
LEMMA SearchKeeps ==
  ASSUME TablesInv, NEW c \in Callers, Search(c)
  PROVE  ClaimsApart' /\ HandlesApart' /\ HangsAreFailures'
<1> DEFINE k == pc[c][2]
           i == at[c]
<1> USE DEF TablesInv
<1>1. pc[c] \in Doing /\ k \in Kinds /\ i \in Slots /\ pc[c][1] = "search"
  BY Inside DEF Search
<1>2. UNCHANGED <<live, held, hangs, failed, strays>>
  BY DEF Search, hangVars
<1>3. \/ /\ i + 1 \in Slots /\ at' = [at EXCEPT ![c] = i + 1] /\ UNCHANGED <<pc, clash>>
      \/ Return(c) /\ UNCHANGED clash
      \/ /\ pc' = [pc EXCEPT ![c] = <<"claim", k>>] /\ UNCHANGED at /\ ~live[k][i]
         /\ clash' = clash \cup
              {<<k, i>> : d \in {d \in Callers : pc[d] = <<"claim", k>> /\ at[d] = i}}
  BY DEF Search, Taken
<1>4. clash \subseteq clash'
  BY <1>3
<1>5. HandlesApart' /\ HangsAreFailures'
  BY <1>2, <1>4, SameOwners DEF HangsAreFailures
<1>6. pc \in [Callers -> {<<"idle">>} \cup Doing] /\ at \in [Callers -> Slots]
  BY DEF TablesTypeOK
<1>7. \A q \in Kinds, j \in Slots : ~Claiming(c, q, j)
  BY <1>1, DoingType DEF Claiming
<1>8. CASE i + 1 \in Slots /\ at' = [at EXCEPT ![c] = i + 1] /\ UNCHANGED <<pc, clash>>
  <2>1. \A d \in Callers, q \in Kinds, j \in Slots : Claiming(d, q, j)' => Claiming(d, q, j)
    <3>1. pc'[c] = pc[c] /\ \A d \in Callers : d # c => at'[d] = at[d]
      BY <1>6, <1>8
    <3>2. QED
      BY <1>1, <1>8, <3>1, DoingType DEF Claiming
  <2>2. ClaimsApart'
    BY <1>2, <1>8, <2>1, NoNewClaim
  <2>3. QED
    BY <1>5, <2>2
<1>9. CASE Return(c) /\ UNCHANGED clash
  <2>1. \A d \in Callers, q \in Kinds, j \in Slots : Claiming(d, q, j)' => Claiming(d, q, j)
    <3>1. pc'[c] = <<"idle">> /\ \A d \in Callers : d # c => pc'[d] = pc[d] /\ at'[d] = at[d]
      BY <1>9, Returns
    <3>2. QED
      BY <3>1, DoingType DEF Claiming
  <2>2. ClaimsApart'
    BY <1>2, <1>9, <2>1, NoNewClaim
  <2>3. QED
    BY <1>5, <2>2
<1>10. CASE /\ pc' = [pc EXCEPT ![c] = <<"claim", k>>] /\ UNCHANGED at /\ ~live[k][i]
            /\ clash' = clash \cup
                 {<<k, i>> : d \in {d \in Callers : pc[d] = <<"claim", k>> /\ at[d] = i}}
  <2>1. \A d \in Callers : /\ d # c => pc'[d] = pc[d]
                           /\ at'[d] = at[d]
                           /\ Claiming(d, k, i) => <<k, i>> \in clash'
    BY <1>6, <1>10 DEF Claiming
  <2>2. pc'[c] = <<"claim", k>> /\ at'[c] = i
    BY <1>6, <1>10
  <2>3. \A d \in Callers, q \in Kinds, j \in Slots :
          d # c => (Claiming(d, q, j)' <=> Claiming(d, q, j))
    BY <2>1 DEF Claiming
  <2>4. \A q \in Kinds, j \in Slots : Claiming(c, q, j)' => q = k /\ j = i
    BY <1>1, <2>2, DoingType DEF Claiming
  <2>5. ASSUME NEW q \in Kinds, NEW j \in Slots, Unclashed(q, j)'
        PROVE  /\ \A d, e \in Callers : Claiming(d, q, j)' /\ Claiming(e, q, j)' => d = e
               /\ \A d \in Callers : Claiming(d, q, j)' => ~live'[q][j]
    <3>1. Unclashed(q, j)
      BY <1>4, <2>5 DEF Unclashed
    <3>2. q = k /\ j = i => \A d \in Callers : ~Claiming(d, q, j)
      BY <2>1, <2>5 DEF Unclashed
    <3>3. /\ \A d, e \in Callers : Claiming(d, q, j) /\ Claiming(e, q, j) => d = e
          /\ \A d \in Callers : Claiming(d, q, j) => ~live[q][j]
      BY <3>1 DEF ClaimsApart
    <3>4. QED
      BY <1>2, <1>10, <2>3, <2>4, <3>2, <3>3
  <2>6. ClaimsApart'
    BY <2>5 DEF ClaimsApart
  <2>7. QED
    BY <1>5, <2>6
<1>11. QED
  BY <1>3, <1>8, <1>9, <1>10

\* An entry claimed without a clash was dead and nobody's.
LEMMA ClaimKeeps ==
  ASSUME TablesInv, NEW c \in Callers, Claim(c)
  PROVE  ClaimsApart' /\ HandlesApart' /\ HangsAreFailures'
<1> USE DEF TablesInv
<1>0. PICK k \in Kinds, i \in Slots, h \in Handles :
        k = pc[c][2] /\ i = at[c] /\ h = i + 1 /\ SlotOf(h) = i /\ Claiming(c, k, i)
  BY Inside DEF Claim
<1>1. /\ live' = [live EXCEPT ![k][i] = TRUE] /\ Forget(k, h)
      /\ held' = [held EXCEPT ![c][k] = @ \cup {h}]
      /\ Return(c) /\ UNCHANGED clash
  BY <1>0 DEF Claim
<1>2. \A q \in Kinds, j \in Slots : live'[q][j] = IF q = k /\ j = i THEN TRUE ELSE live[q][j]
  BY <1>1 DEF TablesTypeOK
<1>3. \A d \in Callers, q \in Kinds :
        held'[d][q] = IF d = c /\ q = k THEN held[d][q] \cup {h} ELSE held[d][q]
  BY <1>1 DEF TablesTypeOK
<1>4. /\ \A q \in Kinds, j \in Slots : ~Claiming(c, q, j)'
      /\ \A d \in Callers, q \in Kinds, j \in Slots : Claiming(d, q, j)' => Claiming(d, q, j) /\ d # c
  <2>1. pc'[c] = <<"idle">> /\ \A d \in Callers : d # c => pc'[d] = pc[d] /\ at'[d] = at[d]
    BY <1>1, Returns
  <2>2. QED
    BY <2>1, DoingType DEF Claiming
<1>5. ClaimsApart'
  <2>1. SUFFICES ASSUME NEW q \in Kinds, NEW j \in Slots, Unclashed(q, j)
                 PROVE  /\ \A d, e \in Callers : Claiming(d, q, j)' /\ Claiming(e, q, j)' => d = e
                        /\ \A d \in Callers : Claiming(d, q, j)' => ~live'[q][j]
    BY <1>1 DEF ClaimsApart, Unclashed
  <2>2. \A d, e \in Callers : Claiming(d, q, j) /\ Claiming(e, q, j) => d = e
    BY <2>1 DEF ClaimsApart
  <2>3. \A d \in Callers : Claiming(d, q, j) => ~live[q][j]
    BY <2>1 DEF ClaimsApart
  <2>4. \A d \in Callers : Claiming(d, q, j)' => ~(q = k /\ j = i)
    BY <1>0, <1>4, <2>2
  <2>5. QED
    BY <1>2, <1>4, <2>2, <2>3, <2>4
<1>6. HandlesApart'
  <2>1. SUFFICES ASSUME NEW q \in Kinds, NEW j \in Slots, Unclashed(q, j)
                 PROVE  /\ \A d, e \in Callers : j + 1 \in held'[d][q] /\ j + 1 \in held'[e][q] => d = e
                        /\ live'[q][j] <=> \E d \in Callers : j + 1 \in held'[d][q]
    BY <1>1 DEF HandlesApart, Unclashed
  <2>2. /\ \A d, e \in Callers : j + 1 \in held[d][q] /\ j + 1 \in held[e][q] => d = e
        /\ live[q][j] <=> \E d \in Callers : j + 1 \in held[d][q]
    BY <2>1 DEF HandlesApart
  <2>3. CASE q = k /\ j = i
    <3>1. ~live[q][j]
      BY <1>0, <2>1, <2>3 DEF ClaimsApart
    <3>2. \A d \in Callers : j + 1 \notin held[d][q]
      BY <2>2, <3>1
    <3>3. \A d \in Callers : j + 1 \in held'[d][q] <=> d = c
      BY <1>0, <1>3, <2>3, <3>2
    <3>4. QED
      BY <1>2, <2>3, <3>3
  <2>4. CASE ~(q = k /\ j = i)
    <3>1. q = k => j + 1 # h
      BY <1>0, <2>4, SlotType
    <3>2. \A d \in Callers : j + 1 \in held'[d][q] <=> j + 1 \in held[d][q]
      BY <1>3, <3>1
    <3>3. QED
      BY <1>2, <2>2, <2>4, <3>2
  <2>5. QED
    BY <2>3, <2>4
<1>7. HangsAreFailures'
  <2>1. \A g \in Handles :
          live'["ctx"][SlotOf(g)] /\ ~(k = "ctx" /\ g = h) => live["ctx"][SlotOf(g)]
    BY <1>0, <1>2, SlotType, TablesAssumption
  <2>2. QED
    BY <1>1, <2>1, ForgetKeeps
<1>8. QED
  BY <1>5, <1>6, <1>7

\* An entry cleared without a clash had one owner, who gives it back.
LEMMA DestroyKeeps ==
  ASSUME TablesInv, NEW c \in Callers, NEW k \in Kinds, NEW h \in Handles, Destroy(c, k, h)
  PROVE  ClaimsApart' /\ HandlesApart' /\ HangsAreFailures'
<1> USE DEF TablesInv
<1>0. PICK i \in Slots : i = SlotOf(h) /\ h = i + 1
  BY SlotType
<1>1. /\ live' = [live EXCEPT ![k] = [@ EXCEPT ![i] = FALSE]] /\ Forget(k, h)
      /\ held' = [held EXCEPT ![c][k] = @ \ {h}] /\ h \in held[c][k]
      /\ UNCHANGED <<at, pc, clash>>
  BY <1>0 DEF Destroy, Clear
<1>2. \A q \in Kinds, j \in Slots : live'[q][j] = IF q = k /\ j = i THEN FALSE ELSE live[q][j]
  BY <1>1 DEF TablesTypeOK
<1>3. \A d \in Callers, q \in Kinds :
        held'[d][q] = IF d = c /\ q = k THEN held[d][q] \ {h} ELSE held[d][q]
  BY <1>1 DEF TablesTypeOK
<1>4. ClaimsApart'
  <2>1. \A d \in Callers, q \in Kinds, j \in Slots : Claiming(d, q, j)' => Claiming(d, q, j)
    BY <1>1 DEF Claiming
  <2>2. QED
    BY <1>1, <1>2, <2>1, NoNewClaim
<1>5. HandlesApart'
  <2>1. SUFFICES ASSUME NEW q \in Kinds, NEW j \in Slots, Unclashed(q, j)
                 PROVE  /\ \A d, e \in Callers : j + 1 \in held'[d][q] /\ j + 1 \in held'[e][q] => d = e
                        /\ live'[q][j] <=> \E d \in Callers : j + 1 \in held'[d][q]
    BY <1>1 DEF HandlesApart, Unclashed
  <2>2. /\ \A d, e \in Callers : j + 1 \in held[d][q] /\ j + 1 \in held[e][q] => d = e
        /\ live[q][j] <=> \E d \in Callers : j + 1 \in held[d][q]
    BY <2>1 DEF HandlesApart
  <2>3. CASE q = k /\ j = i
    <3>1. \A d \in Callers : j + 1 \notin held'[d][q]
      BY <1>0, <1>1, <1>3, <2>2, <2>3
    <3>2. QED
      BY <1>2, <2>3, <3>1
  <2>4. CASE ~(q = k /\ j = i)
    <3>1. q = k => j + 1 # h
      BY <1>0, <2>4, SlotType
    <3>2. \A d \in Callers : j + 1 \in held'[d][q] <=> j + 1 \in held[d][q]
      BY <1>3, <3>1
    <3>3. QED
      BY <1>2, <2>2, <2>4, <3>2
  <2>5. QED
    BY <2>3, <2>4
<1>6. HangsAreFailures'
  <2>1. \A g \in Handles : live'["ctx"][SlotOf(g)] => live["ctx"][SlotOf(g)]
    BY <1>2, SlotType, TablesAssumption
  <2>2. QED
    BY <1>1, <2>1, ForgetKeeps
<1>7. QED
  BY <1>4, <1>5, <1>6

\* A hang is charged to the context it failed under, or to the one that has its entry now.
LEMMA NoteHangKeeps ==
  ASSUME TablesInv, NEW h \in Handles, NoteHang(h)
  PROVE  HangsAreFailures'
<1> USE DEF TablesInv
<1>1. /\ hangs' = [hangs EXCEPT ![SlotOf(h)] = @ + 1] /\ UNCHANGED live
      /\ failed' = (IF stale THEN failed ELSE failed \cup {h})
      /\ strays' = (IF stale THEN strays \cup {h} ELSE strays)
  BY DEF NoteHang, tableVars
<1>2. SlotOf(h) \in Slots /\ \A g \in Handles : g # h => SlotOf(g) # SlotOf(h) /\ SlotOf(g) \in Slots
  BY SlotType
<1>3. hangs \in [Slots -> 0 .. MaxHangs]
  BY DEF TablesTypeOK
<1>4. hangs'[SlotOf(h)] > 0 /\ \A g \in Handles : g # h => hangs'[SlotOf(g)] = hangs[SlotOf(g)]
  BY <1>1, <1>2, <1>3, TablesAssumption
<1>5. QED
  BY <1>1, <1>4 DEF HangsAreFailures

\* Every step keeps one owner per entry nobody clashed over.
LEMMA TablesStep == TablesInv /\ [Next]_vars => TablesInv'
<1> SUFFICES ASSUME TablesInv, [Next]_vars PROVE TablesInv'
  OBVIOUS
<1>0. TablesTypeOK /\ TablesTypeOK'
  BY TablesTypeStep DEF TablesInv
<1> SUFFICES ClaimsApart' /\ HandlesApart' /\ HangsAreFailures'
  BY <1>0 DEF TablesInv
<1>1. CASE UNCHANGED vars
  BY <1>1 DEF vars, tableVars, hangVars, TablesInv, ClaimsApart, Claiming, HandlesApart,
              HangsAreFailures, Unclashed
<1>2. ASSUME NEW c \in Callers, NEW k \in Kinds, StartCreate(c, k)
      PROVE  ClaimsApart' /\ HandlesApart' /\ HangsAreFailures'
  <2>1. /\ pc' = [pc EXCEPT ![c] = <<"search", k>>] /\ at' = [at EXCEPT ![c] = 0]
        /\ UNCHANGED <<live, held, clash, hangs, failed, strays>>
    BY <1>2 DEF StartCreate, hangVars
  <2>2. \A d \in Callers, q \in Kinds, j \in Slots : Claiming(d, q, j)' => Claiming(d, q, j)
    <3>1. pc'[c] = <<"search", k>> /\ \A d \in Callers : d # c => pc'[d] = pc[d] /\ at'[d] = at[d]
      BY <1>0, <2>1 DEF TablesTypeOK
    <3>2. QED
      BY <3>1, DoingType DEF Claiming
  <2>3. QED
    BY <2>1, <2>2, NoNewClaim, SameOwners DEF TablesInv, HangsAreFailures
<1>3. ASSUME NEW c \in Callers, CreateRefused(c)
      PROVE  ClaimsApart' /\ HandlesApart' /\ HangsAreFailures'
  <2>1. UNCHANGED <<live, held, clash, hangs, failed, strays>>
    BY <1>3 DEF CreateRefused, hangVars
  <2>2. \A d \in Callers, q \in Kinds, j \in Slots : Claiming(d, q, j)' => Claiming(d, q, j)
    <3>1. pc'[c] = <<"idle">> /\ \A d \in Callers : d # c => pc'[d] = pc[d] /\ at'[d] = at[d]
      BY <1>0, <1>3, Returns DEF CreateRefused
    <3>2. QED
      BY <3>1, DoingType DEF Claiming
  <2>3. QED
    BY <2>1, <2>2, NoNewClaim, SameOwners DEF TablesInv, HangsAreFailures
<1>4. ASSUME UNCHANGED tableVars PROVE ClaimsApart' /\ HandlesApart'
  BY <1>4 DEF tableVars, TablesInv, ClaimsApart, Claiming, HandlesApart, Unclashed
<1>5. ASSUME NEW h \in Handles, NoteHang(h)
      PROVE  ClaimsApart' /\ HandlesApart' /\ HangsAreFailures'
  BY <1>4, <1>5, NoteHangKeeps DEF NoteHang
<1>6. ASSUME SubmitDone \/ \E h \in Handles : Submit(h)
      PROVE  ClaimsApart' /\ HandlesApart' /\ HangsAreFailures'
  <2>1. UNCHANGED tableVars /\ UNCHANGED <<hangs, failed, strays>>
    BY <1>6 DEF SubmitDone, Submit
  <2>2. live' = live
    BY <2>1 DEF tableVars
  <2>3. QED
    BY <1>4, <2>1, <2>2 DEF TablesInv, HangsAreFailures
<1>7. QED
  BY <1>1, <1>2, <1>3, <1>5, <1>6, SearchKeeps, ClaimKeeps, DestroyKeeps DEF Next

\* Nothing is live, held or under way to begin with.
LEMMA TablesInit == Init => TablesInv
<1>1. Init => ClaimsApart
  BY DoingType DEF Init, ClaimsApart, Claiming
<1>2. Init => HandlesApart
  BY DEF Init, HandlesApart
<1>3. Init => HangsAreFailures
  BY SlotType, TablesAssumption DEF Init, HangsAreFailures
<1>4. QED
  BY <1>1, <1>2, <1>3, TablesTypeInit DEF TablesInv

\* The inductive invariant of the tables, for calls that overlap as they like: an entry
\* that no two creates had found dead at once has at most one caller about to claim it,
\* is dead then, and has at most one owner, being live exactly while it has one.
THEOREM TablesInvariant == Spec => []TablesInv
  BY TablesInit, TablesStep, PTL DEF Spec

\* With any number of callers and entries and no lock, a handle has one owner from create
\* to destroy and a live entry has an owner, but for the entries two creates clashed over.
THEOREM HandlesStayApart == Spec => []HandlesApart
<1>1. TablesInv => HandlesApart
  BY DEF TablesInv
<1>2. QED
  BY <1>1, TablesInvariant, PTL

\* With any number of callers and entries and no lock, a context answers GUILTY_RESET
\* exactly when a submission has failed under it since it was created, but for an entry
\* two creates clashed over and for a hang charged after its context was freed.
THEOREM ResetAnswersTrue == Spec => []ResetAnswerTrue
<1>1. TablesInv => ResetAnswerTrue
  <2> SUFFICES ASSUME TablesInv, NEW c \in Callers, NEW h \in held[c]["ctx"],
                      Unclashed("ctx", SlotOf(h)), h \notin strays
               PROVE  QueryState(h) = IF h \in failed THEN "GUILTY" ELSE "NO_RESET"
    BY DEF ResetAnswerTrue
  <2>1. h \in Handles /\ SlotOf(h) \in Slots /\ SlotOf(h) + 1 = h
    BY SlotType, TablesAssumption DEF TablesInv, TablesTypeOK
  <2>2. live["ctx"][SlotOf(h)]
    BY <2>1, TablesAssumption DEF TablesInv, HandlesApart
  <2>3. h \in failed <=> hangs[SlotOf(h)] > 0
    BY <2>1, <2>2 DEF TablesInv, HangsAreFailures
  <2>4. QED
    BY <2>1, <2>2, <2>3 DEF QueryState
<1>2. QED
  BY <1>1, TablesInvariant, PTL

----------------------------------------------------------------------------
LineStates == {"clean", "dirty", "due", "orphan"}

Calling == {"mapping", "closing"} \X Bos

Submitting ==
  ({"walk", "fence", "fence map"} \X Bos) \cup ({"store"} \X Bos \X Addresses)
    \cup ({"flush"} \X Bos \X Addresses \X Nat)

BoRecord == [live : BOOLEAN, phys : Extents \cup {"none"}, cpu : 0 .. MaxMaps, size : Nat]

MapsTypeOK ==
  /\ exclusive \in BOOLEAN /\ fault \in BOOLEAN
  /\ bo \in [Bos -> BoRecord]
  /\ maps \in [Addresses -> Extents \cup {"none"}]
  /\ cache \in [Extents -> [Lines -> LineStates]]
  /\ ptr \in [Bos -> 0 .. MaxMaps]
  /\ app \in {<<"idle">>} \cup Calling
  /\ cs \in {<<"idle">>, <<"submit">>} \cup Submitting

\* A live buffer has pages of its own; a dead entry has nothing.
PagesOwned ==
  /\ \A i \in Bos : bo[i].live => bo[i].phys \in Extents /\ bo[i].size \in Sizes
  /\ \A i \in Bos : ~bo[i].live => bo[i] = NoBuffer /\ ptr[i] = 0
  /\ \A i, j \in Bos : bo[i].live /\ bo[j].live /\ bo[i].phys = bo[j].phys => i = j

\* A buffer whose mapping is not being taken down.
Steady(i) == bo[i].live /\ app # <<"closing", i>>

\* The entry's pointer, and the title's, lead to the buffer's pages.
LeadsThere(i) ==
  /\ bo[i].cpu # 0 => maps[bo[i].cpu] = bo[i].phys
  /\ ptr[i] # 0 => bo[i].cpu # 0 /\ maps[ptr[i]] = bo[i].phys

\* Pointers are good until their buffer is closed, also when two threads have mapped it
\* twice; a thread inside an ioctl holds a buffer that is still there.
PointersGood ==
  /\ \A i \in Bos : Steady(i) => LeadsThere(i)
  /\ app[1] \in {"mapping", "closing"} => bo[app[2]].live
  /\ cs[1] \in {"fence", "fence map", "store"} => Steady(cs[2])
  /\ cs[1] = "store" => bo[cs[2]].cpu # 0 /\ maps[cs[3]] = bo[cs[2]].phys

\* Only lines of a live buffer are dirty, and only a mapped one's are due: pages go to the
\* next buffer with nothing in the cache but what their last owner orphaned.
DirtyOwned ==
  \A e \in Extents, n \in Lines : cache[e][n] \in {"dirty", "due"} =>
    \E i \in Bos : /\ bo[i].live /\ bo[i].phys = e /\ n < bo[i].size
                   /\ (cache[e][n] = "due") => (bo[i].cpu # 0)

\* Line n of buffer i is one the drain still comes to, through a pointer that is good.
Ahead(i, n) ==
  /\ cs[1] \in {"walk", "flush"}
  /\ cs[1] = "walk" => i >= cs[2]
  /\ cs[1] = "flush" =>
       \/ i > cs[2]
       \/ i = cs[2] /\ n >= cs[4] /\ maps[cs[3]] = bo[i].phys

\* The drain has dealt with every entry, and every line of the current one, it has passed.
DrainSoFar ==
  \A i \in Bos, n \in Lines : Steady(i) /\ cache[bo[i].phys][n] = "due" => Ahead(i, n)

\* With one ioctl at a time nothing is mapped twice, left behind or unmapped in use.
Alone ==
  exclusive =>
    /\ ~fault
    /\ AppIdle \/ CsIdle
    /\ app[1] = "mapping" => bo[app[2]].cpu = 0
    /\ cs[1] = "fence map" => bo[cs[2]].cpu = 0
    /\ cs[1] = "flush" => Steady(cs[2]) /\ maps[cs[3]] = bo[cs[2]].phys
    /\ \A a \in Addresses : maps[a] # "none" => \E i \in Bos : Steady(i) /\ bo[i].cpu = a

MapsInv == MapsTypeOK /\ PagesOwned /\ PointersGood /\ DirtyOwned /\ DrainSoFar /\ Alone

----------------------------------------------------------------------------
\* Types.

\* Where the title's thread can be, read part by part.
LEMMA AppParts ==
  /\ \A p \in Calling : p[1] \in {"mapping", "closing"} /\ p[2] \in Bos /\ p = <<p[1], p[2]>>
  /\ \A i \in Bos : /\ <<"mapping", i>> \in Calling /\ <<"closing", i>> \in Calling
                    /\ <<"mapping", i>>[1] = "mapping" /\ <<"mapping", i>>[2] = i
                    /\ <<"closing", i>>[1] = "closing" /\ <<"closing", i>>[2] = i
  /\ <<"idle">>[1] = "idle"
  BY DEF Calling

\* Where the submission thread can be, read part by part.
LEMMA CsParts ==
  /\ <<"idle">>[1] = "idle" /\ <<"submit">>[1] = "submit"
  /\ \A k \in {"walk", "fence", "fence map"}, i \in Bos :
       <<k, i>> \in Submitting /\ <<k, i>>[1] = k /\ <<k, i>>[2] = i
  /\ \A i \in Bos, a \in Addresses :
       /\ <<"store", i, a>> \in Submitting /\ <<"store", i, a>>[1] = "store"
       /\ <<"store", i, a>>[2] = i /\ <<"store", i, a>>[3] = a
  /\ \A i \in Bos, a \in Addresses, n \in Nat :
       /\ <<"flush", i, a, n>> \in Submitting /\ <<"flush", i, a, n>>[1] = "flush"
       /\ <<"flush", i, a, n>>[2] = i /\ <<"flush", i, a, n>>[3] = a /\ <<"flush", i, a, n>>[4] = n
  BY DEF Submitting

\* And the other way round.
LEMMA CsRead ==
  ASSUME MapsTypeOK
  PROVE  /\ cs[1] \in {"idle", "submit", "walk", "fence", "fence map", "store", "flush"}
         /\ cs[1] \in {"walk", "fence", "fence map", "store", "flush"} => cs[2] \in Bos
         /\ cs[1] \in {"store", "flush"} => cs[3] \in Addresses
         /\ cs[1] = "flush" => cs[4] \in Nat
         /\ cs[1] = "idle" <=> CsIdle
<1>1. /\ cs = <<"idle">> => cs[1] = "idle"
      /\ cs = <<"submit">> => cs[1] = "submit"
  OBVIOUS
<1>2. cs \in {"walk", "fence", "fence map"} \X Bos =>
        cs[1] \in {"walk", "fence", "fence map"} /\ cs[2] \in Bos
  OBVIOUS
<1>3. cs \in {"store"} \X Bos \X Addresses =>
        cs[1] = "store" /\ cs[2] \in Bos /\ cs[3] \in Addresses
  OBVIOUS
<1>4. cs \in {"flush"} \X Bos \X Addresses \X Nat =>
        cs[1] = "flush" /\ cs[2] \in Bos /\ cs[3] \in Addresses /\ cs[4] \in Nat
  OBVIOUS
<1>5. \/ cs = <<"idle">> \/ cs = <<"submit">>
      \/ cs \in {"walk", "fence", "fence map"} \X Bos
      \/ cs \in {"store"} \X Bos \X Addresses
      \/ cs \in {"flush"} \X Bos \X Addresses \X Nat
  BY DEF MapsTypeOK, Submitting
<1>6. QED
  BY <1>1, <1>2, <1>3, <1>4, <1>5, Zenon DEF CsIdle

\* And for the title's thread.
LEMMA AppRead ==
  ASSUME MapsTypeOK
  PROVE  /\ app[1] \in {"idle", "mapping", "closing"}
         /\ app[1] \in {"mapping", "closing"} => app[2] \in Bos /\ app = <<app[1], app[2]>>
         /\ app[1] = "idle" <=> AppIdle
<1>1. CASE app = <<"idle">>
  BY <1>1 DEF AppIdle
<1>2. CASE app \in Calling
  BY <1>2, AppParts DEF AppIdle
<1>3. QED
  BY <1>1, <1>2 DEF MapsTypeOK

\* Entries and lines are numbers.
LEMMA Numbers ==
  /\ \A i \in Bos : i \in Nat /\ 1 <= i /\ i <= MaxBo
  /\ \A i \in Nat : 1 <= i /\ i <= MaxBo => i \in Bos
  /\ \A n \in Lines : n \in Nat
  /\ \A a \in Addresses : a \in Nat /\ a # 0
  BY CpuMapsAssumption DEF Bos, Lines, Addresses

\* A line below a buffer's size is a line.
LEMMA LineType ==
  ASSUME NEW s \in Sizes, NEW n \in Nat, n < s
  PROVE  n \in Lines
<1>1. s \in Nat /\ n \in 0 .. s - 1
  BY CpuMapsAssumption
<1>2. QED
  BY <1>1 DEF Lines

\* Where the walk goes next is an entry, or the submission.
LEMMA OnwardType ==
  ASSUME NEW i \in Bos
  PROVE  /\ Onward(i) \in {<<"submit">>} \cup Submitting
         /\ i + 1 \in Bos => Onward(i) = <<"walk", i + 1>>
         /\ i + 1 \notin Bos => Onward(i) = <<"submit">>
         /\ Onward(i)[1] \in {"walk", "submit"}
<1>1. i + 1 \in Bos => Onward(i) = <<"walk", i + 1>>
  BY DEF Onward
<1>2. i + 1 \notin Bos => Onward(i) = <<"submit">>
  BY DEF Onward
<1>3. CASE i + 1 \in Bos
  <2>1. <<"walk", i + 1>> \in Submitting /\ <<"walk", i + 1>>[1] = "walk"
    BY <1>3, CsParts
  <2>2. QED
    BY <1>1, <1>2, <1>3, <2>1
<1>4. CASE i + 1 \notin Bos
  BY <1>1, <1>2, <1>4, CsParts
<1>5. QED
  BY <1>3, <1>4

\* A store changes one line of one run of pages, to dirty unless it was due.
LEMMA CacheStore ==
  ASSUME MapsTypeOK, NEW e \in Extents \cup {"none"}, NEW n \in Nat
  PROVE  /\ AfterStore(e, n) \in [Extents -> [Lines -> LineStates]]
         /\ \A f \in Extents, m \in Lines :
              \/ AfterStore(e, n)[f][m] = cache[f][m]
              \/ f = e /\ m = n /\ AfterStore(e, n)[f][m] = "dirty"
<1>1. CASE e = "none"
  BY <1>1 DEF AfterStore, MapsTypeOK
<1>2. CASE e # "none"
  <2> DEFINE v == Stored(cache[e][n])
             r == [cache[e] EXCEPT ![n] = v]
  <2>1. cache[e] \in [Lines -> LineStates] /\ cache \in [Extents -> [Lines -> LineStates]]
    BY <1>2 DEF MapsTypeOK
  <2>2. v \in LineStates /\ v \in {cache[e][n], "dirty"}
    BY DEF Stored, LineStates
  <2>3. r \in [Lines -> LineStates] /\ \A m \in Lines : r[m] = IF m = n THEN v ELSE cache[e][m]
    BY <2>1, <2>2
  <2>4. AfterStore(e, n) = [cache EXCEPT ![e] = r]
    BY <1>2, <2>1 DEF AfterStore
  <2> HIDE DEF v, r
  <2>5. QED
    BY <1>2, <2>1, <2>2, <2>3, <2>4
<1>3. QED
  BY <1>1, <1>2

\* No step of either thread leaves the types.
LEMMA MapsTypeStep ==
  ASSUME MapsTypeOK, [MapsNext]_mapsVars
  PROVE  MapsTypeOK'
<1> USE CpuMapsAssumption
<1>0. CASE UNCHANGED mapsVars
  BY <1>0 DEF mapsVars, MapsTypeOK
<1>1. ASSUME NEW i \in Bos, NEW e \in Extents, NEW n \in Sizes, GemCreate(i, e, n)
      PROVE  MapsTypeOK'
  <2>1. [live |-> TRUE, phys |-> e, cpu |-> 0, size |-> n] \in BoRecord
    BY <1>1 DEF BoRecord
  <2>2. QED
    BY <1>1, <2>1 DEF GemCreate, MapsTypeOK
<1>2. ASSUME NEW i \in Bos, Mmap(i) PROVE MapsTypeOK'
  <2>1. bo[i].cpu \in 0 .. MaxMaps
    BY <1>2 DEF MapsTypeOK, BoRecord
  <2>2. app' \in {<<"idle">>} \cup Calling
    <3>1. <<"mapping", i>> \in Calling
      BY <1>2, AppParts
    <3>2. QED
      BY <1>2, <3>1 DEF Mmap, MapsTypeOK
  <2>3. ptr' \in [Bos -> 0 .. MaxMaps]
    BY <1>2, <2>1 DEF Mmap, MapsTypeOK
  <2>4. QED
    BY <1>2, <2>2, <2>3 DEF Mmap, MapsTypeOK
<1>3. ASSUME NEW i \in Bos, Munmap(i) PROVE MapsTypeOK'
  BY <1>3 DEF Munmap, MapsAfterMunmap, MapsTypeOK
<1>4. ASSUME NEW i \in Bos, GemClose(i) PROVE MapsTypeOK'
  BY <1>4, AppParts DEF GemClose, MapsTypeOK
<1>5. ASSUME NEW i \in Bos, NEW n \in Lines, Write(i, n) PROVE MapsTypeOK'
  <2>0. n \in Nat /\ maps[ptr[i]] \in Extents \cup {"none"}
    <3>1. ptr[i] \in Addresses
      BY <1>5 DEF Write, MapsTypeOK, Addresses
    <3>2. QED
      BY <3>1, Numbers DEF MapsTypeOK
  <2>1. cache' \in [Extents -> [Lines -> LineStates]]
    BY <1>5, <2>0, CacheStore DEF Write
  <2>2. QED
    BY <1>5, <2>1 DEF Write, MapsTypeOK
<1>5a. ASSUME NEW i \in Bos, NEW n \in Lines, WriteAtVa(i, n) PROVE MapsTypeOK'
  <2>1. n \in Nat /\ bo[i].phys \in Extents \cup {"none"}
    BY Numbers DEF MapsTypeOK, BoRecord
  <2>2. cache' \in [Extents -> [Lines -> LineStates]]
    BY <1>5a, <2>1, CacheStore DEF WriteAtVa
  <2>3. QED
    BY <1>5a, <2>2 DEF WriteAtVa, MapsTypeOK
<1>6. ASSUME NEW i \in Bos, NEW a \in Addresses, MapAt(i, a)
      PROVE  /\ bo' \in [Bos -> BoRecord]
             /\ maps' \in [Addresses -> Extents \cup {"none"}]
  <2>0. bo[i] \in BoRecord /\ a \in 0 .. MaxMaps
    BY <1>6 DEF MapsTypeOK, Addresses
  <2>1. [bo[i] EXCEPT !.cpu = a] \in BoRecord /\ bo[i].phys \in Extents \cup {"none"}
    BY <2>0 DEF BoRecord
  <2>2. QED
    BY <1>6, <2>1 DEF MapAt, MapsTypeOK
<1>7. ASSUME NEW a \in Addresses, MmapMap(a) PROVE MapsTypeOK'
  <2>1. app[2] \in Bos /\ MapAt(app[2], a)
    BY <1>7, AppRead DEF MmapMap
  <2>2. a \in 0 .. MaxMaps
    BY <1>7 DEF Addresses
  <2>3. QED
    BY <1>6, <1>7, <2>1, <2>2 DEF MmapMap, MapsTypeOK
<1>8. ASSUME NEW a \in Addresses, CsFenceMap(a) PROVE MapsTypeOK'
  <2>1. cs[2] \in Bos /\ MapAt(cs[2], a)
    BY <1>8, CsRead DEF CsFenceMap
  <2>2. cs' \in Submitting
    BY <1>8, <2>1, CsParts DEF CsFenceMap
  <2>3. QED
    BY <1>6, <1>8, <2>1, <2>2 DEF CsFenceMap, MapsTypeOK
<1>9. CASE MmapRefused
  BY <1>9 DEF MmapRefused, MapsTypeOK
<1>10. CASE GemCloseClear
  <2>1. NoBuffer \in BoRecord
    BY DEF NoBuffer, BoRecord
  <2>2. cache' \in [Extents -> [Lines -> LineStates]]
    BY <1>10 DEF GemCloseClear, MapsTypeOK, LineStates
  <2>3. bo' \in [Bos -> BoRecord] /\ ptr' \in [Bos -> 0 .. MaxMaps]
    <3>1. 0 \in 0 .. MaxMaps
      OBVIOUS
    <3>2. app[2] \in Bos
      BY <1>10, AppRead DEF GemCloseClear
    <3>3. QED
      BY <1>10, <2>1, <3>1, <3>2 DEF GemCloseClear, MapsTypeOK
  <2>4. QED
    BY <1>10, <2>2, <2>3 DEF GemCloseClear, MapsTypeOK
<1>11. CASE CsBegin
  <2>0. 1 \in Bos
    BY DEF Bos
  <2>1. <<"walk", 1>> \in Submitting
    BY <2>0, CsParts
  <2>2. cache' \in [Extents -> [Lines -> LineStates]]
    BY <1>11 DEF CsBegin, MapsTypeOK, LineStates
  <2>3. QED
    BY <1>11, <2>1, <2>2 DEF CsBegin, MapsTypeOK
<1>12. CASE CsWalk
  <2>1. cs[2] \in Bos
    BY <1>12, CsRead DEF CsWalk
  <2>2. bo[cs[2]].cpu # 0 => <<"flush", cs[2], bo[cs[2]].cpu, 0>> \in Submitting
    <3>1. bo[cs[2]].cpu # 0 => bo[cs[2]].cpu \in Addresses
      BY <2>1 DEF MapsTypeOK, BoRecord, Addresses
    <3>2. QED
      BY <2>1, <3>1, CsParts
  <2>3. cs' \in {<<"idle">>, <<"submit">>} \cup Submitting
    BY <1>12, <2>1, <2>2, OnwardType DEF CsWalk, Skip
  <2>4. QED
    BY <1>12, <2>3 DEF CsWalk, MapsTypeOK
<1>13. CASE CsFlush
  <2>1. cs[2] \in Bos /\ cs[3] \in Addresses /\ cs[4] \in Nat
    BY <1>13, CsRead DEF CsFlush
  <2>2. cs' \in {<<"idle">>, <<"submit">>} \cup Submitting
    <3>0. cs[4] + 1 \in Nat
      BY <2>1
    <3>1. <<"flush", cs[2], cs[3], cs[4] + 1>> \in Submitting
      BY <2>1, <3>0, CsParts
    <3>2. QED
      BY <1>13, <2>1, <3>1, OnwardType DEF CsFlush
  <2>3. cache' \in [Extents -> [Lines -> LineStates]]
    <3>1. CASE maps[cs[3]] # "none"
      <4>1. maps[cs[3]] \in Extents
        BY <2>1, <3>1 DEF MapsTypeOK
      <4>2. QED
        BY <1>13, <2>1, <4>1 DEF CsFlush, MapsTypeOK, LineStates
    <3>2. CASE maps[cs[3]] = "none"
      BY <1>13, <3>2 DEF CsFlush, MapsTypeOK
    <3>3. QED
      BY <3>1, <3>2
  <2>4. QED
    BY <1>13, <2>2, <2>3 DEF CsFlush, MapsTypeOK
<1>14. CASE CsRetired
  <2>0. \A j \in Bos : <<"fence", j>> \in Submitting
    BY CsParts
  <2>1. cs' \in {<<"idle">>} \cup Submitting
    BY <1>14, <2>0 DEF CsRetired
  <2>2. QED
    BY <1>14, <2>1 DEF CsRetired, MapsTypeOK
<1>15. CASE CsFence
  <2>1. cs[2] \in Bos
    BY <1>15, CsRead DEF CsFence
  <2>2. bo[cs[2]].cpu # 0 => <<"store", cs[2], bo[cs[2]].cpu>> \in Submitting
    <3>1. bo[cs[2]].cpu # 0 => bo[cs[2]].cpu \in Addresses
      BY <2>1 DEF MapsTypeOK, BoRecord, Addresses
    <3>2. QED
      BY <2>1, <3>1, CsParts
  <2>3. cs' \in {<<"idle">>} \cup Submitting
    BY <1>15, <2>1, <2>2, CsParts DEF CsFence, NeedsMap
  <2>4. QED
    BY <1>15, <2>3 DEF CsFence, MapsTypeOK
<1>16. CASE CsFenceRefused
  BY <1>16 DEF CsFenceRefused, MapsTypeOK
<1>17. CASE CsStore
  <2>1. cs[3] \in Addresses
    BY <1>17, CsRead DEF CsStore
  <2>2. cache' \in [Extents -> [Lines -> LineStates]]
    <3>1. maps[cs[3]] \in Extents \cup {"none"}
      BY <2>1 DEF MapsTypeOK
    <3>2. QED
      BY <1>17, <3>1, CacheStore DEF CsStore
  <2>3. QED
    BY <1>17, <2>2 DEF CsStore, MapsTypeOK
<1>18. QED
  BY <1>0, <1>1, <1>2, <1>3, <1>4, <1>5, <1>5a, <1>7, <1>8, <1>9, <1>10, <1>11, <1>12, <1>13,
     <1>14, <1>15, <1>16, <1>17 DEF MapsNext, Running, Gone

----------------------------------------------------------------------------
\* What the steps have in common.

\* What the invariant says of one entry.
LEMMA EntryFacts ==
  ASSUME MapsTypeOK, PagesOwned, NEW i \in Bos
  PROVE  /\ bo[i].cpu \in Nat /\ bo[i].size \in Nat /\ bo[i].live \in BOOLEAN
         /\ bo[i].cpu # 0 => bo[i].cpu \in Addresses
         /\ ptr[i] # 0 => ptr[i] \in Addresses
         /\ bo[i].live =>
              bo[i].phys \in Extents /\ bo[i].phys # "none" /\ bo[i].size \in Sizes /\ bo[i].size > 0
         /\ ~bo[i].live => bo[i].size = 0 /\ bo[i].cpu = 0 /\ ptr[i] = 0 /\ bo[i].phys = "none"
<1> USE CpuMapsAssumption
<1>1. bo[i] \in BoRecord /\ ptr[i] \in 0 .. MaxMaps
  BY DEF MapsTypeOK
<1>2. /\ bo[i].cpu \in 0 .. MaxMaps /\ bo[i].size \in Nat /\ bo[i].live \in BOOLEAN
      /\ bo[i].cpu # 0 => bo[i].cpu \in Addresses
      /\ ptr[i] # 0 => ptr[i] \in Addresses
  BY <1>1 DEF BoRecord, Addresses
<1>3. bo[i].live =>
        bo[i].phys \in Extents /\ bo[i].phys # "none" /\ bo[i].size \in Sizes /\ bo[i].size > 0
  <2>1. bo[i].live => bo[i].phys \in Extents /\ bo[i].size \in Sizes
    BY DEF PagesOwned
  <2>2. \A s \in Sizes : s > 0
    OBVIOUS
  <2>3. bo[i].live => bo[i].phys # "none"
    BY <2>1, Zenon
  <2>4. QED
    BY <2>1, <2>2, <2>3, Zenon
<1>4. ~bo[i].live => bo[i].size = 0 /\ bo[i].cpu = 0 /\ ptr[i] = 0 /\ bo[i].phys = "none"
  BY DEF PagesOwned, NoBuffer
<1>5. QED
  BY <1>2, <1>3, <1>4

\* Only a thread inside gem_close makes an entry unsteady, and only the one it closes.
LEMMA SteadyWhen ==
  ASSUME NEW i
  PROVE  /\ AppIdle => (Steady(i) <=> bo[i].live)
         /\ app[1] # "closing" => (Steady(i) <=> bo[i].live)
         /\ Steady(i) => bo[i].live
         /\ app[1] = "closing" /\ Steady(i) => app # <<"closing", i>>
  BY DEF Steady, AppIdle

\* A buffer with a line due is mapped, and the line is one of its own.
LEMMA DirtyIsOwn ==
  ASSUME PagesOwned, DirtyOwned, NEW i \in Bos, NEW n \in Lines, bo[i].live,
         cache[bo[i].phys][n] = "due"
  PROVE  bo[i].cpu # 0 /\ n < bo[i].size
<1>1. bo[i].phys \in Extents
  BY DEF PagesOwned
<1>2. PICK j \in Bos : bo[j].live /\ bo[j].phys = bo[i].phys /\ bo[j].cpu # 0 /\ n < bo[j].size
  BY <1>1 DEF DirtyOwned
<1>3. j = i
  BY <1>2 DEF PagesOwned
<1>4. QED
  BY <1>2, <1>3

\* Mapping a buffer leaves every other address, and every other entry, as it was.
LEMMA MapAtDoes ==
  ASSUME MapsTypeOK, NEW i \in Bos, NEW a \in Addresses, MapAt(i, a)
  PROVE  /\ \A j \in Bos : /\ bo'[j].live = bo[j].live /\ bo'[j].phys = bo[j].phys
                           /\ bo'[j].size = bo[j].size
                           /\ bo'[j].cpu = IF j = i THEN a ELSE bo[j].cpu
                           /\ j # i => bo'[j] = bo[j]
         /\ \A b \in Addresses : maps'[b] = IF b = a THEN bo[i].phys ELSE maps[b]
<1>1. bo[i] \in BoRecord
  BY DEF MapsTypeOK
<1>2. QED
  BY <1>1 DEF MapAt, MapsTypeOK, BoRecord

----------------------------------------------------------------------------
\* The title's thread.

\* gem_create: the new entry has pages nobody has and no mapping yet.
LEMMA GemCreateKeeps ==
  ASSUME MapsInv, NEW i \in Bos, NEW e \in Extents, NEW s \in Sizes, GemCreate(i, e, s)
  PROVE  (PagesOwned /\ PointersGood /\ DirtyOwned /\ DrainSoFar /\ Alone)'
<1> USE DEF MapsInv
<1>1. /\ \A j \in Bos : bo'[j] = IF j = i THEN [live |-> TRUE, phys |-> e, cpu |-> 0, size |-> s]
                                 ELSE bo[j]
      /\ ~bo[i].live /\ AppIdle /\ ptr[i] = 0 /\ (exclusive => CsIdle)
      /\ \A j \in Bos : bo[j].phys # e
      /\ UNCHANGED <<exclusive, maps, cache, ptr, app, cs, fault>>
  BY DEF GemCreate, AppEnters, MapsTypeOK, PagesOwned
<1>2. \A j \in Bos : Steady(j)' <=> (j = i \/ Steady(j))
  BY <1>1, SteadyWhen DEF Steady, AppIdle
<1>3. app[1] = "idle"
  BY <1>1, AppRead
<1>4. PagesOwned'
  BY <1>1 DEF PagesOwned
<1>5. PointersGood'
  <2>1. cs[1] \in {"fence", "fence map", "store"} => cs[2] \in Bos /\ cs[2] # i /\ Steady(cs[2])
    BY <1>1, CsRead, SteadyWhen DEF PointersGood
  <2>2. \A j \in Bos : Steady(j)' => LeadsThere(j)'
    <3>1. LeadsThere(i)'
      BY <1>1 DEF LeadsThere
    <3>2. ASSUME NEW j \in Bos, j # i, Steady(j) PROVE LeadsThere(j)'
      BY <1>1, <3>2 DEF PointersGood, LeadsThere
    <3>3. QED
      BY <1>2, <3>1, <3>2
  <2>3. cs[1] \in {"fence", "fence map", "store"} => Steady(cs[2])' /\ bo'[cs[2]] = bo[cs[2]]
    BY <1>1, <1>2, <2>1
  <2>4. cs[1] = "store" => bo'[cs[2]].cpu # 0 /\ maps'[cs[3]] = bo'[cs[2]].phys
    BY <1>1, <2>3 DEF PointersGood
  <2>5. QED
    BY <1>1, <1>3, <2>2, <2>3, <2>4 DEF PointersGood
<1>6. DirtyOwned'
  BY <1>1 DEF DirtyOwned
<1>7. DrainSoFar'
  <2>1. \A n \in Lines : cache[e][n] # "due"
    BY <1>1 DEF DirtyOwned
  <2>2. QED
    BY <1>1, <1>2, <2>1 DEF DrainSoFar, Ahead
<1>8. Alone'
  <2>1. exclusive => cs[1] = "idle"
    BY <1>1, CsRead
  <2>2. \A j \in Bos : Steady(j) => j # i
    BY <1>1, SteadyWhen
  <2>3. QED
    BY <1>1, <1>2, <1>3, <2>1, <2>2 DEF Alone, AppIdle, CsIdle
<1>9. QED
  BY <1>4, <1>5, <1>6, <1>7, <1>8

\* mmap up to the platform's call: the title gets the pointer there is, or goes to map.
LEMMA MmapKeeps ==
  ASSUME MapsInv, NEW i \in Bos, Mmap(i)
  PROVE  (PagesOwned /\ PointersGood /\ DirtyOwned /\ DrainSoFar /\ Alone)'
<1> USE DEF MapsInv
<1>1. /\ AppIdle /\ bo[i].live /\ (exclusive => CsIdle)
      /\ UNCHANGED <<exclusive, bo, maps, cache, cs, fault>>
      /\ \/ bo[i].cpu = 0 /\ app' = <<"mapping", i>> /\ ptr' = ptr
         \/ bo[i].cpu # 0 /\ app' = app /\ ptr' = [ptr EXCEPT ![i] = bo[i].cpu]
  BY DEF Mmap, AppEnters, NeedsMap
<1>2. \A j \in Bos : ptr'[j] = ptr[j] \/ (j = i /\ bo[i].cpu # 0 /\ ptr'[j] = bo[i].cpu)
  <2>1. ptr \in [Bos -> 0 .. MaxMaps]
    BY DEF MapsTypeOK
  <2>2. CASE ptr' = ptr
    BY <2>2
  <2>3. CASE bo[i].cpu # 0 /\ ptr' = [ptr EXCEPT ![i] = bo[i].cpu]
    BY <2>1, <2>3
  <2>4. QED
    BY <1>1, <2>2, <2>3
<1>3. /\ app[1] = "idle"
      /\ app'[1] = "idle" \/ (app'[1] = "mapping" /\ app'[2] = i /\ bo[i].cpu = 0)
      /\ \A j \in Bos : Steady(j) <=> bo[j].live
      /\ \A j \in Bos : Steady(j)' <=> Steady(j)
  <2>1. app[1] = "idle"
    BY <1>1, AppRead
  <2>2. app'[1] = "idle" \/ (app'[1] = "mapping" /\ app'[2] = i /\ bo[i].cpu = 0)
    <3>1. <<"mapping", i>>[1] = "mapping" /\ <<"mapping", i>>[2] = i
      OBVIOUS
    <3>2. QED
      BY <1>1, <2>1, <3>1
  <2>3. \A j \in Bos : Steady(j) <=> bo[j].live
    BY <1>1, SteadyWhen
  <2>4. \A j \in Bos : app' # <<"closing", j>>
    BY <2>2, AppParts
  <2>5. \A j \in Bos : Steady(j)' <=> Steady(j)
    BY <1>1, <2>3, <2>4 DEF Steady
  <2>6. QED
    BY <2>1, <2>2, <2>3, <2>5
<1>4. PagesOwned'
  BY <1>1, <1>2 DEF PagesOwned
<1>5. PointersGood'
  <2>1. cs[1] \in {"fence", "fence map", "store"} => cs[2] \in Bos
    BY CsRead
  <2>2. QED
    BY <1>1, <1>2, <1>3, <2>1 DEF PointersGood, LeadsThere
<1>6. DirtyOwned'
  BY <1>1 DEF DirtyOwned
<1>7. DrainSoFar'
  BY <1>1, <1>3 DEF DrainSoFar, Ahead
<1>8. Alone'
  <2>1. exclusive => cs[1] = "idle" /\ CsIdle'
    BY <1>1, CsRead DEF CsIdle
  <2>2. QED
    BY <1>1, <1>3, <2>1 DEF Alone
<1>9. QED
  BY <1>4, <1>5, <1>6, <1>7, <1>8

\* The address the platform maps at next had nothing at it.
LEMMA FreshAddress ==
  ASSUME MapsInv, NEW a \in Addresses, maps[a] = "none"
  PROVE  /\ \A j \in Bos : Steady(j) => bo[j].cpu # a /\ ptr[j] # a
         /\ cs[1] = "store" => cs[3] # a
         /\ \A j \in Bos, n \in Lines :
              Steady(j) /\ cache[bo[j].phys][n] = "due" /\ cs[1] = "flush" /\ j = cs[2] => cs[3] # a
         /\ exclusive /\ cs[1] = "flush" => cs[3] # a
<1> USE DEF MapsInv
<1>1. \A j \in Bos : Steady(j) => bo[j].phys # "none"
  BY EntryFacts, SteadyWhen
<1>2. \A j \in Bos : Steady(j) => bo[j].cpu # a /\ ptr[j] # a
  <2>1. SUFFICES ASSUME NEW j \in Bos, Steady(j) PROVE bo[j].cpu # a /\ ptr[j] # a
    OBVIOUS
  <2>2. a # 0
    BY Numbers
  <2>3. QED
    BY <1>1, <2>1, <2>2 DEF PointersGood, LeadsThere
<1>3. cs[1] = "store" => cs[3] # a
  BY <1>1, CsRead DEF PointersGood
<1>4. \A j \in Bos, n \in Lines :
        Steady(j) /\ cache[bo[j].phys][n] = "due" /\ cs[1] = "flush" /\ j = cs[2] => cs[3] # a
  BY <1>1, Numbers DEF DrainSoFar, Ahead
<1>5. exclusive /\ cs[1] = "flush" => cs[3] # a
  BY <1>1, CsRead DEF Alone
<1>6. QED
  BY <1>2, <1>3, <1>4, <1>5

\* mmap after the platform's call.
LEMMA MmapMapKeeps ==
  ASSUME MapsInv, NEW a \in Addresses, MmapMap(a)
  PROVE  (PagesOwned /\ PointersGood /\ DirtyOwned /\ DrainSoFar /\ Alone)'
<1> USE DEF MapsInv
<1> DEFINE i == app[2]
<1>1. /\ i \in Bos /\ bo[i].live /\ bo[i].phys # "none" /\ app[1] = "mapping" /\ app'[1] = "idle"
      /\ maps[a] = "none" /\ a # 0
  BY AppRead, AppParts, EntryFacts, Numbers DEF MmapMap, PointersGood, NextAddress, Unmapped
<1>2. /\ \A j \in Bos : /\ bo'[j].live = bo[j].live /\ bo'[j].phys = bo[j].phys
                        /\ bo'[j].size = bo[j].size
                        /\ bo'[j].cpu = IF j = i THEN a ELSE bo[j].cpu
                        /\ j # i => bo'[j] = bo[j]
      /\ \A b \in Addresses : maps'[b] = IF b = a THEN bo[i].phys ELSE maps[b]
  BY <1>1, MapAtDoes DEF MmapMap
<1>3. \A j \in Bos : ptr'[j] = IF j = i THEN a ELSE ptr[j]
  BY <1>1 DEF MmapMap, MapsTypeOK
<1>4. UNCHANGED <<exclusive, cache, cs, fault>> /\ app' = <<"idle">>
  BY DEF MmapMap
<1>5. \A j \in Bos : (Steady(j)' <=> Steady(j)) /\ (Steady(j) <=> bo[j].live)
  BY <1>1, <1>2, <1>4, SteadyWhen DEF Steady
<1>6. PagesOwned'
  BY <1>1, <1>2, <1>3 DEF PagesOwned
<1>7. PointersGood'
  <2>1. \A j \in Bos : Steady(j)' => LeadsThere(j)'
    <3>1. SUFFICES ASSUME NEW j \in Bos, Steady(j) PROVE LeadsThere(j)'
      BY <1>5
    <3>2. CASE j = i
      BY <1>1, <1>2, <1>3, <3>2 DEF LeadsThere
    <3>3. CASE j # i
      <4>1. bo[j].cpu # a /\ ptr[j] # a
        BY <1>1, <3>1, FreshAddress
      <4>2. /\ bo[j].cpu # 0 => bo[j].cpu \in Addresses
            /\ ptr[j] # 0 => ptr[j] \in Addresses
        BY EntryFacts
      <4>3. LeadsThere(j)
        BY <3>1 DEF PointersGood
      <4>4. QED
        BY <1>2, <1>3, <3>3, <4>1, <4>2, <4>3 DEF LeadsThere
    <3>4. QED
      BY <3>2, <3>3
  <2>2. cs[1] \in {"fence", "fence map", "store"} => Steady(cs[2])'
    <3>1. cs'[1] \in {"fence", "fence map", "store"} => cs[2] \in Bos /\ Steady(cs[2]) /\ cs' = cs
      BY <1>4, CsRead DEF PointersGood
    <3>2. QED
      BY <1>4, <1>5, <3>1
  <2>3. cs[1] = "store" => bo'[cs[2]].cpu # 0 /\ maps'[cs[3]] = bo'[cs[2]].phys
    <3>1. SUFFICES ASSUME cs[1] = "store"
                   PROVE  bo'[cs[2]].cpu # 0 /\ maps'[cs[3]] = bo'[cs[2]].phys
      OBVIOUS
    <3>2. cs[2] \in Bos /\ cs[3] \in Addresses /\ cs[3] # a
      BY <1>1, <3>1, CsRead, FreshAddress
    <3>3. bo[cs[2]].cpu # 0 /\ maps[cs[3]] = bo[cs[2]].phys
      BY <3>1 DEF PointersGood
    <3>4. QED
      BY <1>1, <1>2, <3>2, <3>3
  <2>4. QED
    BY <1>1, <1>4, <2>1, <2>2, <2>3 DEF PointersGood
<1>8. DirtyOwned'
  BY <1>1, <1>2, <1>4 DEF DirtyOwned
<1>9. DrainSoFar'
  <2>1. SUFFICES ASSUME NEW j \in Bos, NEW n \in Lines, Steady(j), cache[bo[j].phys][n] = "due"
                 PROVE  Ahead(j, n)'
    BY <1>2, <1>4, <1>5 DEF DrainSoFar
  <2>2. Ahead(j, n)
    BY <2>1 DEF DrainSoFar
  <2>3. cs[1] = "flush" /\ j = cs[2] => cs[3] \in Addresses /\ cs[3] # a
    BY <1>1, <2>1, CsRead, FreshAddress
  <2>4. QED
    BY <1>2, <1>4, <2>2, <2>3 DEF Ahead
<1>10. Alone'
  <2>1. SUFFICES ASSUME exclusive PROVE Alone'
    BY <1>4 DEF Alone
  <2>2. CsIdle /\ cs[1] = "idle" /\ ~fault /\ bo[i].cpu = 0 /\ ~AppIdle
    BY <1>1, <2>1, AppRead, CsRead DEF Alone
  <2>3. \A b \in Addresses : maps'[b] # "none" => \E j \in Bos : Steady(j)' /\ bo'[j].cpu = b
    BY <1>1, <1>2, <1>5, <2>1, <2>2, Numbers DEF Alone
  <2>4. QED
    BY <1>1, <1>4, <2>2, <2>3 DEF Alone, AppIdle
<1>11. QED
  BY <1>6, <1>7, <1>8, <1>9, <1>10

\* A refused mapping, or munmap, which leaves the mapping to the buffer.
LEMMA LetGoKeeps ==
  ASSUME MapsInv, MmapRefused \/ \E i \in Bos : Munmap(i)
  PROVE  (PagesOwned /\ PointersGood /\ DirtyOwned /\ DrainSoFar /\ Alone)'
<1> USE DEF MapsInv
<1>1. /\ UNCHANGED <<exclusive, bo, maps, cache, cs, fault>>
      /\ app[1] # "closing" /\ app'[1] = "idle" /\ AppIdle'
      /\ \A j \in Bos : ptr'[j] \in {0, ptr[j]}
  <2>1. CASE MmapRefused
    BY <2>1 DEF MmapRefused, AppIdle
  <2>2. ASSUME NEW i \in Bos, Munmap(i)
        PROVE  /\ UNCHANGED <<exclusive, bo, maps, cache, cs, fault>>
               /\ app[1] # "closing" /\ app'[1] = "idle" /\ AppIdle'
               /\ \A j \in Bos : ptr'[j] \in {0, ptr[j]}
    BY <2>2 DEF Munmap, MapsAfterMunmap, AppIdle, MapsTypeOK
  <2>3. QED
    BY <2>1, <2>2
<1>2. \A j \in Bos : (Steady(j)' <=> Steady(j)) /\ (Steady(j) <=> bo[j].live)
  BY <1>1, SteadyWhen DEF Steady, AppIdle
<1>3. PagesOwned'
  BY <1>1 DEF PagesOwned
<1>4. PointersGood'
  <2>1. \A j \in Bos : Steady(j)' => LeadsThere(j)'
    BY <1>1, <1>2 DEF PointersGood, LeadsThere
  <2>2. cs[1] \in {"fence", "fence map", "store"} => cs[2] \in Bos /\ Steady(cs[2])
    BY CsRead DEF PointersGood
  <2>3. QED
    BY <1>1, <1>2, <2>1, <2>2 DEF PointersGood
<1>5. DirtyOwned'
  BY <1>1 DEF DirtyOwned
<1>6. DrainSoFar'
  BY <1>1, <1>2 DEF DrainSoFar, Ahead
<1>7. Alone'
  <2>1. cs[1] = "flush" => cs[2] \in Bos
    BY CsRead
  <2>2. QED
    BY <1>1, <1>2, <2>1 DEF Alone
<1>8. QED
  BY <1>3, <1>4, <1>5, <1>6, <1>7

\* A store to a line of a live buffer dirties it, and nothing else.
LEMMA StoreKeeps ==
  ASSUME MapsInv, NEW i \in Bos, NEW n \in Nat, bo[i].live, n < bo[i].size,
         cache' = AfterStore(bo[i].phys, n), UNCHANGED <<bo, maps, app>>
  PROVE  /\ DirtyOwned'
         /\ \A j \in Bos, m \in Lines :
              Steady(j) /\ cache'[bo[j].phys][m] = "due" => Ahead(j, m)
<1> USE DEF MapsInv
<1>1. bo[i].phys \in Extents
  BY DEF PagesOwned
<1>2. \A e \in Extents, m \in Lines :
        \/ cache'[e][m] = cache[e][m]
        \/ e = bo[i].phys /\ m = n /\ cache'[e][m] = "dirty"
  BY <1>1, CacheStore
<1>3. DirtyOwned'
  BY <1>1, <1>2 DEF DirtyOwned
<1>4. ASSUME NEW j \in Bos, NEW m \in Lines, Steady(j), cache'[bo[j].phys][m] = "due"
      PROVE  Ahead(j, m)
  <2>1. bo[j].phys \in Extents
    BY <1>4 DEF Steady, PagesOwned
  <2>2. cache[bo[j].phys][m] = "due"
    BY <1>2, <1>4, <2>1
  <2>3. QED
    BY <1>4, <2>2 DEF DrainSoFar
<1>5. QED
  BY <1>3, <1>4

\* A store through the mmap pointer goes to the pages of the buffer, which is mapped.
LEMMA WriteKeeps ==
  ASSUME MapsInv, NEW i \in Bos, NEW n \in Lines, Write(i, n)
  PROVE  (PagesOwned /\ PointersGood /\ DirtyOwned /\ DrainSoFar /\ Alone)'
<1> USE DEF MapsInv
<1>1. /\ bo[i].live /\ bo[i].phys # "none" /\ n < bo[i].size
      /\ maps[ptr[i]] = bo[i].phys
  <2>1. AppIdle /\ ptr[i] # 0 /\ n < bo[i].size
    BY DEF Write
  <2>2. bo[i].live /\ Steady(i) /\ bo[i].phys # "none"
    BY <2>1, EntryFacts, SteadyWhen
  <2>3. QED
    BY <2>1, <2>2 DEF PointersGood, LeadsThere
<1>2. /\ UNCHANGED <<exclusive, bo, maps, ptr, app, cs>>
      /\ fault' = fault /\ cache' = AfterStore(bo[i].phys, n)
  <2>1. fault \in BOOLEAN
    BY DEF MapsTypeOK
  <2>2. QED
    BY <1>1, <2>1 DEF Write
<1>3. PagesOwned' /\ PointersGood'
  BY <1>2 DEF PagesOwned, PointersGood, LeadsThere, Steady
<1>4. DirtyOwned' /\ DrainSoFar'
  BY <1>1, <1>2, Numbers, StoreKeeps DEF DrainSoFar, Ahead, Steady
<1>5. Alone'
  BY <1>2 DEF Alone, Steady, AppIdle, CsIdle
<1>6. QED
  BY <1>3, <1>4, <1>5

\* A store through the GPU address goes there too, mapped or not.
LEMMA WriteAtVaKeeps ==
  ASSUME MapsInv, NEW i \in Bos, NEW n \in Lines, WriteAtVa(i, n)
  PROVE  (PagesOwned /\ PointersGood /\ DirtyOwned /\ DrainSoFar /\ Alone)'
<1> USE DEF MapsInv
<1>1. /\ bo[i].live /\ n < bo[i].size /\ cache' = AfterStore(bo[i].phys, n)
      /\ UNCHANGED <<exclusive, bo, maps, ptr, app, cs, fault>>
  BY DEF WriteAtVa
<1>2. PagesOwned' /\ PointersGood'
  BY <1>1 DEF PagesOwned, PointersGood, LeadsThere, Steady
<1>3. DirtyOwned' /\ DrainSoFar'
  BY <1>1, Numbers, StoreKeeps DEF DrainSoFar, Ahead, Steady
<1>4. Alone'
  BY <1>1 DEF Alone, Steady, AppIdle, CsIdle
<1>5. QED
  BY <1>2, <1>3, <1>4

\* gem_close takes down one mapping, which leads to no other buffer's pages.
LEMMA GemCloseKeeps ==
  ASSUME MapsInv, NEW i \in Bos, GemClose(i)
  PROVE  (PagesOwned /\ PointersGood /\ DirtyOwned /\ DrainSoFar /\ Alone)'
<1> USE DEF MapsInv
<1>1. /\ AppIdle /\ bo[i].live /\ app' = <<"closing", i>> /\ (exclusive => CsIdle)
      /\ UNCHANGED <<exclusive, bo, cache, ptr, cs, fault>>
      /\ cs[1] \in {"fence", "fence map", "store"} => cs[2] # i
  BY DEF GemClose, AppEnters, Fencing
<1>2. app'[1] = "closing" /\ app'[2] = i
  BY <1>1
<1>3. \A j \in Bos : /\ Steady(j) <=> bo[j].live
                     /\ Steady(j)' <=> Steady(j) /\ j # i
  BY <1>1, SteadyWhen DEF Steady
<1>4. \A a \in Addresses :
        /\ maps'[a] = maps[a] \/ (maps'[a] = "none" /\ maps[a] = bo[i].phys)
        /\ maps'[a] # "none" => a # bo[i].cpu
  <2>1. CASE bo[i].cpu = 0
    BY <2>1, Numbers DEF GemClose
  <2>2. CASE bo[i].cpu # 0
    <3>1. maps[bo[i].cpu] = bo[i].phys
      BY <1>1, <1>3, <2>2 DEF PointersGood, LeadsThere
    <3>2. maps' = [maps EXCEPT ![bo[i].cpu] = "none"]
      BY <2>2 DEF GemClose
    <3>3. maps \in [Addresses -> Extents \cup {"none"}]
      BY DEF MapsTypeOK
    <3>4. QED
      BY <3>1, <3>2, <3>3
  <2>3. QED
    BY <2>1, <2>2
<1>5. ASSUME NEW j \in Bos, bo[j].live, j # i, NEW a \in Addresses, maps[a] = bo[j].phys
      PROVE  maps'[a] = bo[j].phys
  BY <1>1, <1>4, <1>5 DEF PagesOwned
<1>6. PagesOwned'
  BY <1>1 DEF PagesOwned
<1>7. PointersGood'
  <2>1. \A j \in Bos : Steady(j)' => LeadsThere(j)'
    <3>1. SUFFICES ASSUME NEW j \in Bos, Steady(j), j # i PROVE LeadsThere(j)'
      BY <1>3
    <3>2. LeadsThere(j) /\ bo[j].live
      BY <1>3, <3>1 DEF PointersGood
    <3>3. /\ bo[j].cpu # 0 => bo[j].cpu \in Addresses
          /\ ptr[j] # 0 => ptr[j] \in Addresses
      BY EntryFacts
    <3>4. QED
      BY <1>1, <1>5, <3>1, <3>2, <3>3 DEF LeadsThere
  <2>2. cs[1] \in {"fence", "fence map", "store"} => cs[2] \in Bos /\ Steady(cs[2]) /\ cs[2] # i
    BY <1>1, CsRead DEF PointersGood
  <2>3. cs[1] = "store" => bo[cs[2]].cpu # 0 /\ maps'[cs[3]] = bo[cs[2]].phys
    <3>1. cs[1] = "store" => /\ cs[3] \in Addresses /\ cs[2] \in Bos /\ cs[2] # i /\ bo[cs[2]].live
                             /\ bo[cs[2]].cpu # 0 /\ maps[cs[3]] = bo[cs[2]].phys
      BY <1>3, <2>2, CsRead DEF PointersGood
    <3>2. QED
      BY <1>5, <3>1
  <2>4. QED
    BY <1>1, <1>2, <1>3, <2>1, <2>2, <2>3 DEF PointersGood
<1>8. DirtyOwned'
  <2>1. DirtyOwned /\ bo' = bo /\ cache' = cache
    BY <1>1
  <2>2. QED
    BY <2>1 DEF DirtyOwned
<1>9. DrainSoFar'
  <2>1. SUFFICES ASSUME NEW j \in Bos, NEW n \in Lines, Steady(j), j # i,
                        cache[bo[j].phys][n] = "due"
                 PROVE  Ahead(j, n)'
    BY <1>1, <1>3 DEF DrainSoFar
  <2>2. Ahead(j, n) /\ bo[j].live
    BY <1>3, <2>1 DEF DrainSoFar
  <2>3. cs[1] = "flush" => cs[3] \in Addresses
    BY CsRead
  <2>4. QED
    BY <1>1, <1>5, <2>1, <2>2, <2>3 DEF Ahead
<1>10. Alone'
  <2>1. SUFFICES ASSUME exclusive PROVE Alone'
    BY <1>1 DEF Alone
  <2>2. CsIdle' /\ cs'[1] = "idle" /\ ~fault'
    BY <1>1, <2>1, CsRead DEF Alone, CsIdle
  <2>3. \A a \in Addresses : maps'[a] # "none" => \E j \in Bos : Steady(j)' /\ bo'[j].cpu = a
    <3>1. SUFFICES ASSUME NEW a \in Addresses, maps'[a] # "none"
                   PROVE  \E j \in Bos : Steady(j)' /\ bo'[j].cpu = a
      OBVIOUS
    <3>2. PICK j \in Bos : Steady(j) /\ bo[j].cpu = a
      BY <1>4, <2>1, <3>1 DEF Alone
    <3>3. j # i
      BY <1>4, <3>1, <3>2
    <3>4. QED
      BY <1>1, <1>3, <3>2, <3>3
  <2>4. QED
    BY <1>2, <2>2, <2>3 DEF Alone
<1>11. QED
  BY <1>6, <1>7, <1>8, <1>9, <1>10

\* The rest of gem_close: pages and entry go, nothing dirty stays on the pages.
LEMMA GemCloseClearKeeps ==
  ASSUME MapsInv, GemCloseClear
  PROVE  (PagesOwned /\ PointersGood /\ DirtyOwned /\ DrainSoFar /\ Alone)'
<1> USE DEF MapsInv
<1> DEFINE i == app[2]
<1>1. /\ i \in Bos /\ app = <<"closing", i>> /\ app[1] = "closing" /\ app' = <<"idle">>
      /\ app'[1] = "idle" /\ bo[i].live /\ bo[i].phys \in Extents
      /\ UNCHANGED <<exclusive, maps, cs, fault>>
  <2>1. app[1] = "closing"
    BY DEF GemCloseClear
  <2>2. i \in Bos /\ app = <<"closing", i>> /\ bo[i].live
    BY <2>1, AppRead DEF PointersGood
  <2>3. QED
    BY <2>1, <2>2, EntryFacts DEF GemCloseClear
<1>2. \A j \in Bos : /\ bo'[j] = IF j = i THEN NoBuffer ELSE bo[j]
                     /\ ptr'[j] = IF j = i THEN 0 ELSE ptr[j]
  BY <1>1 DEF GemCloseClear, MapsTypeOK
<1>3. \A e \in Extents : e # bo[i].phys => cache'[e] = cache[e]
  BY <1>1 DEF GemCloseClear, MapsTypeOK
<1>4. \A n \in Lines : cache'[bo[i].phys][n] \notin {"dirty", "due"}
  <2>1. cache'[bo[i].phys] =
          [n \in Lines |-> IF cache[bo[i].phys][n] = "clean" THEN "clean" ELSE "orphan"]
    BY <1>1 DEF GemCloseClear, MapsTypeOK
  <2>2. QED
    BY <2>1
<1>5. \A j \in Bos : Steady(j)' <=> Steady(j)
  <2>1. ~NoBuffer.live
    BY DEF NoBuffer
  <2>2. \A j \in Bos : app = <<"closing", j>> => j = i
    BY <1>1
  <2>3. QED
    BY <1>1, <1>2, <2>1, <2>2 DEF Steady
<1>6. \A j \in Bos : Steady(j) => j # i /\ bo[j].live
  BY <1>1 DEF Steady
<1>7. PagesOwned'
  <2>1. ~NoBuffer.live
    BY DEF NoBuffer
  <2>2. QED
    BY <1>2, <2>1 DEF PagesOwned
<1>8. PointersGood'
  <2>1. \A j \in Bos : Steady(j)' => LeadsThere(j)'
    BY <1>1, <1>2, <1>5, <1>6 DEF PointersGood, LeadsThere
  <2>2. cs[1] \in {"fence", "fence map", "store"} => cs[2] \in Bos /\ Steady(cs[2]) /\ cs[2] # i
    BY <1>6, CsRead DEF PointersGood
  <2>3. QED
    BY <1>1, <1>2, <1>5, <2>1, <2>2 DEF PointersGood
<1>9. DirtyOwned'
  <2>1. SUFFICES ASSUME NEW e \in Extents, NEW n \in Lines, cache'[e][n] \in {"dirty", "due"}
                 PROVE  \E j \in Bos : /\ bo'[j].live /\ bo'[j].phys = e /\ n < bo'[j].size
                                       /\ (cache'[e][n] = "due") => (bo'[j].cpu # 0)
    BY DEF DirtyOwned
  <2>2. e # bo[i].phys /\ cache'[e][n] = cache[e][n] /\ cache[e][n] \in {"dirty", "due"}
    BY <1>3, <1>4, <2>1
  <2>3. PICK j \in Bos : /\ bo[j].live /\ bo[j].phys = e /\ n < bo[j].size
                         /\ (cache[e][n] = "due") => (bo[j].cpu # 0)
    BY <2>2 DEF DirtyOwned
  <2>4. QED
    BY <1>2, <2>2, <2>3
<1>10. DrainSoFar'
  <2>1. SUFFICES ASSUME NEW j \in Bos, NEW n \in Lines, Steady(j), cache'[bo'[j].phys][n] = "due"
                 PROVE  Ahead(j, n)'
    BY <1>5 DEF DrainSoFar
  <2>2. j # i /\ bo'[j] = bo[j] /\ bo[j].phys \in Extents /\ bo[j].phys # bo[i].phys
    BY <1>1, <1>2, <1>6, <2>1, EntryFacts DEF PagesOwned
  <2>3. cache[bo[j].phys][n] = "due"
    BY <1>3, <2>1, <2>2
  <2>4. QED
    BY <1>1, <2>1, <2>2, <2>3 DEF DrainSoFar, Ahead
<1>11. Alone'
  <2>1. SUFFICES ASSUME exclusive PROVE Alone'
    BY <1>1 DEF Alone
  <2>2. CsIdle' /\ cs'[1] = "idle" /\ ~fault'
    BY <1>1, <2>1, CsRead, AppRead DEF Alone, CsIdle
  <2>3. \A a \in Addresses : maps'[a] # "none" => \E j \in Bos : Steady(j)' /\ bo'[j].cpu = a
    <3>1. SUFFICES ASSUME NEW a \in Addresses, maps[a] # "none"
                   PROVE  \E j \in Bos : Steady(j)' /\ bo'[j].cpu = a
      BY <1>1
    <3>2. PICK j \in Bos : Steady(j) /\ bo[j].cpu = a
      BY <2>1, <3>1 DEF Alone
    <3>3. QED
      BY <1>2, <1>5, <1>6, <3>2
  <2>4. QED
    BY <1>1, <2>2, <2>3 DEF Alone
<1>12. QED
  BY <1>7, <1>8, <1>9, <1>10, <1>11

----------------------------------------------------------------------------
\* The submission thread.

\* Steps that only move the submission thread keep what they do not touch.
LEMMA CsMoves ==
  ASSUME MapsInv, UNCHANGED <<exclusive, bo, maps, ptr, app>>
  PROVE  /\ PagesOwned'
         /\ \A j \in Bos : Steady(j)' <=> Steady(j)
         /\ \A j \in Bos : LeadsThere(j)' <=> LeadsThere(j)
         /\ UNCHANGED cache => DirtyOwned'
         /\ /\ cs'[1] \in {"fence", "fence map", "store"} => Steady(cs'[2])
            /\ cs'[1] = "store" => bo[cs'[2]].cpu # 0 /\ maps[cs'[3]] = bo[cs'[2]].phys
            => PointersGood'
         /\ /\ fault' = fault
            /\ exclusive => AppIdle \/ CsIdle'
            /\ exclusive /\ cs'[1] = "fence map" => bo[cs'[2]].cpu = 0
            /\ exclusive /\ cs'[1] = "flush" => Steady(cs'[2]) /\ maps[cs'[3]] = bo[cs'[2]].phys
            => Alone'
<1> USE DEF MapsInv
<1>1. PagesOwned'
  BY DEF PagesOwned
<1>2. \A j : Steady(j)' <=> Steady(j)
  BY DEF Steady
<1>3. \A j \in Bos : LeadsThere(j)' <=> LeadsThere(j)
  BY DEF LeadsThere
<1>4. UNCHANGED cache => DirtyOwned'
  BY DEF DirtyOwned
<1>5. ASSUME cs'[1] \in {"fence", "fence map", "store"} => Steady(cs'[2]),
             cs'[1] = "store" => bo[cs'[2]].cpu # 0 /\ maps[cs'[3]] = bo[cs'[2]].phys
      PROVE  PointersGood'
  <2>1. \A j \in Bos : Steady(j)' => LeadsThere(j)'
    BY <1>2, <1>3 DEF PointersGood
  <2>2. cs'[1] \in {"fence", "fence map", "store"} => Steady(cs[2])'
    BY <1>5 DEF Steady
  <2>3. QED
    BY <1>5, <2>1, <2>2 DEF PointersGood
<1>6. ASSUME fault' = fault, exclusive => AppIdle \/ CsIdle',
             exclusive /\ cs'[1] = "fence map" => bo[cs'[2]].cpu = 0,
             exclusive /\ cs'[1] = "flush" => Steady(cs'[2]) /\ maps[cs'[3]] = bo[cs'[2]].phys
      PROVE  Alone'
  <2>1. exclusive /\ cs'[1] = "flush" => Steady(cs[2])'
    BY <1>6 DEF Steady
  <2>2. \A a \in Addresses :
          exclusive /\ maps[a] # "none" => \E j \in Bos : Steady(j)' /\ bo[j].cpu = a
    BY <1>2 DEF Alone
  <2>3. QED
    BY <1>6, <2>1, <2>2 DEF Alone, AppIdle
<1>7. QED
  BY <1>1, <1>2, <1>3, <1>4, <1>5, <1>6

\* The ioctl is entered, and the walk begins at the first entry: all that is due is ahead.
LEMMA CsBeginKeeps ==
  ASSUME MapsInv, CsBegin
  PROVE  (PagesOwned /\ PointersGood /\ DirtyOwned /\ DrainSoFar /\ Alone)'
<1> USE DEF MapsInv
<1>1. /\ UNCHANGED <<exclusive, bo, maps, ptr, app, fault>>
      /\ cs'[1] = "walk" /\ cs'[2] = 1 /\ (exclusive => AppIdle)
  BY DEF CsBegin, CsEnters
<1>2. PagesOwned' /\ PointersGood' /\ Alone'
  BY <1>1, CsMoves
<1>3. DirtyOwned'
  <2>1. SUFFICES ASSUME NEW e \in Extents, NEW n \in Lines, cache'[e][n] \in {"dirty", "due"}
                 PROVE  \E i \in Bos : /\ bo[i].live /\ bo[i].phys = e /\ n < bo[i].size
                                       /\ (cache'[e][n] = "due") => (bo[i].cpu # 0)
    BY <1>1 DEF DirtyOwned
  <2>2. cache'[e][n] =
          IF cache[e][n] = "dirty" /\ Drainable(e) THEN "due" ELSE cache[e][n]
    BY DEF CsBegin
  <2>3. cache[e][n] \in {"dirty", "due"}
    BY <2>1, <2>2
  <2>4. PICK i \in Bos : /\ bo[i].live /\ bo[i].phys = e /\ n < bo[i].size
                         /\ (cache[e][n] = "due") => (bo[i].cpu # 0)
    BY <2>3 DEF DirtyOwned
  <2>5. Drainable(e) => bo[i].cpu # 0
    BY <2>4 DEF Drainable, PagesOwned
  <2>6. QED
    BY <2>2, <2>4, <2>5
<1>4. DrainSoFar'
  BY <1>1, Numbers DEF DrainSoFar, Ahead
<1>5. QED
  BY <1>2, <1>3, <1>4

\* Where the walk goes after an entry that has nothing left to drain, nothing is behind it.
LEMMA OnwardAhead ==
  ASSUME NEW i \in Bos, NEW j \in Bos, j > i, NEW n, cs' = Onward(i)
  PROVE  Ahead(j, n)'
<1>1. CASE i + 1 \in Bos
  <2>1. cs'[1] = "walk" /\ cs'[2] = i + 1
    BY <1>1, OnwardType
  <2>2. QED
    BY <2>1, Numbers DEF Ahead
<1>2. CASE i + 1 \notin Bos
  <2>1. i \in Nat /\ j \in Nat /\ j <= MaxBo /\ i + 1 \in Nat /\ 1 <= i + 1
    BY Numbers
  <2>2. ~(i + 1 <= MaxBo)
    BY <1>2, <2>1, Numbers
  <2>3. QED
    BY <2>1, <2>2, CpuMapsAssumption
<1>3. QED
  BY <1>1, <1>2

\* The walk skips an entry only if nothing of it is dirty.
LEMMA CsWalkKeeps ==
  ASSUME MapsInv, CsWalk
  PROVE  (PagesOwned /\ PointersGood /\ DirtyOwned /\ DrainSoFar /\ Alone)'
<1> USE DEF MapsInv
<1> DEFINE i == cs[2]
<1>1. /\ i \in Bos /\ cs[1] = "walk"
      /\ UNCHANGED <<exclusive, bo, maps, cache, ptr, app, fault>>
      /\ \/ bo[i].live /\ bo[i].cpu # 0 /\ cs' = <<"flush", i, bo[i].cpu, 0>>
         \/ ~(bo[i].live /\ bo[i].cpu # 0) /\ cs' = Onward(i)
  BY CsRead DEF CsWalk, Skip
<1>2. exclusive => AppIdle
  BY <1>1, CsRead DEF Alone
<1>3. CASE bo[i].live /\ bo[i].cpu # 0
  <2>1. cs'[1] = "flush" /\ cs'[2] = i /\ cs'[3] = bo[i].cpu /\ cs'[4] = 0
    BY <1>1, <1>3
  <2>2. Steady(i) => maps[bo[i].cpu] = bo[i].phys
    BY <1>1, <1>3 DEF PointersGood, LeadsThere
  <2>3. exclusive => Steady(i)
    BY <1>1, <1>2, <1>3, SteadyWhen
  <2>4. PagesOwned' /\ PointersGood' /\ DirtyOwned'
    BY <1>1, <2>1, CsMoves
  <2>5. Alone'
    BY <1>1, <1>2, <2>1, <2>2, <2>3, CsMoves
  <2>6. DrainSoFar'
    <3>1. SUFFICES ASSUME NEW j \in Bos, NEW n \in Lines, Steady(j),
                          cache[bo[j].phys][n] = "due"
                   PROVE  Ahead(j, n)'
      BY <1>1, CsMoves DEF DrainSoFar
    <3>2. j >= i
      BY <1>1, <3>1 DEF DrainSoFar, Ahead
    <3>3. QED
      BY <1>1, <2>1, <2>2, <3>1, <3>2, Numbers DEF Ahead
  <2>7. QED
    BY <2>4, <2>5, <2>6
<1>4. CASE ~(bo[i].live /\ bo[i].cpu # 0)
  <2>1. cs' = Onward(i) /\ cs'[1] \in {"walk", "submit"}
    BY <1>1, <1>4, OnwardType
  <2>2. PagesOwned' /\ PointersGood' /\ DirtyOwned' /\ Alone'
    BY <1>1, <1>2, <2>1, CsMoves
  <2>3. DrainSoFar'
    <3>1. SUFFICES ASSUME NEW j \in Bos, NEW n \in Lines, Steady(j),
                          cache[bo[j].phys][n] = "due"
                   PROVE  Ahead(j, n)'
      BY <1>1, CsMoves DEF DrainSoFar
    <3>2. j >= i
      BY <1>1, <3>1 DEF DrainSoFar, Ahead
    <3>3. bo[j].live /\ bo[j].cpu # 0
      BY <3>1, SteadyWhen, DirtyIsOwn
    <3>4. j > i
      BY <1>1, <1>4, <3>2, <3>3, Numbers
    <3>5. QED
      BY <1>1, <2>1, <3>4, OnwardAhead
  <2>4. QED
    BY <2>2, <2>3
<1>5. QED
  BY <1>3, <1>4

\* One line is flushed, or the buffer is done with.
LEMMA CsFlushKeeps ==
  ASSUME MapsInv, CsFlush
  PROVE  (PagesOwned /\ PointersGood /\ DirtyOwned /\ DrainSoFar /\ Alone)'
<1> USE DEF MapsInv
<1> DEFINE i == cs[2]
           a == cs[3]
           k == cs[4]
<1>1. /\ cs[1] = "flush" /\ i \in Bos /\ a \in Addresses /\ k \in Nat
      /\ UNCHANGED <<exclusive, bo, maps, ptr, app>>
      /\ cs' = IF k < bo[i].size THEN <<"flush", i, a, k + 1>> ELSE Onward(i)
  BY CsRead DEF CsFlush
<1>2. exclusive => AppIdle /\ Steady(i) /\ maps[a] = bo[i].phys /\ ~fault
  BY <1>1, CsRead DEF Alone
<1>3. \A e \in Extents, n \in Lines :
        /\ cache'[e][n] = cache[e][n] \/ cache'[e][n] = "clean"
        /\ k < bo[i].size /\ maps[a] = e /\ n = k => cache'[e][n] = "clean"
  <2>1. CASE k < bo[i].size /\ maps[a] # "none"
    <3>1. cache' = [cache EXCEPT ![maps[a]][k] = "clean"] /\ maps[a] \in Extents
      BY <1>1, <2>1 DEF CsFlush, MapsTypeOK
    <3>2. QED
      BY <3>1 DEF MapsTypeOK
  <2>2. CASE ~(k < bo[i].size /\ maps[a] # "none")
    <3>1. cache' = cache /\ (k < bo[i].size => maps[a] \notin Extents)
      BY <2>2, CpuMapsAssumption DEF CsFlush
    <3>2. QED
      BY <3>1
  <2>3. QED
    BY <2>1, <2>2
<1>4. \/ k < bo[i].size /\ cs'[1] = "flush" /\ cs'[2] = i /\ cs'[3] = a /\ cs'[4] = k + 1
      \/ ~(k < bo[i].size) /\ cs' = Onward(i) /\ cs'[1] \in {"walk", "submit"}
  BY <1>1, OnwardType
<1>5. PagesOwned' /\ PointersGood'
  BY <1>1, <1>4, CsMoves
<1>6. DirtyOwned'
  BY <1>1, <1>3 DEF DirtyOwned
<1>7. DrainSoFar'
  <2>1. SUFFICES ASSUME NEW j \in Bos, NEW n \in Lines, Steady(j), cache'[bo[j].phys][n] = "due"
                 PROVE  Ahead(j, n)'
    BY <1>1, CsMoves DEF DrainSoFar
  <2>2. bo[j].live /\ bo[j].phys \in Extents
    BY <2>1, EntryFacts, SteadyWhen
  <2>3. cache[bo[j].phys][n] = "due" /\ ~(k < bo[i].size /\ maps[a] = bo[j].phys /\ n = k)
    BY <1>3, <2>1, <2>2
  <2>4. j > i \/ (j = i /\ n >= k /\ maps[a] = bo[j].phys)
    BY <1>1, <2>1, <2>3 DEF DrainSoFar, Ahead
  <2>5. CASE k < bo[i].size
    <3>1. cs'[1] = "flush" /\ cs'[2] = i /\ cs'[3] = a /\ cs'[4] = k + 1
      BY <1>4, <2>5
    <3>2. j > i \/ (j = i /\ n >= k + 1 /\ maps[a] = bo[j].phys)
      BY <1>1, <2>3, <2>4, <2>5, Numbers
    <3>3. QED
      BY <1>1, <3>1, <3>2 DEF Ahead
  <2>6. CASE ~(k < bo[i].size)
    <3>1. n < bo[j].size
      BY <2>2, <2>3, DirtyIsOwn
    <3>2. j > i
      BY <1>1, <2>4, <2>6, <3>1, Numbers, EntryFacts
    <3>3. QED
      BY <1>1, <1>4, <2>6, <3>2, OnwardAhead
  <2>7. QED
    BY <2>5, <2>6
<1>8. Alone'
  <2>1. exclusive => fault' = fault
    <3>1. exclusive => maps[a] # "none"
      BY <1>1, <1>2, EntryFacts, SteadyWhen
    <3>2. QED
      BY <1>1, <3>1 DEF CsFlush, MapsTypeOK
  <2>2. CASE exclusive
    BY <1>1, <1>2, <1>4, <2>1, <2>2, CsMoves
  <2>3. CASE ~exclusive
    BY <1>1, <2>3 DEF Alone
  <2>4. QED
    BY <2>2, <2>3
<1>9. QED
  BY <1>5, <1>6, <1>7, <1>8

\* The stream has retired; a user fence is written to a buffer that is there.
LEMMA CsRetiredKeeps ==
  ASSUME MapsInv, CsRetired
  PROVE  (PagesOwned /\ PointersGood /\ DirtyOwned /\ DrainSoFar /\ Alone)'
<1> USE DEF MapsInv
<1>1. /\ cs[1] = "submit" /\ UNCHANGED <<exclusive, bo, maps, cache, ptr, app, fault>>
      /\ \/ cs' = <<"idle">>
         \/ \E j \in Bos : Steady(j) /\ cs' = <<"fence", j>>
  BY DEF CsRetired, Steady
<1>2. cs'[1] = "idle" \/ (cs'[1] = "fence" /\ Steady(cs'[2]))
  BY <1>1
<1>3. exclusive => AppIdle
  BY <1>1, CsRead DEF Alone
<1>4. PagesOwned' /\ PointersGood' /\ DirtyOwned' /\ Alone'
  BY <1>1, <1>2, <1>3, CsMoves
<1>5. DrainSoFar'
  BY <1>1, <1>4 DEF DrainSoFar, Ahead, Steady
<1>6. QED
  BY <1>4, <1>5

\* The fence's buffer is looked up, and the thread has its pointer or goes to map it.
LEMMA CsFenceKeeps ==
  ASSUME MapsInv, CsFence
  PROVE  (PagesOwned /\ PointersGood /\ DirtyOwned /\ DrainSoFar /\ Alone)'
<1> USE DEF MapsInv
<1> DEFINE i == cs[2]
<1>1. /\ cs[1] = "fence" /\ i \in Bos /\ Steady(i) /\ bo[i].live
      /\ UNCHANGED <<exclusive, bo, maps, cache, ptr, app, fault>>
  BY CsRead, SteadyWhen DEF CsFence, PointersGood
<1>2. \/ bo[i].cpu = 0 /\ cs' = <<"fence map", i>>
      \/ bo[i].cpu # 0 /\ cs' = <<"store", i, bo[i].cpu>>
  BY <1>1 DEF CsFence, NeedsMap
<1>3. \/ bo[i].cpu = 0 /\ cs'[1] = "fence map" /\ cs'[2] = i
      \/ bo[i].cpu # 0 /\ cs'[1] = "store" /\ cs'[2] = i /\ cs'[3] = bo[i].cpu
  <2>1. CASE bo[i].cpu = 0 /\ cs' = <<"fence map", i>>
    BY <2>1
  <2>2. CASE bo[i].cpu # 0 /\ cs' = <<"store", i, bo[i].cpu>>
    BY <2>2
  <2>3. QED
    BY <1>2, <2>1, <2>2
<1>4. exclusive => AppIdle
  BY <1>1, CsRead DEF Alone
<1>5. bo[i].cpu # 0 => maps[bo[i].cpu] = bo[i].phys
  BY <1>1 DEF PointersGood, LeadsThere
<1>6. PagesOwned' /\ PointersGood' /\ DirtyOwned' /\ Alone'
  BY <1>1, <1>3, <1>4, <1>5, CsMoves
<1>7. DrainSoFar'
  BY <1>1 DEF DrainSoFar, Ahead, Steady
<1>8. QED
  BY <1>6, <1>7

\* The fence's buffer is mapped, as mmap maps it.
LEMMA CsFenceMapKeeps ==
  ASSUME MapsInv, NEW a \in Addresses, CsFenceMap(a)
  PROVE  (PagesOwned /\ PointersGood /\ DirtyOwned /\ DrainSoFar /\ Alone)'
<1> USE DEF MapsInv
<1>0. PICK i \in Bos : i = cs[2]
  BY CsRead DEF CsFenceMap
<1>1. bo[i].live /\ bo[i].phys # "none" /\ cs[1] = "fence map" /\ maps[a] = "none" /\ a # 0
  <2>1. cs[1] = "fence map"
    BY DEF CsFenceMap
  <2>2. Steady(i) /\ bo[i].live
    BY <1>0, <2>1, SteadyWhen DEF PointersGood
  <2>3. QED
    BY <2>1, <2>2, EntryFacts, Numbers DEF CsFenceMap, NextAddress, Unmapped
<1>2. /\ \A j \in Bos : /\ bo'[j].live = bo[j].live /\ bo'[j].phys = bo[j].phys
                        /\ bo'[j].size = bo[j].size
                        /\ bo'[j].cpu = IF j = i THEN a ELSE bo[j].cpu
                        /\ j # i => bo'[j] = bo[j]
      /\ \A b \in Addresses : maps'[b] = IF b = a THEN bo[i].phys ELSE maps[b]
  <2>1. MapAt(i, a)
    BY <1>0 DEF CsFenceMap
  <2>2. QED
    BY <1>0, <2>1, MapAtDoes
<1>3. /\ UNCHANGED <<exclusive, cache, ptr, app, fault>>
      /\ cs'[1] = "store" /\ cs'[2] = i /\ cs'[3] = a
  BY <1>0 DEF CsFenceMap
<1>4. \A j \in Bos : Steady(j)' <=> Steady(j)
  BY <1>2, <1>3 DEF Steady
<1>5. PagesOwned'
  <2>1. bo[i].live /\ ptr' = ptr
    BY <1>1, <1>3
  <2>2. \A j \in Bos : bo'[j].live => bo'[j].phys \in Extents /\ bo'[j].size \in Sizes
    BY <1>2 DEF PagesOwned
  <2>3. \A j \in Bos : ~bo'[j].live => bo'[j] = NoBuffer /\ ptr'[j] = 0
    BY <1>0, <1>2, <2>1 DEF PagesOwned
  <2>4. \A j, l \in Bos : bo'[j].live /\ bo'[l].live /\ bo'[j].phys = bo'[l].phys => j = l
    BY <1>2 DEF PagesOwned
  <2>5. QED
    BY <2>2, <2>3, <2>4 DEF PagesOwned
<1>6. PointersGood'
  <2>1. \A j \in Bos : Steady(j)' => LeadsThere(j)'
    <3>1. SUFFICES ASSUME NEW j \in Bos, Steady(j) PROVE LeadsThere(j)'
      BY <1>4
    <3>2. bo[j].cpu # a /\ ptr[j] # a
      BY <1>1, <3>1, FreshAddress
    <3>3. /\ bo[j].cpu # 0 => bo[j].cpu \in Addresses
          /\ ptr[j] # 0 => ptr[j] \in Addresses
      BY EntryFacts
    <3>4. LeadsThere(j) /\ ptr' = ptr
      BY <1>3, <3>1 DEF PointersGood
    <3>5. CASE j = i
      BY <1>1, <1>2, <3>2, <3>3, <3>4, <3>5 DEF LeadsThere
    <3>6. CASE j # i
      BY <1>2, <3>2, <3>3, <3>4, <3>6 DEF LeadsThere
    <3>7. QED
      BY <3>5, <3>6
  <2>2. Steady(cs[2])'
    <3>1. Steady(i)
      BY <1>0, <1>1 DEF PointersGood
    <3>2. QED
      BY <1>2, <1>3, <3>1 DEF Steady
  <2>3. bo'[cs'[2]].cpu # 0 /\ maps'[cs'[3]] = bo'[cs'[2]].phys
    BY <1>0, <1>1, <1>2, <1>3
  <2>4. app[1] \in {"mapping", "closing"} => bo'[app[2]].live
    BY <1>2, AppRead DEF PointersGood
  <2>5. QED
    BY <1>3, <2>1, <2>2, <2>3, <2>4 DEF PointersGood
<1>7. DirtyOwned'
  <2>1. cache' = cache
    BY <1>3
  <2>2. \A j \in Bos : bo[j].cpu # 0 => bo'[j].cpu # 0
    BY <1>1, <1>2
  <2>3. QED
    BY <1>2, <2>1, <2>2 DEF DirtyOwned
<1>8. DrainSoFar'
  <2>1. \A j \in Bos, n \in Lines : Steady(j) => cache[bo[j].phys][n] # "due"
    BY <1>1 DEF DrainSoFar, Ahead
  <2>2. \A j \in Bos : bo'[j].phys = bo[j].phys
    BY <1>2
  <2>3. QED
    BY <1>3, <1>4, <2>1, <2>2 DEF DrainSoFar
<1>9. Alone'
  <2>1. SUFFICES ASSUME exclusive PROVE Alone'
    BY <1>3 DEF Alone
  <2>2. AppIdle /\ app[1] = "idle" /\ ~fault /\ bo[i].cpu = 0
    BY <1>0, <1>1, <2>1, AppRead, CsRead DEF Alone
  <2>3. \A b \in Addresses : maps'[b] # "none" => \E j \in Bos : Steady(j)' /\ bo'[j].cpu = b
    <3>1. SUFFICES ASSUME NEW b \in Addresses, maps'[b] # "none"
                   PROVE  \E j \in Bos : Steady(j)' /\ bo'[j].cpu = b
      OBVIOUS
    <3>2. CASE b = a
      <4>1. Steady(i)
        BY <1>0, <1>1 DEF PointersGood
      <4>2. QED
        BY <1>0, <1>2, <1>4, <3>2, <4>1
    <3>3. CASE b # a
      <4>1. PICK j \in Bos : Steady(j) /\ bo[j].cpu = b
        BY <1>2, <2>1, <3>1, <3>3 DEF Alone
      <4>2. j # i
        BY <2>2, <3>1, <4>1, Numbers
      <4>3. QED
        BY <1>2, <1>4, <4>1, <4>2
    <3>4. QED
      BY <3>2, <3>3
  <2>4. QED
    BY <1>3, <2>2, <2>3 DEF Alone, AppIdle
<1>10. QED
  BY <1>5, <1>6, <1>7, <1>8, <1>9

\* The mapping is refused.
LEMMA CsFenceRefusedKeeps ==
  ASSUME MapsInv, CsFenceRefused
  PROVE  (PagesOwned /\ PointersGood /\ DirtyOwned /\ DrainSoFar /\ Alone)'
<1>1. /\ UNCHANGED <<exclusive, bo, maps, cache, ptr, app, fault>>
      /\ cs[1] = "fence map" /\ cs'[1] = "idle" /\ CsIdle'
  BY DEF CsFenceRefused, CsIdle
<1>2. PagesOwned' /\ PointersGood' /\ DirtyOwned' /\ Alone'
  BY <1>1, CsMoves
<1>3. DrainSoFar'
  BY <1>1 DEF MapsInv, DrainSoFar, Ahead, Steady
<1>4. QED
  BY <1>2, <1>3

\* The sequence number goes to the fence buffer's first line.
LEMMA CsStoreKeeps ==
  ASSUME MapsInv, CsStore
  PROVE  (PagesOwned /\ PointersGood /\ DirtyOwned /\ DrainSoFar /\ Alone)'
<1> USE DEF MapsInv
<1> DEFINE i == cs[2]
<1>1. /\ cs[1] = "store" /\ i \in Bos /\ cs[3] \in Addresses
      /\ bo[i].live /\ bo[i].cpu # 0 /\ maps[cs[3]] = bo[i].phys
      /\ bo[i].phys \in Extents /\ bo[i].phys # "none" /\ 0 < bo[i].size
  <2>1. cs[1] = "store" /\ i \in Bos /\ cs[3] \in Addresses
    BY CsRead DEF CsStore
  <2>2. Steady(i) /\ bo[i].cpu # 0 /\ maps[cs[3]] = bo[i].phys
    BY <2>1 DEF PointersGood
  <2>3. bo[i].live /\ bo[i].phys \in Extents /\ bo[i].phys # "none" /\ 0 < bo[i].size
    BY <2>1, <2>2, SteadyWhen, EntryFacts
  <2>4. QED
    BY <2>1, <2>2, <2>3
<1>2. /\ UNCHANGED <<exclusive, bo, maps, ptr, app>> /\ cs'[1] = "idle" /\ CsIdle'
      /\ fault' = fault
  <2>1. fault \in BOOLEAN
    BY DEF MapsTypeOK
  <2>2. QED
    BY <1>1, <2>1 DEF CsStore, CsIdle
<1>3. PagesOwned' /\ PointersGood' /\ Alone'
  BY <1>2, CsMoves
<1>4. cache' = AfterStore(bo[i].phys, 0)
  BY <1>1 DEF CsStore
<1>5. /\ DirtyOwned'
      /\ \A j \in Bos, m \in Lines :
           Steady(j) /\ cache'[bo[j].phys][m] = "due" => Ahead(j, m)
  BY <1>1, <1>2, <1>4, StoreKeeps
<1>6. DrainSoFar'
  BY <1>1, <1>2, <1>5 DEF DrainSoFar, Ahead, Steady
<1>7. QED
  BY <1>3, <1>5, <1>6

----------------------------------------------------------------------------
\* Theorems.

\* At the start nothing is mapped, dirty or under way.
LEMMA MapsStart ==
  MapsInit => MapsInv
<1>1. SUFFICES ASSUME MapsInit PROVE MapsInv
  OBVIOUS
<1> USE <1>1, CpuMapsAssumption
<1>2. app[1] = "idle" /\ cs[1] = "idle" /\ AppIdle /\ CsIdle
  BY DEF MapsInit, AppIdle, CsIdle
<1>3. \A i \in Bos : bo[i] = NoBuffer /\ ptr[i] = 0 /\ ~bo[i].live
  BY DEF MapsInit, NoBuffer
<1>4. MapsTypeOK
  <2>1. NoBuffer \in BoRecord /\ 0 \in 0 .. MaxMaps
    BY DEF NoBuffer, BoRecord
  <2>2. bo \in [Bos -> BoRecord] /\ ptr \in [Bos -> 0 .. MaxMaps]
    BY <2>1 DEF MapsInit
  <2>3. cache \in [Extents -> [Lines -> LineStates]]
    BY DEF MapsInit, LineStates
  <2>4. QED
    BY <2>2, <2>3 DEF MapsInit, MapsTypeOK
<1>5. PagesOwned
  BY <1>3 DEF PagesOwned
<1>6. PointersGood
  BY <1>2, <1>3 DEF PointersGood, Steady
<1>7. DirtyOwned /\ DrainSoFar
  BY <1>3 DEF MapsInit, DirtyOwned, DrainSoFar, Steady
<1>8. Alone
  BY <1>2 DEF MapsInit, Alone
<1>9. QED
  BY <1>4, <1>5, <1>6, <1>7, <1>8 DEF MapsInv

\* Every step of either thread keeps the invariant.
LEMMA MapsStep ==
  MapsInv /\ [MapsNext]_mapsVars => MapsInv'
<1>1. SUFFICES ASSUME MapsInv, [MapsNext]_mapsVars PROVE MapsInv'
  OBVIOUS
<1>2. MapsTypeOK'
  BY <1>1, MapsTypeStep DEF MapsInv
<1>3. SUFFICES (PagesOwned /\ PointersGood /\ DirtyOwned /\ DrainSoFar /\ Alone)'
  BY <1>2 DEF MapsInv
<1>4. CASE UNCHANGED mapsVars
  <2> USE <1>1, <1>4 DEF mapsVars, MapsInv
  <2>1. PagesOwned'
    BY DEF PagesOwned
  <2>2. PointersGood'
    BY DEF PointersGood, LeadsThere, Steady
  <2>3. DirtyOwned'
    BY DEF DirtyOwned
  <2>4. DrainSoFar'
    BY DEF DrainSoFar, Ahead, Steady
  <2>5. Alone'
    BY DEF Alone, Steady, AppIdle, CsIdle
  <2>6. QED
    BY <2>1, <2>2, <2>3, <2>4, <2>5
<1>5. CASE Running
  BY <1>1, <1>5, GemCreateKeeps, MmapKeeps, MmapMapKeeps, LetGoKeeps, WriteKeeps, WriteAtVaKeeps,
     GemCloseKeeps, GemCloseClearKeeps, CsBeginKeeps, CsWalkKeeps, CsFlushKeeps, CsRetiredKeeps, CsFenceKeeps,
     CsFenceMapKeeps, CsFenceRefusedKeeps, CsStoreKeeps DEF Running
<1>6. QED
  BY <1>1, <1>4, <1>5 DEF MapsNext, Gone

\* The invariant holds however the two threads overlap.
THEOREM MapsInvariant == MapsSpec => []MapsInv
<1>1. MapsInit => MapsInv
  BY MapsStart
<1>2. MapsInv /\ [MapsNext]_mapsVars => MapsInv'
  BY MapsStep
<1>3. QED
  BY <1>1, <1>2, PTL DEF MapsSpec

\* What the CPU stored by either address before the CS ioctl began has left its cache when
\* the stream reaches the GPU, for every buffer that had a CPU mapping then, is live and is
\* not being closed, with the table walked without a lock while the title maps, unmaps,
\* creates and closes.
THEOREM StreamIsDrained == MapsSpec => []Drained
<1>1. MapsInv => Drained
  BY DEF MapsInv, DrainSoFar, Ahead, Steady, Drained
<1>2. QED
  BY <1>1, MapsInvariant, PTL

\* With ioctls entered one at a time nothing touches an unmapped page, and between
\* ioctls the mappings are exactly those of the live buffers, one each.
THEOREM MappingsOwned == MapsSpec => []MapsOwned
<1>1. ASSUME MapsInv PROVE MapsOwned
  <2> USE <1>1 DEF MapsInv
  <2>1. SUFFICES ASSUME exclusive, AppIdle, CsIdle, NEW a \in Addresses
                 PROVE  /\ Cardinality({i \in Bos : bo[i].cpu = a}) <= 1
                        /\ maps[a] # "none" <=>
                             \E i \in Bos : bo[i].live /\ bo[i].cpu = a /\ bo[i].phys = maps[a]
    BY DEF MapsOwned, Alone
  <2>2. a # 0
    BY Numbers
  <2>3. \A i \in Bos : bo[i].cpu = a =>
          bo[i].live /\ Steady(i) /\ bo[i].phys = maps[a] /\ bo[i].phys # "none"
    <3>1. SUFFICES ASSUME NEW i \in Bos, bo[i].cpu = a
                   PROVE  bo[i].live /\ Steady(i) /\ bo[i].phys = maps[a] /\ bo[i].phys # "none"
      OBVIOUS
    <3>2. bo[i].live /\ Steady(i) /\ bo[i].phys # "none"
      BY <2>1, <2>2, <3>1, EntryFacts, SteadyWhen
    <3>3. QED
      BY <2>2, <3>1, <3>2 DEF PointersGood, LeadsThere
  <2>4. \A i, j \in Bos : bo[i].cpu = a /\ bo[j].cpu = a => i = j
    BY <2>3 DEF PagesOwned
  <2>5. Cardinality({i \in Bos : bo[i].cpu = a}) <= 1
    <3>1. CASE {i \in Bos : bo[i].cpu = a} = {}
      BY <3>1, FS_EmptySet
    <3>2. CASE {i \in Bos : bo[i].cpu = a} # {}
      <4>1. PICK i \in Bos : bo[i].cpu = a
        BY <3>2
      <4>2. {j \in Bos : bo[j].cpu = a} = {i}
        BY <2>4, <4>1
      <4>3. QED
        <5>1. Cardinality({i}) = 1
          BY FS_Singleton
        <5>2. Cardinality({j \in Bos : bo[j].cpu = a}) = 1
          BY <4>2, <5>1, Zenon
        <5>3. QED
          BY <5>2
    <3>3. QED
      BY <3>1, <3>2
  <2>6. maps[a] # "none" => \E i \in Bos : bo[i].cpu = a
    BY <2>1 DEF Alone
  <2>7. QED
    BY <2>3, <2>5, <2>6
<1>2. QED
  BY <1>1, MapsInvariant, PTL

=============================================================================
