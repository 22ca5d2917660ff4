---------------------------- MODULE ChainProofs -----------------------------
(***************************************************************************)
(* Proofs about Chain for every memory a client may write, however long    *)
(* its packets, command buffers and chains, and every limit on links: what *)
(* the driver is handed is what the client's stream runs.                  *)
(***************************************************************************)
EXTENDS Chain, SequenceTheorems, WellFoundedInduction, TLAPS

\* A non-empty set of naturals has a least element.
LEMMA LeastNatural ==
  ASSUME NEW T \in SUBSET Nat, T # {}
  PROVE  \E m \in T : \A k \in T : m <= k
<1>1. IsWellFoundedOn(OpToRel(<, Nat), Nat)
  BY NatLessThanWellFounded
<1>2. PICK x \in T : \A y \in T : ~ (<<y, x>> \in OpToRel(<, Nat))
  BY <1>1, WFMin, Zenon
<1>3. \A y \in T : ~ (y < x)
  BY <1>2 DEF OpToRel
<1>4. QED
  BY <1>3

----------------------------------------------------------------------------
\* What is defined by going up from 0 exists and is the only one.

\* f starts at a and goes from each place to the next by step.
Climbs(f, n, a, step) == f[0] = a /\ \A k \in 1 .. n : f[k] = step[k][f[k - 1]]

\* g does the same wherever it is in T.
Follows(g, n, T, a, step) ==
  g[0] = a /\ \A k \in 1 .. n : g[k - 1] \in T => g[k] = step[k][g[k - 1]]

\* There is such an f, for every n.
LEMMA ClimbExists ==
  ASSUME NEW n \in Nat, NEW T, NEW a \in T, NEW step \in [1 .. n -> [T -> T]]
  PROVE  \E f \in [0 .. n -> T] : Climbs(f, n, a, step)
<1> DEFINE Up(m) == \E f \in [0 .. m -> T] : Climbs(f, m, a, step)
           Not == {m \in 0 .. n : ~Up(m)}
<1>1. SUFFICES ASSUME Not # {} PROVE FALSE
  OBVIOUS
<1>2. Not \in SUBSET Nat
  OBVIOUS
<1>3. PICK m \in Not : \A k \in Not : m <= k
  BY <1>1, <1>2, LeastNatural
<1>4. m \in 0 .. n /\ ~Up(m)
  BY <1>3
<1>5. m # 0
  <2>1. SUFFICES ASSUME m = 0 PROVE Up(0)
    BY <1>4
  <2>2. [k \in 0 .. 0 |-> a] \in [0 .. 0 -> T] /\ Climbs([k \in 0 .. 0 |-> a], 0, a, step)
    BY DEF Climbs
  <2>3. QED
    BY <2>2
<1>6. m - 1 \in 0 .. n /\ m - 1 \notin Not
  BY <1>3, <1>4, <1>5
<1>7. PICK f \in [0 .. m - 1 -> T] : Climbs(f, m - 1, a, step)
  BY <1>6
<1> DEFINE g == [k \in 0 .. m |-> IF k = m THEN step[m][f[m - 1]] ELSE f[k]]
<1>8. m \in 1 .. n /\ m - 1 \in 0 .. m - 1 /\ f[m - 1] \in T
  BY <1>4, <1>5, <1>7
<1>9. step[m][f[m - 1]] \in T
  BY <1>8
<1>10. g \in [0 .. m -> T]
  BY <1>7, <1>8, <1>9
<1>11. g[m] = step[m][f[m - 1]] /\ \A k \in 0 .. m - 1 : g[k] = f[k]
  BY <1>8
<1> HIDE DEF g
<1>12. Climbs(g, m, a, step)
  <2>1. g[0] = a
    BY <1>7, <1>8, <1>11 DEF Climbs
  <2>2. ASSUME NEW k \in 1 .. m PROVE g[k] = step[k][g[k - 1]]
    <3>1. k - 1 \in 0 .. m - 1 /\ g[k - 1] = f[k - 1]
      BY <1>8, <1>11, <2>2
    <3>2. CASE k = m
      BY <1>11, <3>1, <3>2
    <3>3. CASE k # m
      <4>1. k \in 1 .. m - 1 /\ k \in 0 .. m - 1
        BY <1>8, <2>2, <3>3
      <4>2. QED
        BY <1>7, <1>11, <3>1, <4>1 DEF Climbs
    <3>4. QED
      BY <3>2, <3>3
  <2>3. QED
    BY <2>1, <2>2 DEF Climbs
<1>13. QED
  BY <1>4, <1>10, <1>12

\* And only one, whatever else it may be.
LEMMA ClimbUnique ==
  ASSUME NEW n \in Nat, NEW T, NEW a, NEW step, NEW f \in [0 .. n -> T], Climbs(f, n, a, step),
         NEW g, Follows(g, n, T, a, step)
  PROVE  \A k \in 0 .. n : g[k] = f[k]
<1> DEFINE Wrong == {k \in 0 .. n : g[k] # f[k]}
<1>1. SUFFICES ASSUME Wrong # {} PROVE FALSE
  OBVIOUS
<1>2. Wrong \in SUBSET Nat
  OBVIOUS
<1>3. PICK m \in Wrong : \A k \in Wrong : m <= k
  BY <1>1, <1>2, LeastNatural
<1>4. m \in 0 .. n /\ g[m] # f[m]
  BY <1>3
<1>5. m # 0
  BY <1>4 DEF Climbs, Follows
<1>6. m - 1 \in 0 .. n /\ m - 1 \notin Wrong /\ m \in 1 .. n
  BY <1>3, <1>4, <1>5
<1>7. g[m - 1] = f[m - 1] /\ g[m - 1] \in T
  BY <1>6
<1>8. QED
  BY <1>4, <1>6, <1>7 DEF Climbs, Follows

----------------------------------------------------------------------------
\* What the client writes.

DwordSet ==
  [form : {"nop", "type0", "type1", "type2", "type3", "indirect"}, count : Nat, value : Nat]

\* The dwords of one packet.
LEMMA DwordsAre ==
  ASSUME NEW p \in Packets
  PROVE  /\ Dwords(p) \in Seq(DwordSet) /\ Len(Dwords(p)) > 0
         /\ p.kind = "nop" => Len(Dwords(p)) = 1 /\ Dwords(p)[1].form = "nop"
         /\ p.kind = "filler" => Len(Dwords(p)) = 1 /\ Dwords(p)[1].form = "type2"
         /\ p.kind = "bad" => Len(Dwords(p)) = 1 /\ Dwords(p)[1].form = "type1"
         /\ p.kind = "data" => /\ Len(Dwords(p)) = p.arg + 2
                               /\ Dwords(p)[1].form = "type3" /\ Dwords(p)[1].count = p.arg
         /\ p.kind = "chain" => /\ Len(Dwords(p)) = 4 /\ Dwords(p)[1].form = "indirect"
                                /\ Dwords(p)[2].value = p.arg /\ Dwords(p)[4].value = p.arg
         /\ p.kind = "short" => /\ Len(Dwords(p)) = 2 /\ Dwords(p)[1].form = "indirect"
                                /\ Dwords(p)[1].count = 2
<1>0. /\ p.arg \in Nat /\ p.kind \in {"nop", "filler", "data", "chain", "short", "bad"}
  BY DEF Packets
<1>2. ChainHeader \in DwordSet /\ ChainHeader.form = "indirect" /\ ChainHeader.count = 2
  BY DEF ChainHeader, Dword, DwordSet
<1>3. CASE p.kind = "nop"
  <2>1. Dwords(p) = <<Dword("nop", AllOnes, 0)>>
    BY <1>3, SMT DEF Dwords
  <2>2. Dword("nop", AllOnes, 0) \in DwordSet /\ Dword("nop", AllOnes, 0).form = "nop"
    BY SMT DEF Dword, DwordSet, AllOnes
  <2>3. QED
    BY <1>3, <2>1, <2>2, SMT
<1>4. CASE p.kind = "filler"
  <2>1. Dwords(p) = <<Dword("type2", 0, 0)>>
    BY <1>4, SMT DEF Dwords
  <2>2. QED
    BY <1>4, <2>1, SMT DEF Dword, DwordSet
<1>5. CASE p.kind = "bad"
  <2>1. Dwords(p) = <<Dword("type1", 0, 0)>>
    BY <1>5, SMT DEF Dwords
  <2>2. QED
    BY <1>5, <2>1, SMT DEF Dword, DwordSet
<1>6. CASE p.kind = "data"
  <2> DEFINE h == Dword("type3", p.arg, 0)
             t == [k \in 1 .. p.arg + 1 |-> ChainHeader]
  <2>1. Dwords(p) = <<h>> \o t
    BY <1>6, Zenon DEF Dwords
  <2>2. h \in DwordSet /\ h.form = "type3" /\ h.count = p.arg
    BY <1>0 DEF Dword, DwordSet
  <2>3. t \in Seq(DwordSet) /\ Len(t) = p.arg + 1
    BY <1>0, <1>2
  <2> HIDE DEF h, t
  <2>4. <<h>> \in Seq(DwordSet) /\ Len(<<h>>) = 1 /\ <<h>>[1] = h
    BY <2>2
  <2>5. <<h>> \o t \in Seq(DwordSet) /\ Len(<<h>> \o t) = p.arg + 2 /\ (<<h>> \o t)[1] = h
    BY <1>0, <2>3, <2>4
  <2>6. QED
    BY <1>0, <1>6, <2>1, <2>2, <2>5
<1>7. CASE p.kind = "chain"
  <2>1. Dwords(p) = <<ChainHeader, Dword("type0", 0, p.arg), Dword("type0", 0, 0), Dword("type0", 0, p.arg)>>
    BY <1>7, SMT DEF Dwords
  <2>2. /\ Dword("type0", 0, p.arg) \in DwordSet /\ Dword("type0", 0, p.arg).value = p.arg
        /\ Dword("type0", 0, 0) \in DwordSet
    BY <1>0 DEF Dword, DwordSet
  <2>3. QED
    BY <1>2, <1>7, <2>1, <2>2, SMT
<1>8. CASE p.kind = "short"
  <2>1. Dwords(p) = <<ChainHeader, Dword("type0", 0, p.arg)>>
    BY <1>8, SMT DEF Dwords
  <2>2. /\ Dword("type0", 0, p.arg) \in DwordSet /\ Dword("type0", 0, p.arg).value = p.arg
        /\ Dword("type0", 0, 0) \in DwordSet
    BY <1>0 DEF Dword, DwordSet
  <2>3. QED
    BY <1>2, <1>8, <2>1, <2>2, SMT
<1>9. QED
  BY <1>0, <1>3, <1>4, <1>5, <1>6, <1>7, <1>8

\* Packet after packet.
LEMMA LaidIs ==
  ASSUME NEW b \in Seq(Packets)
  PROVE  /\ Laid(b) \in [0 .. Len(b) -> Seq(DwordSet)]
         /\ Laid(b)[0] = <<>>
         /\ \A k \in 1 .. Len(b) : Laid(b)[k] = Laid(b)[k - 1] \o Dwords(b[k])
<1> DEFINE n == Len(b)
           T == Seq(DwordSet)
           step == [k \in 1 .. n |-> [x \in T |-> x \o Dwords(b[k])]]
<1>1. n \in Nat /\ <<>> \in T
  OBVIOUS
<1>2. \A k \in 1 .. n : Dwords(b[k]) \in T
  BY DwordsAre
<1>3. step \in [1 .. n -> [T -> T]]
  BY <1>2
<1>4. \A k \in 1 .. n : \A x \in T : step[k][x] = x \o Dwords(b[k])
  OBVIOUS
<1> HIDE DEF step, T
<1>5. PICK f \in [0 .. n -> T] : Climbs(f, n, <<>>, step)
  BY <1>1, <1>3, ClimbExists
<1>6. f[0] = <<>> /\ \A k \in 1 .. n : f[k] = f[k - 1] \o Dwords(b[k])
  <2>1. \A k \in 1 .. n : k - 1 \in 0 .. n
    BY <1>1
  <2>2. QED
    BY <1>4, <1>5, <2>1 DEF Climbs
<1>7. f = [k \in 0 .. n |-> IF k = 0 THEN <<>> ELSE f[k - 1] \o Dwords(b[k])]
  <2>1. \A k \in 0 .. n : f[k] = IF k = 0 THEN <<>> ELSE f[k - 1] \o Dwords(b[k])
    BY <1>1, <1>6
  <2>2. QED
    BY <1>5, <2>1
<1>8. ASSUME NEW g, g = [k \in 0 .. n |-> IF k = 0 THEN <<>> ELSE g[k - 1] \o Dwords(b[k])]
      PROVE  g = f
  <2>1. g = [k \in 0 .. n |-> g[k]] /\ f = [k \in 0 .. n |-> f[k]]
    BY <1>5, <1>8
  <2>2. g[0] = <<>> /\ \A k \in 1 .. n : g[k] = g[k - 1] \o Dwords(b[k])
    BY <1>1, <1>8
  <2>3. \A k \in 1 .. n : g[k - 1] \in T => g[k] = step[k][g[k - 1]]
    BY <1>4, <2>2
  <2>4. \A k \in 0 .. n : g[k] = f[k]
    <3>1. Follows(g, n, T, <<>>, step)
      BY <2>2, <2>3 DEF Follows
    <3>2. n \in Nat /\ f \in [0 .. n -> T] /\ Climbs(f, n, <<>>, step)
      BY <1>1, <1>5
    <3> HIDE DEF n
    <3>3. QED
      BY <3>1, <3>2, ClimbUnique
  <2>5. QED
    BY <2>1, <2>4
<1>9. Laid(b) = f
  BY <1>7, <1>8, Zenon DEF Laid
<1>10. QED
  BY <1>5, <1>6, <1>9 DEF T

\* l packets begin with the dwords of any first k of them.
Begins(b, k, l) ==
  /\ Len(Laid(b)[k]) <= Len(Laid(b)[l])
  /\ \A j \in 1 .. Len(Laid(b)[k]) : Laid(b)[l][j] = Laid(b)[k][j]

\* Laying out more packets changes nothing of the first ones.
LEMMA LaidGrows ==
  ASSUME NEW b \in Seq(Packets)
  PROVE  \A l \in 0 .. Len(b) : \A k \in 0 .. l : Begins(b, k, l)
<1> DEFINE n == Len(b)
           Wrong == {l \in 0 .. n : ~ \A k \in 0 .. l : Begins(b, k, l)}
<1>0. /\ Laid(b) \in [0 .. Len(b) -> Seq(DwordSet)]
      /\ \A k \in 1 .. Len(b) : Laid(b)[k] = Laid(b)[k - 1] \o Dwords(b[k])
  BY LaidIs
<1>1. SUFFICES ASSUME Wrong # {} PROVE FALSE
  OBVIOUS
<1>2. Wrong \in SUBSET Nat /\ n \in Nat
  OBVIOUS
<1>3. PICK m \in Wrong : \A l \in Wrong : m <= l
  BY <1>1, <1>2, LeastNatural
<1>4. m \in 0 .. n
  BY <1>3
<1>5. PICK k \in 0 .. m : ~Begins(b, k, m)
  BY <1>3
<1>6. \A l \in 0 .. n : Laid(b)[l] \in Seq(DwordSet) /\ Len(Laid(b)[l]) \in Nat
  BY <1>0
<1>7. k # m
  BY <1>4, <1>5, <1>6 DEF Begins
<1>8. m \in 1 .. n /\ m - 1 \in 0 .. n /\ m - 1 \notin Wrong /\ k \in 0 .. m - 1
  BY <1>2, <1>3, <1>4, <1>5, <1>7
<1>9. Begins(b, k, m - 1)
  BY <1>8
<1>10. Laid(b)[m] = Laid(b)[m - 1] \o Dwords(b[m]) /\ Dwords(b[m]) \in Seq(DwordSet)
  <2>1. b[m] \in Packets
    BY <1>8
  <2>2. QED
    BY <1>0, <1>8, <2>1, DwordsAre
<1>11. /\ Len(Laid(b)[m - 1]) <= Len(Laid(b)[m])
       /\ \A j \in 1 .. Len(Laid(b)[m - 1]) : Laid(b)[m][j] = Laid(b)[m - 1][j]
  <2> DEFINE u == Laid(b)[m - 1]
             d == Dwords(b[m])
  <2>1. u \in Seq(DwordSet) /\ d \in Seq(DwordSet) /\ Laid(b)[m] = u \o d
    BY <1>6, <1>8, <1>10
  <2> HIDE DEF u, d
  <2>2. Len(u) <= Len(u \o d) /\ \A j \in 1 .. Len(u) : (u \o d)[j] = u[j]
    BY <2>1
  <2>3. QED
    BY <2>1, <2>2 DEF u
<1>12. Begins(b, k, m)
  <2>1. k \in 0 .. n /\ Len(Laid(b)[k]) \in Nat /\ Len(Laid(b)[m - 1]) \in Nat /\ Len(Laid(b)[m]) \in Nat
    BY <1>4, <1>6, <1>8
  <2>2. QED
    BY <1>9, <1>11, <2>1 DEF Begins
<1>13. QED
  BY <1>5, <1>12

\* Where packet k + 1 lies in the command buffer.
LEMMA PlaceIs ==
  ASSUME NEW b \in Seq(Packets), NEW k \in 0 .. Len(b), k # Len(b)
  PROVE  /\ b[k + 1] \in Packets
         /\ Len(Laid(b)[k + 1]) = Len(Laid(b)[k]) + Len(Dwords(b[k + 1]))
         /\ Len(Laid(b)[k + 1]) <= Len(Flat(b))
         /\ \A j \in 1 .. Len(Dwords(b[k + 1])) :
              Flat(b)[Len(Laid(b)[k]) + j] = Dwords(b[k + 1])[j]
<1>1. k + 1 \in 1 .. Len(b) /\ k + 1 \in 0 .. Len(b) /\ Len(b) \in 0 .. Len(b) /\ (k + 1) - 1 = k
  OBVIOUS
<1>2. b[k + 1] \in Packets
  BY <1>1
<1> DEFINE d == Dwords(b[k + 1])
           x == Laid(b)[k]
           y == Laid(b)[k + 1]
           z == Flat(b)
<1>3. d \in Seq(DwordSet)
  BY <1>2, DwordsAre
<1>4. x \in Seq(DwordSet) /\ y = x \o d /\ z \in Seq(DwordSet)
  BY <1>1, LaidIs DEF Flat
<1>5. Begins(b, k + 1, Len(b))
  BY <1>1, LaidGrows
<1>6. Len(y) <= Len(z) /\ \A j \in 1 .. Len(y) : z[j] = y[j]
  BY <1>5 DEF Begins, Flat
<1> HIDE DEF d, x, y, z
<1>7. Len(y) = Len(x) + Len(d) /\ \A j \in 1 .. Len(d) : y[Len(x) + j] = d[j]
  BY <1>3, <1>4
<1>8. \A j \in 1 .. Len(d) : Len(x) + j \in 1 .. Len(y)
  BY <1>3, <1>4, <1>7
<1>9. \A j \in 1 .. Len(d) : z[Len(x) + j] = d[j]
  BY <1>6, <1>7, <1>8
<1>10. QED
  BY <1>2, <1>6, <1>7, <1>9 DEF d, x, y, z

\* Cutting the command buffer at a packet.
LEMMA CutIs ==
  ASSUME NEW b \in Seq(Packets), NEW k \in 0 .. Len(b)
  PROVE  /\ Laid(b)[k] \in Seq(DwordSet) /\ Flat(b) \in Seq(DwordSet)
         /\ Len(Laid(b)[k]) <= Len(Flat(b))
         /\ SubSeq(Flat(b), 1, Len(Laid(b)[k])) = Laid(b)[k]
<1> DEFINE x == Laid(b)[k]
           z == Flat(b)
<1>0. Laid(b) \in [0 .. Len(b) -> Seq(DwordSet)]
  BY LaidIs
<1>1. x \in Seq(DwordSet) /\ z \in Seq(DwordSet)
  BY <1>0 DEF Flat
<1>2. Begins(b, k, Len(b))
  BY LaidGrows
<1>3. Len(x) <= Len(z) /\ \A j \in 1 .. Len(x) : z[j] = x[j]
  BY <1>2 DEF Begins, Flat
<1> HIDE DEF x, z
<1>4. SubSeq(z, 1, Len(x)) = x
  BY <1>1, <1>3
<1>5. QED
  BY <1>1, <1>3, <1>4 DEF x, z

\* What runs from a command buffer, given what runs after each chain.
LEMMA RunFromIs ==
  ASSUME NEW img, Memory(img), NEW b \in 1 .. Len(img), NEW x \in [0 .. Len(img) -> Seq(DwordSet)]
  PROVE  RunFrom(img[b], x) \in Seq(DwordSet)
<1>0. img[b] \in Seq(Packets) /\ Len(img[b]) \in 0 .. Len(img[b])
  BY DEF Memory
<1>1. img[b] \in Seq(Packets) /\ Flat(img[b]) \in Seq(DwordSet)
  BY <1>0, CutIs
<1>2. ASSUME NEW k \in Cuts(img[b]) PROVE Laid(img[b])[k - 1] \o x[img[b][k].arg] \in Seq(DwordSet)
  <2>1. k \in 1 .. Len(img[b]) /\ img[b][k].kind = "chain" /\ k - 1 \in 0 .. Len(img[b])
    BY <1>1 DEF Cuts
  <2>2. img[b][k].arg \in 0 .. Len(img)
    BY <2>1 DEF Memory
  <2>3. Laid(img[b])[k - 1] \in Seq(DwordSet)
    BY <1>1, <2>1, CutIs
  <2>4. x[img[b][k].arg] \in Seq(DwordSet)
    BY <2>2
  <2>5. QED
    BY <2>3, <2>4
<1>3. QED
  BY <1>1, <1>2 DEF RunFrom

\* What runs, link by link.
LEMMA RunIs ==
  ASSUME NEW img, Memory(img)
  PROVE  /\ Run(img) \in [0 .. MaxIbChain -> [0 .. Len(img) -> Seq(DwordSet)]]
         /\ \A fuel \in 0 .. MaxIbChain : Run(img)[fuel][0] = <<>>
         /\ \A fuel \in 1 .. MaxIbChain : \A b \in 1 .. Len(img) :
              Run(img)[fuel][b] = RunFrom(img[b], Run(img)[fuel - 1])
<1> DEFINE n == MaxIbChain
           B == 0 .. Len(img)
           T == [B -> Seq(DwordSet)]
           a == [b \in B |-> <<>>]
           Next1(x) == [b \in B |-> IF b = 0 THEN <<>> ELSE RunFrom(img[b], x)]
           step == [k \in 1 .. n |-> [x \in T |-> Next1(x)]]
<1>1. n \in Nat /\ a \in T /\ Len(img) \in Nat /\ 0 \in B
  BY ChainAssumption DEF Memory
<1>2. \A x \in T : Next1(x) \in T
  BY <1>1, RunFromIs
<1>3. step \in [1 .. n -> [T -> T]]
  BY <1>2
<1>4. \A k \in 1 .. n : \A x \in T : step[k][x] = Next1(x)
  OBVIOUS
<1> HIDE DEF step, T, a
<1>5. PICK f \in [0 .. n -> T] : Climbs(f, n, a, step)
  BY <1>1, <1>3, ClimbExists
<1>6. f[0] = a /\ \A k \in 1 .. n : f[k] = Next1(f[k - 1])
  <2>1. \A k \in 1 .. n : k - 1 \in 0 .. n
    BY <1>1
  <2>2. QED
    BY <1>4, <1>5, <2>1 DEF Climbs
<1> DEFINE Is(g) == g = [k \in 0 .. n |-> [b \in B |-> IF k = 0 \/ b = 0 THEN <<>> ELSE RunFrom(img[b], g[k - 1])]]
<1>7. Is(f)
  <2>1. f[0] = [b \in B |-> IF 0 = 0 \/ b = 0 THEN <<>> ELSE RunFrom(img[b], f[0 - 1])]
    BY <1>6 DEF a
  <2>2. \A k \in 1 .. n : f[k] = [b \in B |-> IF k = 0 \/ b = 0 THEN <<>> ELSE RunFrom(img[b], f[k - 1])]
    BY <1>6
  <2>3. \A k \in 0 .. n : f[k] = [b \in B |-> IF k = 0 \/ b = 0 THEN <<>> ELSE RunFrom(img[b], f[k - 1])]
    <3>1. TAKE k \in 0 .. n
    <3>2. k = 0 \/ k \in 1 .. n
      BY <1>1
    <3>3. CASE k = 0
      BY <2>1, <3>3
    <3>4. CASE k \in 1 .. n
      BY <2>2, <3>4
    <3>5. QED
      BY <3>2, <3>3, <3>4
  <2>4. QED
    BY <1>5, <2>3
<1>8. ASSUME NEW g, Is(g) PROVE g = f
  <2>1. g = [k \in 0 .. n |-> g[k]] /\ f = [k \in 0 .. n |-> f[k]]
    BY <1>5, <1>8
  <2>2. \A k \in 0 .. n : g[k] = [b \in B |-> IF k = 0 \/ b = 0 THEN <<>> ELSE RunFrom(img[b], g[k - 1])]
    BY <1>8
  <2>3. g[0] = a /\ \A k \in 1 .. n : g[k] = Next1(g[k - 1])
    BY <1>1, <2>2 DEF a
  <2>4. \A k \in 0 .. n : g[k] = f[k]
    <3>1. Follows(g, n, T, a, step)
      BY <1>4, <2>3 DEF Follows
    <3>2. QED
      BY <1>1, <1>5, <3>1, ClimbUnique
  <2>5. QED
    BY <2>1, <2>4
<1>9. Run(img) = f
  BY <1>7, <1>8, Zenon DEF Run
<1>10. \A fuel \in 0 .. n : f[fuel][0] = <<>>
  <2>1. a[0] = <<>> /\ \A x : Next1(x)[0] = <<>>
    BY <1>1 DEF a
  <2>2. TAKE fuel \in 0 .. n
  <2>3. fuel = 0 \/ fuel \in 1 .. n
    BY <1>1
  <2> HIDE DEF Next1
  <2>4. QED
    BY <1>6, <2>1, <2>3
<1>11. \A fuel \in 1 .. n : \A b \in 1 .. Len(img) : f[fuel][b] = RunFrom(img[b], f[fuel - 1])
  <2>1. \A x : \A b \in 1 .. Len(img) : Next1(x)[b] = RunFrom(img[b], x)
    BY <1>1
  <2> HIDE DEF Next1
  <2>2. QED
    BY <1>6, <2>1
<1>12. QED
  BY <1>5, <1>9, <1>10, <1>11 DEF T

\* Where a command buffer is cut, once the packets before are plain.
LEMMA CutsAre ==
  ASSUME NEW b \in Seq(Packets), NEW k \in 0 .. Len(b), Plain(b, k)
  PROVE  /\ k = Len(b) => Cuts(b) = {}
         /\ k # Len(b) /\ b[k + 1].kind = "bad" => Cuts(b) = {}
         /\ k # Len(b) /\ b[k + 1].kind = "chain" => Cuts(b) = {k + 1}
<1>0. \A j \in 1 .. k : b[j].kind # "chain" /\ b[j].kind # "bad"
  BY DEF Plain
<1>1. ASSUME NEW x \in Cuts(b)
      PROVE  /\ x \in 1 .. Len(b) /\ b[x].kind = "chain"
             /\ \A j \in 1 .. x - 1 : b[j].kind # "chain" /\ b[j].kind # "bad"
  BY <1>1 DEF Cuts, Plain
<1>2. \A x \in Cuts(b) : x \in k + 1 .. Len(b)
  BY <1>0, <1>1
<1>3. ASSUME k # Len(b), b[k + 1].kind \in {"bad", "chain"} PROVE \A x \in Cuts(b) : x = k + 1
  <2>1. TAKE x \in Cuts(b)
  <2>2. x \in k + 1 .. Len(b) /\ \A j \in 1 .. x - 1 : b[j].kind # "chain" /\ b[j].kind # "bad"
    BY <1>1, <1>2
  <2>3. x # k + 1 => k + 1 \in 1 .. x - 1
    BY <2>2
  <2>4. QED
    BY <1>3, <2>2, <2>3
<1>4. ASSUME k # Len(b), b[k + 1].kind = "chain" PROVE k + 1 \in Cuts(b)
  BY <1>4 DEF Cuts
<1>5. k = Len(b) => Cuts(b) = {}
  BY <1>2
<1>6. k # Len(b) /\ b[k + 1].kind = "bad" => Cuts(b) = {}
  BY <1>1, <1>3
<1>7. k # Len(b) /\ b[k + 1].kind = "chain" => Cuts(b) = {k + 1}
  BY <1>3, <1>4
<1>8. QED
  BY <1>5, <1>6, <1>7

----------------------------------------------------------------------------
\* The walk.

\* find_chain has passed k packets, none of them a chain; past the last one its index
\* may be beyond the end.
AtPacket(k) ==
  /\ k \in 0 .. Len(image[at])
  /\ Plain(image[at], k)
  /\ i = Len(Laid(image[at])[k]) \/ (k = Len(image[at]) /\ i >= N)

\* What is left to send is what runs from here.
Left == Run(image)[MaxIbChain - depth][at]

ChainTypeOK ==
  /\ image \in Images
  /\ at \in 1 .. Len(image)
  /\ i \in Nat
  /\ depth \in 0 .. MaxIbChain
  /\ sent \in Seq(DwordSet)
  /\ pc \in {"walk", "done", "EIO"}

Progress ==
  /\ pc = "walk" => Runs(image) = sent \o Left /\ \E k \in 0 .. Len(image[at]) : AtPacket(k)
  /\ pc = "done" => Runs(image) = sent
  /\ pc = "EIO" => \E rest \in Seq(DwordSet) : Runs(image) = sent \o rest

ChainInv == ChainTypeOK /\ Progress

\* What is known of the link under the walk.
LEMMA LinkIs ==
  ASSUME ChainInv
  PROVE  /\ Memory(image) /\ image[at] \in Seq(Packets)
         /\ Stream \in Seq(DwordSet) /\ N \in Nat /\ N = Len(Flat(image[at]))
         /\ Left \in Seq(DwordSet)
         /\ Runs(image) \in Seq(DwordSet)
<1>1. Memory(image) /\ at \in 1 .. Len(image) /\ depth \in 0 .. MaxIbChain
  BY ChainAssumption DEF ChainInv, ChainTypeOK
<1>2. image[at] \in Seq(Packets) /\ Len(image) \in Nat
  BY <1>1 DEF Memory
<1>3. Len(image[at]) \in 0 .. Len(image[at])
  BY <1>2
<1>4. Stream \in Seq(DwordSet) /\ N \in Nat /\ N = Len(Flat(image[at]))
  <2>1. Flat(image[at]) \in Seq(DwordSet)
    BY <1>2, <1>3, CutIs
  <2>2. QED
    BY <2>1 DEF Stream, N
<1>5. Run(image) \in [0 .. MaxIbChain -> [0 .. Len(image) -> Seq(DwordSet)]]
  BY <1>1, RunIs
<1>6. MaxIbChain - depth \in 0 .. MaxIbChain /\ MaxIbChain \in 0 .. MaxIbChain
      /\ at \in 0 .. Len(image) /\ 1 \in 0 .. Len(image)
  BY <1>1, <1>2, ChainAssumption
<1>7. Left \in Seq(DwordSet) /\ Runs(image) \in Seq(DwordSet)
  BY <1>5, <1>6 DEF Left, Runs
<1>8. QED
  BY <1>1, <1>2, <1>4, <1>7

\* The walk reads headers where packets begin, and is past the last packet when it is
\* past the end.
LEMMA HeaderIs ==
  ASSUME ChainInv, NEW k, AtPacket(k)
  PROVE  /\ i >= N => k = Len(image[at])
         /\ i < N => /\ k # Len(image[at]) /\ k + 1 \in 1 .. Len(image[at])
                     /\ i = Len(Laid(image[at])[k])
                     /\ image[at][k + 1] \in Packets
                     /\ Header = Dwords(image[at][k + 1])[1]
                     /\ \A j \in 1 .. Len(Dwords(image[at][k + 1])) :
                          Stream[i + j] = Dwords(image[at][k + 1])[j]
                     /\ Len(Laid(image[at])[k + 1]) = i + Len(Dwords(image[at][k + 1]))
                     /\ Len(Laid(image[at])[k + 1]) <= N
                     /\ k + 1 = Len(image[at]) => N = i + Len(Dwords(image[at][k + 1]))
<1> DEFINE b == image[at]
           p == b[k + 1]
<1>1. b \in Seq(Packets) /\ Stream = Flat(b) /\ N = Len(Flat(b)) /\ i \in Nat /\ N \in Nat
  BY LinkIs DEF Stream, ChainInv, ChainTypeOK
<1>2. k \in 0 .. Len(b) /\ (i = Len(Laid(b)[k]) \/ (k = Len(b) /\ i >= N))
  BY DEF AtPacket
<1>3. k = Len(b) => i >= N
  BY <1>1, <1>2 DEF Flat
<1>4. ASSUME k # Len(b)
      PROVE  /\ i = Len(Laid(b)[k])
             /\ p \in Packets
             /\ Len(Laid(b)[k + 1]) = i + Len(Dwords(p))
             /\ Len(Laid(b)[k + 1]) <= N
             /\ \A j \in 1 .. Len(Dwords(p)) : Stream[i + j] = Dwords(p)[j]
  <2>1. i = Len(Laid(b)[k])
    BY <1>2, <1>4
  <2> HIDE DEF b
  <2>2. QED
    BY <1>1, <1>2, <1>4, <2>1, PlaceIs
<1> HIDE DEF b, p
<1>5. ASSUME k # Len(b) PROVE i < N /\ Header = Dwords(p)[1]
  <2>1. Len(Dwords(p)) \in Nat /\ Len(Dwords(p)) > 0
    BY <1>4, <1>5, DwordsAre
  <2>2. 1 \in 1 .. Len(Dwords(p))
    BY <2>1
  <2>3. QED
    BY <1>1, <1>4, <1>5, <2>1, <2>2 DEF Header
<1>6. k # Len(b) => k + 1 \in 1 .. Len(b)
  BY <1>1, <1>2
<1>7. k + 1 = Len(b) => Len(Laid(b)[k + 1]) = N
  BY <1>1 DEF Flat
<1>8. (i >= N) <=> ~(i < N)
  BY <1>1
<1>9. QED
  BY <1>3, <1>4, <1>5, <1>6, <1>7, <1>8 DEF b, p

\* And passes whole packets.
LEMMA PassStep ==
  ASSUME ChainInv, OneDword \/ Packet
  PROVE  ChainInv'
<1>0. /\ pc = "walk" /\ i < N /\ UNCHANGED <<image, at, depth, sent, pc>>
      /\ i \in Nat /\ N \in Nat
  BY LinkIs DEF OneDword, Packet, Walking, ChainInv, ChainTypeOK
<1>1. PICK k \in 0 .. Len(image[at]) : AtPacket(k)
  BY <1>0 DEF ChainInv, Progress
<1> DEFINE b == image[at]
           p == b[k + 1]
<1>2. /\ k # Len(b) /\ k + 1 \in 1 .. Len(b)
      /\ p \in Packets /\ Header = Dwords(p)[1]
      /\ Len(Laid(b)[k + 1]) = i + Len(Dwords(p))
      /\ Len(Laid(b)[k + 1]) <= N
      /\ k + 1 = Len(b) => N = i + Len(Dwords(p))
  BY <1>0, <1>1, HeaderIs
<1>3. p.kind \in {"nop", "filler", "data", "chain", "short", "bad"} /\ p.arg \in Nat
  BY <1>2 DEF Packets
<1>4. b \in Seq(Packets) /\ Len(b) \in Nat
  BY LinkIs
<1>s. p.kind = "short" => k + 1 = Len(b)
  BY <1>2, LinkIs DEF Memory, ChainInv, ChainTypeOK
<1> HIDE DEF p
<1>5. /\ i' \in Nat /\ p.kind \notin {"chain", "bad"}
      /\ i' = Len(Laid(b)[k + 1]) \/ (k + 1 = Len(b) /\ i' >= N)
  <2>1. CASE OneDword
    <3>1. Header.form \in {"nop", "type2"} /\ i' = i + 1
      BY <2>1 DEF OneDword
    <3>2. p.kind \in {"nop", "filler"} /\ Len(Dwords(p)) = 1
      BY <1>2, <1>3, <3>1, DwordsAre
    <3>3. QED
      BY <1>0, <1>2, <3>1, <3>2
  <2>2. CASE Packet
    <3>1. Header.form \in {"type0", "type3", "indirect"} /\ ~IsChain /\ i' = i + Span
      BY <2>2 DEF Packet
    <3>2. p.kind \in {"data", "chain", "short"}
      BY <1>2, <1>3, <3>1, DwordsAre
    <3>3. CASE p.kind = "data"
      <4>1. Len(Dwords(p)) = p.arg + 2 /\ Header.count = p.arg
        BY <1>2, <3>3, DwordsAre
      <4>2. QED
        BY <1>0, <1>2, <1>3, <3>1, <3>3, <4>1 DEF Span
    <3>4. CASE p.kind = "chain"
      <4>1. Len(Dwords(p)) = 4 /\ Header.form = "indirect"
        BY <1>2, <3>4, DwordsAre
      <4>2. i + 3 < N
        BY <1>0, <1>2, <4>1
      <4>3. QED
        BY <3>1, <4>1, <4>2 DEF IsChain
    <3>5. CASE p.kind = "short"
      <4>1. Len(Dwords(p)) = 2 /\ Header.count = 2
        BY <1>2, <3>5, DwordsAre
      <4>2. QED
        BY <1>0, <1>2, <1>s, <3>1, <3>5, <4>1 DEF Span
    <3>6. QED
      BY <3>2, <3>3, <3>4, <3>5
  <2>3. QED
    BY <2>1, <2>2
<1>6. k + 1 \in 0 .. Len(b) /\ Plain(b, k + 1)
  <2>1. Plain(b, k)
    BY <1>1 DEF AtPacket
  <2>2. \A j \in 1 .. k + 1 : j \in 1 .. k \/ j = k + 1
    BY <1>1
  <2>3. QED
    BY <1>2, <1>4, <1>5, <2>1, <2>2 DEF Plain, p
<1>7. AtPacket(k + 1)'
  <2>1. N' = N
    BY <1>0 DEF N, Stream
  <2>2. QED
    BY <1>0, <1>5, <1>6, <2>1 DEF AtPacket
<1>8. Left' = Left
  BY <1>0 DEF Left
<1>9. Progress'
  <2>1. Runs(image) = sent \o Left
    BY <1>0 DEF ChainInv, Progress
  <2>2. k + 1 \in 0 .. Len(image'[at'])
    BY <1>0, <1>6
  <2>3. QED
    BY <1>0, <1>7, <1>8, <2>1, <2>2 DEF Progress
<1>10. ChainTypeOK'
  BY <1>0, <1>5 DEF ChainInv, ChainTypeOK
<1>11. QED
  BY <1>9, <1>10 DEF ChainInv

\* A stream the driver refused, or a chain too deep: what was sent is a beginning.
LEMMA FailStep ==
  ASSUME ChainInv, pc = "walk", pc' = "EIO", UNCHANGED <<image, sent>>,
         at' \in 1 .. Len(image), i' \in Nat, depth' \in 0 .. MaxIbChain
  PROVE  ChainInv'
<1>1. Left \in Seq(DwordSet) /\ Runs(image) = sent \o Left
  BY LinkIs DEF ChainInv, Progress
<1>2. Progress'
  BY <1>1 DEF Progress
<1>3. QED
  BY <1>2 DEF ChainInv, ChainTypeOK

\* The whole of the last link.
LEMMA WholeStep ==
  ASSUME ChainInv, SubmitWhole
  PROVE  ChainInv'
<1>0. /\ pc = "walk" /\ depth < MaxIbChain /\ UNCHANGED <<image, at, i, depth>>
      /\ ~(i < N /\ Header.form # "type1")
      /\ SubmitOne(N, "done")
  BY DEF SubmitWhole, Walking
<1>1. PICK k \in 0 .. Len(image[at]) : AtPacket(k)
  BY <1>0 DEF ChainInv, Progress
<1>2. /\ Memory(image) /\ image[at] \in Seq(Packets) /\ Stream \in Seq(DwordSet)
      /\ N = Len(Stream) /\ Stream = Flat(image[at]) /\ N \in Nat
  BY LinkIs DEF N, Stream
<1>3. /\ at \in 1 .. Len(image) /\ i \in Nat /\ depth \in 0 .. MaxIbChain
      /\ sent \in Seq(DwordSet) /\ Runs(image) = sent \o Left
  BY <1>0 DEF ChainInv, ChainTypeOK, Progress
<1>4. Cuts(image[at]) = {}
  <2>1. Plain(image[at], k)
    BY <1>1 DEF AtPacket
  <2>2. CASE i >= N
    <3>1. k = Len(image[at])
      BY <1>1, <2>2, HeaderIs
    <3>2. QED
      BY <1>2, <2>1, <3>1, CutsAre
  <2>3. CASE i < N
    <3> DEFINE p == image[at][k + 1]
    <3>1. k # Len(image[at]) /\ p \in Packets /\ Header = Dwords(p)[1]
      BY <1>1, <2>3, HeaderIs
    <3>2. Header.form = "type1"
      BY <1>0, <2>3
    <3>3. p.kind \in {"nop", "filler", "data", "chain", "short", "bad"}
      BY <3>1 DEF Packets
    <3> HIDE DEF p
    <3>4. p.kind = "bad"
      BY <3>1, <3>2, <3>3, DwordsAre
    <3>5. QED
      BY <1>1, <1>2, <2>1, <3>1, <3>4, CutsAre DEF p
  <2>4. QED
    BY <1>2, <1>3, <2>2, <2>3
<1>5. Left = Stream
  <2>1. MaxIbChain - depth \in 1 .. MaxIbChain
    BY <1>0, <1>3, ChainAssumption
  <2>2. Left = RunFrom(image[at], Run(image)[(MaxIbChain - depth) - 1])
    BY <1>2, <1>3, <2>1, RunIs DEF Left
  <2>3. QED
    BY <1>2, <1>4, <2>2 DEF RunFrom
<1>6. SubSeq(Stream, 1, N) = Stream
  BY <1>2
<1>7. CASE sent' = sent \o SubSeq(Stream, 1, N) /\ pc' = "done"
  <2>1. sent' = Runs(image) /\ sent' \in Seq(DwordSet)
    BY <1>2, <1>3, <1>5, <1>6, <1>7
  <2>2. QED
    BY <1>0, <1>7, <2>1 DEF ChainInv, ChainTypeOK, Progress
<1>8. CASE pc' = "EIO" /\ UNCHANGED sent
  BY <1>0, <1>3, <1>8, FailStep
<1>9. QED
  BY <1>0, <1>7, <1>8 DEF SubmitOne

\* The part before a chain packet, then what the packet names.
LEMMA FollowStep ==
  ASSUME ChainInv, FollowChain
  PROVE  ChainInv'
<1>0. pc = "walk" /\ depth < MaxIbChain /\ i < N /\ IsChain /\ image' = image
  BY DEF FollowChain, Walking
<1>1. PICK k \in 0 .. Len(image[at]) : AtPacket(k)
  BY <1>0 DEF ChainInv, Progress
<1>2. /\ Memory(image) /\ image[at] \in Seq(Packets) /\ Stream \in Seq(DwordSet)
      /\ Stream = Flat(image[at]) /\ N \in Nat
  BY LinkIs DEF Stream
<1>3. /\ image \in Images /\ at \in 1 .. Len(image) /\ i \in Nat /\ depth \in 0 .. MaxIbChain
      /\ sent \in Seq(DwordSet) /\ Runs(image) = sent \o Left /\ Len(image) \in Nat
  BY <1>0, <1>2 DEF ChainInv, ChainTypeOK, Progress, Memory
<1> DEFINE b == image[at]
           p == b[k + 1]
           head == Laid(b)[k]
           tail == Run(image)[(MaxIbChain - depth) - 1]
<1>4. /\ k # Len(b) /\ k + 1 \in 1 .. Len(b)
      /\ i = Len(head)
      /\ p \in Packets /\ Header = Dwords(p)[1]
      /\ \A j \in 1 .. Len(Dwords(p)) : Stream[i + j] = Dwords(p)[j]
      /\ k + 1 = Len(b) => N = i + Len(Dwords(p))
  BY <1>0, <1>1, HeaderIs
<1>5. p.kind \in {"nop", "filler", "data", "chain", "short", "bad"} /\ p.arg \in Nat
  BY <1>4 DEF Packets
<1>6. p.kind = "short" => k + 1 = Len(b)
  BY <1>2, <1>3, <1>4 DEF Memory
<1>7. p.kind = "chain" => p.arg \in 0 .. Len(image)
  BY <1>2, <1>3, <1>4 DEF Memory
<1>8. Plain(b, k)
  BY <1>1 DEF AtPacket
<1>9. head \in Seq(DwordSet) /\ SubSeq(Stream, 1, i) = head
  BY <1>1, <1>2, <1>4, CutIs
<1>10. p.kind = "chain"
  <2> HIDE DEF p
  <2>1. Header.form = "indirect" /\ i + 3 < N
    BY <1>0 DEF IsChain
  <2>2. p.kind \in {"chain", "short"}
    BY <1>4, <1>5, <2>1, DwordsAre
  <2>3. p.kind = "short" => N = i + 2
    BY <1>4, <1>6, DwordsAre
  <2>4. QED
    BY <1>3, <2>1, <2>2, <2>3
<1>11. Target = p.arg /\ TargetDw = p.arg
  <2> HIDE DEF p
  <2>1. Len(Dwords(p)) = 4 /\ Dwords(p)[2].value = p.arg /\ Dwords(p)[4].value = p.arg
    BY <1>4, <1>10, DwordsAre
  <2>2. 2 \in 1 .. Len(Dwords(p)) /\ 4 \in 1 .. Len(Dwords(p))
    BY <2>1
  <2>3. Stream[i + 2] = Dwords(p)[2] /\ Stream[i + 4] = Dwords(p)[4]
    BY <1>4, <2>2
  <2>4. QED
    BY <2>1, <2>3 DEF Target, TargetDw
<1>12. MaxIbChain - depth \in 1 .. MaxIbChain /\ (MaxIbChain - depth) - 1 \in 0 .. MaxIbChain
       /\ depth + 1 \in 0 .. MaxIbChain /\ MaxIbChain - (depth + 1) = (MaxIbChain - depth) - 1
  BY <1>0, <1>3, ChainAssumption
<1>13. tail \in [0 .. Len(image) -> Seq(DwordSet)] /\ tail[0] = <<>>
  BY <1>2, <1>12, RunIs
<1>14. Left = head \o tail[p.arg]
  <2>1. Left = RunFrom(b, tail)
    BY <1>2, <1>3, <1>12, RunIs DEF Left
  <2>2. Cuts(b) = {k + 1}
    BY <1>1, <1>2, <1>4, <1>8, <1>10, CutsAre
  <2>3. (CHOOSE x \in Cuts(b) : TRUE) = k + 1
    BY <2>2
  <2>4. (k + 1) - 1 = k
    BY <1>1
  <2>5. QED
    BY <2>1, <2>2, <2>3, <2>4 DEF RunFrom
<1>15. tail[p.arg] \in Seq(DwordSet) /\ p.arg \in 0 .. Len(image)
  BY <1>7, <1>10, <1>13
<1>16. Runs(image) = (sent \o head) \o tail[p.arg] /\ sent \o head \in Seq(DwordSet)
  <2> DEFINE after == tail[p.arg]
  <2>1. /\ Runs(image) = sent \o (head \o after)
        /\ sent \in Seq(DwordSet) /\ head \in Seq(DwordSet) /\ after \in Seq(DwordSet)
    BY <1>3, <1>9, <1>14, <1>15
  <2> HIDE DEF head, after
  <2>2. (sent \o head) \o after = sent \o (head \o after)
    BY <2>1, ConcatAssociative
  <2>3. Runs(image) = (sent \o head) \o after /\ sent \o head \in Seq(DwordSet)
    BY <2>1, <2>2
  <2>4. QED
    BY <2>3 DEF after
<1> HIDE DEF b, p, head, tail
<1>17. ASSUME NEW next, HeadOfLink(next)
       PROVE  \/ sent' = sent \o head /\ pc' = next
              \/ pc' = "EIO" /\ sent' = sent
  <2>1. CASE i > 0
    <3>1. SubmitOne(i, next)
      BY <1>17, <2>1 DEF HeadOfLink
    <3>2. QED
      BY <1>9, <3>1 DEF SubmitOne
  <2>2. CASE i = 0
    <3>1. head = <<>> /\ sent \o head = sent
      BY <1>3, <1>4, <1>9, <2>2
    <3>2. QED
      BY <1>3, <1>17, <2>2, <3>1 DEF HeadOfLink
  <2>3. QED
    BY <1>3, <2>1, <2>2
<1>18. CASE TargetDw = 0 /\ HeadOfLink("done") /\ UNCHANGED <<at, i, depth>>
  <2>1. CASE sent' = sent \o head /\ pc' = "done"
    <3>1. Runs(image) = sent'
      <4>1. tail[p.arg] = <<>>
        BY <1>11, <1>13, <1>18
      <4>2. QED
        BY <1>16, <2>1, <4>1
    <3>2. QED
      BY <1>0, <1>3, <1>16, <1>18, <2>1, <3>1 DEF ChainInv, ChainTypeOK, Progress
  <2>2. CASE pc' = "EIO" /\ sent' = sent
    BY <1>0, <1>3, <1>18, <2>2, FailStep
  <2>3. QED
    BY <1>17, <1>18, <2>1, <2>2
<1>19. CASE TargetDw # 0 /\ HeadOfLink("walk") /\ at' = Target /\ i' = 0 /\ depth' = Deeper
  <2>0. at' = p.arg /\ p.arg \in 1 .. Len(image) /\ i' = 0 /\ depth' = depth + 1
    BY <1>3, <1>11, <1>15, <1>19 DEF Deeper
  <2>1. CASE sent' = sent \o head /\ pc' = "walk"
    <3>1. Left' = tail[p.arg]
      BY <1>0, <1>12, <2>0 DEF Left, tail
    <3>2. image[p.arg] \in Seq(Packets) /\ Laid(image[p.arg])[0] = <<>> /\ 0 \in 0 .. Len(image[p.arg])
      <4>1. image[p.arg] \in Seq(Packets)
        BY <1>2, <2>0 DEF Memory
      <4>2. QED
        <5> DEFINE c == image[p.arg]
        <5> HIDE DEF c
        <5>1. c \in Seq(Packets)
          BY <4>1 DEF c
        <5>2. Laid(c)[0] = <<>>
          BY <5>1, LaidIs
        <5>3. 0 \in 0 .. Len(c)
          BY <5>1
        <5>4. QED
          BY <4>1, <5>2, <5>3 DEF c
    <3>3. AtPacket(0)'
      BY <1>0, <2>0, <3>2 DEF AtPacket, Plain
    <3>4. 0 \in 0 .. Len(image'[at'])
      BY <1>0, <2>0, <3>2
    <3>5. Progress'
      BY <1>0, <1>16, <2>1, <3>1, <3>3, <3>4 DEF Progress
    <3>6. ChainTypeOK'
      BY <1>0, <1>3, <1>12, <1>16, <2>0, <2>1 DEF ChainTypeOK
    <3>7. QED
      BY <3>5, <3>6 DEF ChainInv
  <2>2. CASE pc' = "EIO" /\ sent' = sent
    BY <1>0, <1>12, <2>0, <2>2, FailStep
  <2>3. QED
    BY <1>17, <1>19, <2>1, <2>2
<1>20. QED
  BY <1>18, <1>19 DEF FollowChain

\* ChainInv is inductive.
LEMMA ChainInductive == ChainInv /\ [Next]_vars => ChainInv'
<1>1. SUFFICES ASSUME ChainInv, [Next]_vars PROVE ChainInv'
  OBVIOUS
<1>2. CASE TooDeep
  BY <1>1, <1>2, FailStep DEF TooDeep, ChainInv, ChainTypeOK
<1>3. CASE UNCHANGED vars
  <2>1. UNCHANGED <<image, at, i, depth, sent, pc>>
    BY <1>3 DEF vars
  <2>2. QED
    BY <1>1, <2>1 DEF ChainInv, ChainTypeOK, Progress, AtPacket, Left, N, Stream
<1>4. QED
  BY <1>1, <1>2, <1>3, PassStep, WholeStep, FollowStep DEF Next, Walk, Stopped

\* And holds at the start.
LEMMA ChainStart == Init => ChainInv
<1>1. SUFFICES ASSUME Init PROVE ChainInv
  OBVIOUS
<1>2. image \in Images /\ at = 1 /\ i = 0 /\ depth = 0 /\ sent = <<>> /\ pc = "walk"
  BY <1>1 DEF Init
<1>3. Memory(image) /\ MaxIbChain \in Nat \ {0}
  BY <1>2, ChainAssumption
<1>4. 1 \in 1 .. Len(image) /\ image[1] \in Seq(Packets) /\ Len(image) \in Nat
  BY <1>3 DEF Memory
<1>5. ChainTypeOK
  BY <1>2, <1>3, <1>4 DEF ChainTypeOK
<1>6. AtPacket(0) /\ 0 \in 0 .. Len(image[at])
  <2>1. Laid(image[1])[0] = <<>>
    BY <1>4, LaidIs
  <2>2. QED
    BY <1>2, <1>4, <2>1 DEF AtPacket, Plain
<1>7. Runs(image) = sent \o Left
  <2>1. Run(image) \in [0 .. MaxIbChain -> [0 .. Len(image) -> Seq(DwordSet)]]
    BY <1>3, RunIs
  <2>2. Run(image)[MaxIbChain][1] \in Seq(DwordSet) /\ MaxIbChain - 0 = MaxIbChain
    BY <1>3, <1>4, <2>1
  <2>3. QED
    BY <1>2, <2>2 DEF Runs, Left
<1>8. QED
  BY <1>2, <1>5, <1>6, <1>7 DEF ChainInv, Progress

\* What a walk with something left to send has sent is a beginning of it.
LEMMA ChainMeans == ChainInv => SentAsRun
<1>1. SUFFICES ASSUME ChainInv PROVE SentAsRun
  OBVIOUS
<1>2. sent \in Seq(DwordSet) /\ pc \in {"walk", "done", "EIO"}
  BY <1>1 DEF ChainInv, ChainTypeOK
<1>3. \E rest \in Seq(DwordSet) : Runs(image) = sent \o rest
  <2>1. CASE pc = "walk"
    BY <1>1, <2>1, LinkIs DEF ChainInv, Progress
  <2>2. CASE pc = "done"
    <3>1. Runs(image) = sent \o <<>> /\ <<>> \in Seq(DwordSet)
      BY <1>1, <1>2, <2>2 DEF ChainInv, Progress
    <3>2. QED
      BY <3>1
  <2>3. CASE pc = "EIO"
    BY <1>1, <2>3 DEF ChainInv, Progress
  <2>4. QED
    BY <1>2, <2>1, <2>2, <2>3
<1>4. PICK rest \in Seq(DwordSet) : Runs(image) = sent \o rest
  BY <1>3
<1>5. Len(sent) <= Len(sent \o rest) /\ sent = SubSeq(sent \o rest, 1, Len(sent))
  BY <1>2, <1>4
<1>6. pc = "done" => sent = Runs(image)
  BY <1>1 DEF ChainInv, Progress
<1>7. QED
  BY <1>4, <1>5, <1>6 DEF SentAsRun

\* However a client chains its command buffers, the driver is handed what they run, dword
\* for dword and in order, up to where the walk failed; and all of it when it did not
\* (submit_chain, oops_winsys_find_chain).
THEOREM ChainSentAsRun == Spec => []SentAsRun
<1>1. Spec => []ChainInv
  BY ChainStart, ChainInductive, PTL DEF Spec
<1>2. QED
  BY <1>1, ChainMeans, PTL

============================================================================
