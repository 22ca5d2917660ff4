----------------------------- MODULE DiagProofs -----------------------------
(***************************************************************************)
(* Proofs about what the winsys tells a developer. Log, for any number of  *)
(* threads, any lengths of the line buffer, of a chunk and of a line of    *)
(* the system log: the line buffer is not overrun until two threads race   *)
(* for its last byte, and until calls overlap the log holds every byte in  *)
(* the order of the events.                                                *)
(* Marks, for any submission and any number of marks: what a mark says was *)
(* reached was.                                                            *)
(***************************************************************************)
EXTENDS Log, Marks, FiniteSetTheorems, TLAPS

----------------------------------------------------------------------------
\* The log: helpers on lines.

TextBytes(t) == {t[a] : a \in 1 .. Len(t)}

LogBytes(log) == UNION {TextBytes(log[i]) : i \in 1 .. Len(log)}

Rising(t) == \A a, b \in 1 .. Len(t) : a < b => t[a] < t[b]

\* A log and a partial line in order but for the bytes in sd, none of them in the line.
Sorted(log, ln, sd) ==
  /\ \A i \in 1 .. Len(log) : Rising(log[i])
  /\ \A i, j \in 1 .. Len(log) :
       i < j => \A x \in TextBytes(log[i]) \ sd, y \in TextBytes(log[j]) \ sd : x < y
  /\ Rising(ln)
  /\ \A x \in LogBytes(log) \ sd, y \in TextBytes(ln) : x < y
  /\ TextBytes(ln) \cap sd = {}

\* The bytes of a line that grows.
LEMMA TextGrows ==
  ASSUME NEW t \in Seq(Nat), NEW b \in Nat
  PROVE  /\ Append(t, b) \in Seq(Nat)
         /\ TextBytes(Append(t, b)) = TextBytes(t) \cup {b}
<1>1. Len(t) \in Nat /\ Append(t, b) \in Seq(Nat) /\ Len(Append(t, b)) = Len(t) + 1
  OBVIOUS
<1>2. Append(t, b)[Len(t) + 1] = b /\ \A a \in 1 .. Len(t) : Append(t, b)[a] = t[a]
  OBVIOUS
<1>3. 1 .. Len(t) + 1 = (1 .. Len(t)) \cup {Len(t) + 1}
  BY <1>1
<1>4. QED
  BY <1>1, <1>2, <1>3 DEF TextBytes

\* The bytes of a log that grows.
LEMMA LogGrows ==
  ASSUME NEW log \in Seq(Seq(Nat)), NEW t \in Seq(Nat)
  PROVE  /\ Append(log, t) \in Seq(Seq(Nat))
         /\ LogBytes(Append(log, t)) = LogBytes(log) \cup TextBytes(t)
<1>1. Len(log) \in Nat /\ Append(log, t) \in Seq(Seq(Nat)) /\ Len(Append(log, t)) = Len(log) + 1
  OBVIOUS
<1>2. Append(log, t)[Len(log) + 1] = t /\ \A a \in 1 .. Len(log) : Append(log, t)[a] = log[a]
  OBVIOUS
<1>3. 1 .. Len(log) + 1 = (1 .. Len(log)) \cup {Len(log) + 1}
  BY <1>1
<1>4. QED
  BY <1>1, <1>2, <1>3 DEF LogBytes

\* The empty line.
LEMMA NoText == <<>> \in Seq(Nat) /\ TextBytes(<<>>) = {} /\ Rising(<<>>)
  BY DEF TextBytes, Rising

\* A line after all of a log that has no partial line.
LEMMA SortedAppend ==
  ASSUME NEW log \in Seq(Seq(Nat)), NEW t \in Seq(Nat), NEW sd,
         Sorted(log, <<>>, sd), Rising(t),
         \A x \in LogBytes(log) \ sd, y \in TextBytes(t) \ sd : x < y
  PROVE  Sorted(Append(log, t), <<>>, sd)
<1> DEFINE g == Append(log, t)
           n == Len(log)
<1>1. n \in Nat /\ Len(g) = n + 1 /\ g[n + 1] = t /\ \A a \in 1 .. n : g[a] = log[a]
  OBVIOUS
<1> HIDE DEF g, n
<1>2. \A i \in 1 .. Len(g) : Rising(g[i])
  BY <1>1 DEF Sorted, n
<1>3. ASSUME NEW i \in 1 .. Len(g), NEW j \in 1 .. Len(g), i < j,
             NEW x \in TextBytes(g[i]) \ sd, NEW y \in TextBytes(g[j]) \ sd
      PROVE  x < y
  <2>1. i \in 1 .. n /\ g[i] = log[i]
    BY <1>1, <1>3
  <2>2. x \in LogBytes(log) \ sd
    BY <2>1, <1>3 DEF LogBytes, n
  <2>3. CASE j = n + 1
    BY <2>2, <2>3, <1>1, <1>3
  <2>4. CASE j \in 1 .. n
    BY <2>1, <2>4, <1>1, <1>3 DEF Sorted, n
  <2>5. QED
    BY <2>3, <2>4, <1>1
<1>4. QED
  BY <1>2, <1>3, NoText DEF Sorted, g

----------------------------------------------------------------------------
\* Chunks.

\* The pieces of a line hold its bytes, in order.
LEMMA ChunkBytes ==
  ASSUME NEW t \in Seq(Nat), NEW k \in DOMAIN Chunks(t)
  PROVE  /\ DOMAIN Chunks(t) = 1 .. (Len(t) + Chunk - 1) \div Chunk
         /\ k \in Nat \ {0} /\ (k - 1) * Chunk \in Nat
         /\ Chunks(t)[k] \in Seq(Nat) /\ Len(Chunks(t)[k]) <= Chunk
         /\ Kept(Chunks(t)[k]) = Chunks(t)[k]
         /\ \A a \in 1 .. Len(Chunks(t)[k]) :
              /\ (k - 1) * Chunk + a \in 1 .. Len(t)
              /\ Chunks(t)[k][a] = t[(k - 1) * Chunk + a]
<1> DEFINE N == (Len(t) + Chunk - 1) \div Chunk
           lo == (k - 1) * Chunk
           hi == IF k * Chunk < Len(t) THEN k * Chunk ELSE Len(t)
<1>1. Len(t) \in Nat /\ Chunk \in Nat \ {0} /\ Chunk <= KlogMax /\ KlogMax \in Nat
  BY LogAssumption
<1>2. DOMAIN Chunks(t) = 1 .. N /\ Chunks(t)[k] = SubSeq(t, lo + 1, hi)
  BY DEF Chunks
<1>3. k \in 1 .. N
  BY <1>2
<1>4. N \in Int
  BY <1>1, SMT
<1>5. k \in Nat \ {0}
  BY <1>3, <1>4
<1>6. lo \in Nat /\ k * Chunk \in Nat /\ k * Chunk = lo + Chunk
  BY <1>1, <1>5
<1>7. lo < Len(t)
  BY <1>1, <1>3, <1>4, <1>5, SMT
<1> HIDE DEF lo, N
<1>8. hi \in Nat /\ lo <= hi /\ hi <= Len(t) /\ hi - lo <= Chunk
  BY <1>1, <1>6, <1>7
<1> HIDE DEF hi
<1> DEFINE s == SubSeq(t, lo + 1, hi)
<1>9. s \in Seq(Nat) /\ Len(s) = hi - lo /\ \A a \in 1 .. (hi - lo) : s[a] = t[lo + a]
  BY <1>1, <1>6, <1>8
<1>10. \A a \in 1 .. Len(s) : lo + a \in 1 .. Len(t) /\ s[a] = t[lo + a]
  BY <1>1, <1>6, <1>8, <1>9
<1>11. Kept(s) = s
  <2> HIDE DEF s
  <2>1. Len(s) <= KlogMax
    <3>1. Len(s) \in Nat /\ Len(s) <= Chunk
      BY <1>6, <1>8, <1>9
    <3>2. QED
      BY <3>1, <1>1
  <2>2. QED
    BY <2>1 DEF Kept
<1>12. QED
  BY <1>1, <1>2, <1>5, <1>6, <1>8, <1>9, <1>10, <1>11 DEF lo, N

\* Division with a remainder.
LEMMA DivMod ==
  ASSUME NEW n \in Nat, NEW c \in Nat \ {0}
  PROVE  n \div c \in Nat /\ n % c \in Nat /\ n % c < c /\ n = (n \div c) * c + (n % c)
<1>1. n \div c \in Nat /\ n % c \in 0 .. c - 1
  BY SMT
<1>2. n = (n \div c) * c + (n % c)
  BY SMT
<1>3. QED
  BY <1>1, <1>2

\* No byte of a line is in none of its pieces.
LEMMA ChunkCovers ==
  ASSUME NEW t \in Seq(Nat), NEW m \in 1 .. Len(t)
  PROVE  \E k \in DOMAIN Chunks(t) : \E a \in 1 .. Len(Chunks(t)[k]) : Chunks(t)[k][a] = t[m]
<1> DEFINE N == (Len(t) + Chunk - 1) \div Chunk
           q == (m - 1) \div Chunk
           r == (m - 1) % Chunk
<1>1. Len(t) \in Nat /\ Chunk \in Nat \ {0} /\ m - 1 \in Nat
  BY LogAssumption
<1>2. q \in Nat /\ r \in Nat /\ r < Chunk /\ m - 1 = (q * Chunk) + r
  BY <1>1, DivMod
<1>3. q < N
  BY <1>1, SMT
<1>4. N \in Int /\ q + 1 \in 1 .. N
  BY <1>1, <1>2, <1>3, SMT
<1>5. DOMAIN Chunks(t) = 1 .. N
  BY DEF Chunks
<1> DEFINE lo == q * Chunk
           hi == IF (q + 1) * Chunk < Len(t) THEN (q + 1) * Chunk ELSE Len(t)
<1>6. Chunks(t)[q + 1] = SubSeq(t, ((q + 1) - 1) * Chunk + 1, hi)
  BY <1>4, <1>5 DEF Chunks
<1>7. (q + 1) - 1 = q
  BY <1>2
<1>8. Chunks(t)[q + 1] = SubSeq(t, lo + 1, hi)
  BY <1>6, <1>7
<1>9. lo \in Nat /\ (q + 1) * Chunk = lo + Chunk /\ m = lo + r + 1
  BY <1>1, <1>2
<1> HIDE DEF lo, q, r
<1>10. hi \in Nat /\ lo + r + 1 <= hi /\ hi <= Len(t)
  BY <1>1, <1>2, <1>9
<1> HIDE DEF hi
<1>11. Len(SubSeq(t, lo + 1, hi)) = hi - lo /\ SubSeq(t, lo + 1, hi)[r + 1] = t[lo + (r + 1)]
  BY <1>1, <1>2, <1>9, <1>10
<1>12. r + 1 \in 1 .. Len(Chunks(t)[q + 1]) /\ Chunks(t)[q + 1][r + 1] = t[m]
  <2>1. r + 1 \in 1 .. (hi - lo) /\ lo + (r + 1) = m
    BY <1>2, <1>9, <1>10
  <2>2. QED
    BY <2>1, <1>8, <1>11
<1>13. QED
  BY <1>4, <1>5, <1>12

\* A flush moves the bytes of the line into the log and keeps all of them in order.
LEMMA FlushSorted ==
  ASSUME klog \in Seq(Seq(Nat)), line \in Seq(Nat), NEW sd
  PROVE  /\ Flushed \in Seq(Seq(Nat))
         /\ LogBytes(Flushed) = LogBytes(klog) \cup TextBytes(line)
         /\ Sorted(klog, line, sd) => Sorted(Flushed, <<>>, sd)
<1> DEFINE C == Chunks(line)
           N == (Len(line) + Chunk - 1) \div Chunk
           F == [k \in DOMAIN C |-> Kept(C[k])]
           n == Len(klog)
           g == Flushed
<1>1. Len(line) \in Nat /\ n \in Nat /\ Chunk \in Nat \ {0} /\ N \in Nat
  <2>1. Len(line) \in Nat /\ n \in Nat /\ Chunk \in Nat \ {0}
    BY LogAssumption
  <2>2. Len(line) + Chunk - 1 \in Nat
    BY <2>1
  <2>3. QED
    BY <2>1, <2>2, DivMod
<1>2. DOMAIN C = 1 .. N
  BY DEF Chunks
<1>3. \A k \in 1 .. N : /\ C[k] \in Seq(Nat) /\ Len(C[k]) <= Chunk /\ (k - 1) * Chunk \in Nat
                        /\ F[k] = C[k]
                        /\ \A a \in 1 .. Len(C[k]) : /\ (k - 1) * Chunk + a \in 1 .. Len(line)
                                                     /\ C[k][a] = line[(k - 1) * Chunk + a]
  BY <1>2, ChunkBytes
<1>4. F \in Seq(Seq(Nat)) /\ Len(F) = N
  <2>1. F = [k \in 1 .. N |-> Kept(C[k])]
    BY <1>2, Zenon
  <2>2. \A k \in 1 .. N : F[k] \in Seq(Nat)
    BY <1>3, Zenon
  <2> HIDE DEF C, N, F
  <2>3. F \in [1 .. N -> Seq(Nat)]
    BY <2>1, <2>2
  <2>4. QED
    BY <2>3, <1>1
<1>5. g = klog \o F
  BY DEF Flushed
<1> HIDE DEF C, N, F, n, g
<1>6. /\ g \in Seq(Seq(Nat)) /\ Len(g) = n + N
      /\ \A i \in 1 .. n : g[i] = klog[i]
      /\ \A k \in 1 .. N : g[n + k] = F[k]
  BY <1>1, <1>4, <1>5 DEF n
<1>7. \A k \in 1 .. N : g[n + k] = C[k] /\ TextBytes(C[k]) \subseteq TextBytes(line)
  <2> SUFFICES ASSUME NEW k \in 1 .. N
               PROVE  g[n + k] = C[k] /\ TextBytes(C[k]) \subseteq TextBytes(line)
    OBVIOUS
  <2>1. g[n + k] = C[k]
    BY <1>3, <1>6, Zenon
  <2>2. \A a \in 1 .. Len(C[k]) : \E m \in 1 .. Len(line) : C[k][a] = line[m]
    BY <1>3, Zenon
  <2>3. QED
    BY <2>1, <2>2 DEF TextBytes
<1>8. \A i \in 1 .. Len(g) : i \in 1 .. n \/ (i - n \in 1 .. N /\ i = n + (i - n))
  BY <1>1, <1>6
<1>9. LogBytes(g) = LogBytes(klog) \cup TextBytes(line)
  <2>1. ASSUME NEW x \in LogBytes(g) PROVE x \in LogBytes(klog) \cup TextBytes(line)
    <3>1. PICK i \in 1 .. Len(g) : x \in TextBytes(g[i])
      BY DEF LogBytes
    <3>2. CASE i \in 1 .. n
      BY <3>1, <3>2, <1>6 DEF LogBytes, n
    <3>3. CASE i - n \in 1 .. N /\ i = n + (i - n)
      BY <3>1, <3>3, <1>7
    <3>4. QED
      BY <3>2, <3>3, <1>8
  <2>2. ASSUME NEW x \in LogBytes(klog) PROVE x \in LogBytes(g)
    <3>1. PICK i \in 1 .. n : x \in TextBytes(klog[i])
      BY DEF LogBytes, n
    <3>2. i \in 1 .. Len(g) /\ g[i] = klog[i]
      BY <1>1, <1>6
    <3>3. QED
      BY <3>1, <3>2 DEF LogBytes
  <2>3. ASSUME NEW x \in TextBytes(line) PROVE x \in LogBytes(g)
    <3>1. PICK m \in 1 .. Len(line) : x = line[m]
      BY DEF TextBytes
    <3>2. PICK k \in DOMAIN C : \E a \in 1 .. Len(C[k]) : C[k][a] = line[m]
      BY ChunkCovers DEF C
    <3>3. k \in 1 .. N /\ n + k \in 1 .. Len(g)
      <4>1. k \in 1 .. N
        BY <1>2
      <4>2. Len(g) = n + N
        BY <1>6
      <4>3. QED
        BY <4>1, <4>2, <1>1
    <3>4. x \in TextBytes(g[n + k])
      BY <3>1, <3>2, <3>3, <1>7 DEF TextBytes
    <3>5. QED
      BY <3>3, <3>4 DEF LogBytes
  <2>4. QED
    BY <2>1, <2>2, <2>3
<1>10. ASSUME Sorted(klog, line, sd) PROVE Sorted(g, <<>>, sd)
  <2>1. ASSUME NEW i \in 1 .. Len(g) PROVE Rising(g[i])
    <3>1. CASE i \in 1 .. n
      BY <3>1, <1>6, <1>10 DEF Sorted, n
    <3>2. CASE i - n \in 1 .. N /\ i = n + (i - n)
      <4> DEFINE k == i - n
      <4>1. k \in 1 .. N /\ g[i] = C[k]
        BY <3>2, <1>7
      <4> HIDE DEF k
      <4>2. (k - 1) * Chunk \in Nat /\ Len(C[k]) \in Nat
        BY <4>1, <1>3
      <4> SUFFICES ASSUME NEW a \in 1 .. Len(C[k]), NEW b \in 1 .. Len(C[k]), a < b
                   PROVE  C[k][a] < C[k][b]
        BY <4>1 DEF Rising
      <4> DEFINE lo == (k - 1) * Chunk
      <4>3. /\ lo + a \in 1 .. Len(line) /\ C[k][a] = line[lo + a]
            /\ lo + b \in 1 .. Len(line) /\ C[k][b] = line[lo + b]
        BY <4>1, <1>3
      <4> HIDE DEF lo
      <4>4. lo + a < lo + b
        BY <4>2 DEF lo
      <4>5. QED
        BY <4>3, <4>4, <1>10 DEF Sorted, Rising
    <3>3. QED
      BY <3>1, <3>2, <1>8
  <2>2. ASSUME NEW i \in 1 .. Len(g), NEW j \in 1 .. Len(g), i < j,
               NEW x \in TextBytes(g[i]) \ sd, NEW y \in TextBytes(g[j]) \ sd
        PROVE  x < y
    <3>1. CASE i \in 1 .. n /\ j \in 1 .. n
      BY <3>1, <2>2, <1>6, <1>10 DEF Sorted, n
    <3>2. CASE i \in 1 .. n /\ j - n \in 1 .. N /\ j = n + (j - n)
      <4>1. x \in LogBytes(klog) \ sd
        BY <3>2, <2>2, <1>6 DEF LogBytes, n
      <4>2. y \in TextBytes(line)
        BY <3>2, <2>2, <1>7
      <4>3. QED
        BY <4>1, <4>2, <1>10 DEF Sorted
    <3>3. CASE i - n \in 1 .. N /\ i = n + (i - n) /\ j - n \in 1 .. N /\ j = n + (j - n)
      <4> DEFINE k == i - n
                 l == j - n
      <4>1. k \in 1 .. N /\ g[i] = C[k] /\ l \in 1 .. N /\ g[j] = C[l]
        BY <3>3, <1>7
      <4>2. k < l
        BY <3>3, <2>2, <1>1, <1>6
      <4> HIDE DEF k, l
      <4>3. PICK a \in 1 .. Len(C[k]) : x = C[k][a]
        BY <4>1, <2>2 DEF TextBytes
      <4>4. PICK b \in 1 .. Len(C[l]) : y = C[l][b]
        BY <4>1, <2>2 DEF TextBytes
      <4> DEFINE la == (k - 1) * Chunk
                 lb == (l - 1) * Chunk
      <4>5. /\ la \in Nat /\ la + a \in 1 .. Len(line) /\ x = line[la + a]
            /\ lb \in Nat /\ lb + b \in 1 .. Len(line) /\ y = line[lb + b]
        BY <4>1, <4>3, <4>4, <1>3
      <4>6. la + Chunk <= lb
        BY <4>1, <4>2, <1>1, SMT
      <4>7. a \in Nat /\ b \in Nat /\ a <= Chunk /\ b >= 1
        <5>1. Len(C[k]) \in Nat /\ Len(C[l]) \in Nat /\ Len(C[k]) <= Chunk
          <6>1. C[k] \in Seq(Nat) /\ C[l] \in Seq(Nat) /\ Len(C[k]) <= Chunk
            BY <4>1, <1>3, Zenon
          <6>2. QED
            BY <6>1
        <5>2. QED
          BY <5>1, <1>1
      <4> HIDE DEF la, lb
      <4>8. la + a < lb + b
        BY <4>5, <4>6, <4>7, <1>1
      <4>9. QED
        BY <4>5, <4>8, <1>10 DEF Sorted, Rising
    <3>4. i \in 1 .. n \/ j - n \in 1 .. N
      BY <1>1, <1>6, <2>2
    <3>5. QED
      BY <3>1, <3>2, <3>3, <3>4, <1>1, <1>8, <2>2
  <2>3. QED
    BY <2>1, <2>2, NoText DEF Sorted
<1>11. QED
  BY <1>6, <1>9, <1>10 DEF g

----------------------------------------------------------------------------
\* Stamps.

\* The letters among the first n bytes, as a number.
LEMMA LettersCount ==
  ASSUME NEW text \in Seq(Nat), NEW n \in 0 .. Len(text)
  PROVE  /\ IsFiniteSet(LettersTo(text, n)) /\ Cardinality(LettersTo(text, n)) \in Nat
         /\ \A k \in 0 .. n : Cardinality(LettersTo(text, k)) <= Cardinality(LettersTo(text, n))
         /\ n \in 1 .. Len(text) /\ text[n] = Letter =>
              \A k \in 0 .. n - 1 : Cardinality(LettersTo(text, k)) < Cardinality(LettersTo(text, n))
<1>1. Len(text) \in Nat /\ n \in Nat
  OBVIOUS
<1>2. IsFiniteSet(1 .. n)
  BY <1>1, FS_Interval
<1>3. LettersTo(text, n) \in SUBSET (1 .. n)
  BY DEF LettersTo
<1>4. IsFiniteSet(LettersTo(text, n))
  BY <1>2, <1>3, FS_Subset
<1>5. Cardinality(LettersTo(text, n)) \in Nat
  BY <1>4, FS_CardinalityType
<1>6. ASSUME NEW k \in 0 .. n
      PROVE  Cardinality(LettersTo(text, k)) <= Cardinality(LettersTo(text, n))
  <2>1. LettersTo(text, k) \in SUBSET LettersTo(text, n)
    BY <1>1 DEF LettersTo
  <2>2. QED
    BY <2>1, <1>4, FS_Subset
<1>7. ASSUME n \in 1 .. Len(text), text[n] = Letter, NEW k \in 0 .. n - 1
      PROVE  Cardinality(LettersTo(text, k)) < Cardinality(LettersTo(text, n))
  <2> DEFINE A == LettersTo(text, n) \ {n}
  <2>1. LettersTo(text, k) \in SUBSET A
    BY <1>1 DEF LettersTo
  <2>2. n \in LettersTo(text, n)
    BY <1>7, <1>1 DEF LettersTo
  <2>3. IsFiniteSet(A) /\ Cardinality(A) = Cardinality(LettersTo(text, n)) - 1
    BY <2>2, <1>4, FS_RemoveElement
  <2>4. IsFiniteSet(LettersTo(text, k)) /\ Cardinality(LettersTo(text, k)) <= Cardinality(A)
    BY <2>1, <2>3, FS_Subset
  <2>5. Cardinality(LettersTo(text, k)) \in Nat
    BY <2>4, FS_CardinalityType
  <2>6. QED
    BY <2>3, <2>4, <2>5, <1>5
<1>8. QED
  BY <1>4, <1>5, <1>6, <1>7

\* A call's letters get the moments that follow, one each and in order.
LEMMA StampedText ==
  ASSUME written \in Nat, NEW text \in Texts, written + Loud(text) <= MaxBytes
  PROVE  /\ Loud(text) \in Nat
         /\ Stamped(text) \in Seq(Nat) /\ Len(Stamped(text)) = Len(text)
         /\ \A k \in 1 .. Len(text) :
              \/ Stamped(text)[k] \in {NewLine, Return}
              \/ Stamped(text)[k] \in written + 1 .. written + Loud(text)
         /\ \A j, k \in 1 .. Len(text) :
              j < k /\ Stamped(text)[j] \in 1 .. MaxBytes /\ Stamped(text)[k] \in 1 .. MaxBytes
                => Stamped(text)[j] < Stamped(text)[k]
         /\ \A b \in written + 1 .. written + Loud(text) :
              \E k \in 1 .. Len(text) : Stamped(text)[k] = b
<1> DEFINE n == Len(text)
           R == [k \in 0 .. n |-> Cardinality(LettersTo(text, k))]
           s == Stamped(text)
           L == LettersTo(text, n)
<1>1. text \in Seq(Nat) /\ n \in Nat /\ \A k \in 1 .. n : text[k] \in {Letter, NewLine, Return}
  <2>1. text \in Seq({Letter, NewLine, Return})
    BY LogAssumption
  <2>2. {Letter, NewLine, Return} \subseteq Nat
    BY LogAssumption DEF Letter, NewLine, Return
  <2>3. QED
    BY <2>1, <2>2
<1>2. ASSUME NEW k \in 0 .. n
      PROVE  /\ R[k] \in Nat /\ R[k] <= R[n] /\ R[0] <= R[k]
             /\ k \in 1 .. n /\ text[k] = Letter => \A j \in 0 .. k - 1 : R[j] < R[k]
  <2>0. n \in 0 .. n /\ 0 \in 0 .. n /\ 0 \in 0 .. k /\ k \in Nat /\ \A j \in 0 .. k : j \in 0 .. n
    BY <1>1
  <2>1. /\ R[k] \in Nat /\ \A j \in 0 .. k : R[j] <= R[k]
        /\ k \in 1 .. n /\ text[k] = Letter => \A j \in 0 .. k - 1 : R[j] < R[k]
    BY <2>0, <1>1, LettersCount
  <2>2. \A j \in 0 .. n : R[j] <= R[n]
    BY <2>0, <1>1, LettersCount
  <2>3. QED
    BY <2>0, <2>1, <2>2
<1>3. R[n] = Loud(text) /\ R[n] \in Nat
  BY <1>1, <1>2 DEF Loud
<1>4. s = [k \in 1 .. n |-> IF text[k] = Letter THEN written + R[k] ELSE text[k]]
  BY DEF Stamped
<1>5. IsFiniteSet(L) /\ Cardinality(L) = R[n]
  <2>1. n \in 0 .. n
    BY <1>1
  <2>2. QED
    BY <2>1, <1>1, LettersCount
<1>6. \A k \in 1 .. n : k \in L <=> text[k] = Letter
  BY DEF LettersTo
<1>7. L \subseteq 1 .. n
  BY DEF LettersTo
<1>8. R[0] \in Nat
  BY <1>1, <1>2
<1> HIDE DEF n, R, s, L
<1>9. ASSUME NEW k \in L PROVE R[k] \in 1 .. R[n]
  <2>1. k \in 0 .. n /\ 0 \in 0 .. k - 1 /\ k \in 1 .. n /\ text[k] = Letter
    BY <1>1, <1>6, <1>7
  <2>2. R[k] \in Nat /\ R[k] <= R[n] /\ R[0] < R[k]
    BY <2>1, <1>2
  <2>3. QED
    BY <2>2, <1>3, <1>8
<1>10. ASSUME NEW j \in L, NEW k \in L, j < k PROVE R[j] < R[k]
  <2>1. k \in 0 .. n /\ j \in 0 .. k - 1 /\ k \in 1 .. n /\ text[k] = Letter
    BY <1>1, <1>6, <1>7, <1>10
  <2>2. QED
    BY <2>1, <1>2
<1>11. s \in Seq(Nat) /\ Len(s) = n
  <2>1. \A k \in 1 .. n : s[k] \in Nat
    <3> SUFFICES ASSUME NEW k \in 1 .. n PROVE s[k] \in Nat
      OBVIOUS
    <3>1. k \in 0 .. n
      BY <1>1
    <3>2. R[k] \in Nat /\ text[k] \in Nat
      BY <3>1, <1>1, <1>2 DEF n
    <3>3. QED
      BY <3>2, <1>4
  <2>2. s \in [1 .. n -> Nat]
    BY <2>1, <1>4
  <2>3. QED
    BY <2>2, <1>1
<1>12. ASSUME NEW k \in 1 .. n
       PROVE  \/ k \in L /\ s[k] = written + R[k]
              \/ k \notin L /\ s[k] \in {NewLine, Return}
  BY <1>1, <1>4, <1>6
<1>13. \A k \in 1 .. n : s[k] \in {NewLine, Return} \/ s[k] \in written + 1 .. written + R[n]
  BY <1>3, <1>9, <1>12
<1>14. ASSUME NEW j \in 1 .. n, NEW k \in 1 .. n, j < k, s[j] \in 1 .. MaxBytes, s[k] \in 1 .. MaxBytes
       PROVE  s[j] < s[k]
  <2>1. NewLine \notin 1 .. MaxBytes /\ Return \notin 1 .. MaxBytes
    BY LogAssumption DEF NewLine, Return
  <2>2. j \in L /\ k \in L /\ s[j] = written + R[j] /\ s[k] = written + R[k]
    BY <2>1, <1>12, <1>14
  <2>3. R[j] \in Nat /\ R[k] \in Nat
    BY <2>2, <1>3, <1>9
  <2>4. R[j] < R[k]
    BY <2>2, <1>10, <1>14
  <2>5. QED
    BY <2>2, <2>3, <2>4
<1>15. ASSUME NEW b \in written + 1 .. written + R[n] PROVE \E k \in 1 .. n : s[k] = b
  <2> DEFINE f == [k \in L |-> R[k]]
             T == 1 .. R[n]
  <2>1. IsFiniteSet(T) /\ Cardinality(T) = R[n]
    <3>1. 1 \in Int /\ R[n] \in Int
      BY <1>3
    <3>2. IsFiniteSet(T) /\ Cardinality(T) = IF 1 > R[n] THEN 0 ELSE R[n] - 1 + 1
      BY <3>1, FS_Interval
    <3>3. QED
      BY <3>2, <1>3
  <2>2. f \in [L -> T]
    BY <1>9
  <2>3. \A j, k \in L : j # k => f[j] # f[k]
    <3> SUFFICES ASSUME NEW j \in L, NEW k \in L, j # k PROVE R[j] # R[k]
      OBVIOUS
    <3>1. j < k \/ k < j
      BY <1>1, <1>7
    <3>2. R[j] \in Nat /\ R[k] \in Nat
      BY <1>3, <1>9
    <3>3. QED
      BY <3>1, <3>2, <1>10
  <2>4. f \in Injection(L, T)
    BY <2>2, <2>3 DEF Injection, IsInjective
  <2>5. f \in Surjection(L, T)
    <3>1. Cardinality(L) = Cardinality(T)
      BY <2>1, <1>5
    <3>2. QED
      BY <2>1, <2>4, <3>1, FS_Injection
  <2>6. b - written \in T
    BY <1>3
  <2>7. PICK k \in L : f[k] = b - written
    BY <2>5, <2>6 DEF Surjection
  <2>8. k \in 1 .. n /\ s[k] = written + (b - written)
    BY <2>7, <1>7, <1>12
  <2>9. QED
    BY <2>8, <1>3
<1>16. QED
  BY <1>3, <1>11, <1>13, <1>14, <1>15 DEF n, s

----------------------------------------------------------------------------
\* The line buffer's bound.

LogTypeOK ==
  /\ line \in Seq(Nat) /\ klog \in Seq(Seq(Nat))
  /\ rest \in [Writers -> Seq(Nat)]
  /\ pc \in [Writers -> {"idle", "byte", "store"}]
  /\ written \in Nat /\ mixed \in BOOLEAN /\ raced \in BOOLEAN

\* Only in a call has a thread bytes left; until calls have overlapped one thread is in
\* one, and until two have raced one is between the test and the store, with room for it.
Turns ==
  /\ ~mixed => \A v, w \in Writers : pc[v] # "idle" /\ pc[w] # "idle" => v = w
  /\ \A w \in Writers : pc[w] = "idle" => rest[w] = <<>>
  /\ \A w \in Writers : pc[w] = "store" => rest[w] # <<>>
  /\ ~raced => \A w \in Writers :
       pc[w] = "store" => /\ Len(line) < LineMax
                          /\ \A v \in Writers : pc[v] = "store" => v = w

BoundInv == LogTypeOK /\ Turns /\ LineBounded

\* A line the system log is handed is a line of bytes.
LEMMA KloggedType ==
  ASSUME NEW log \in Seq(Seq(Nat)), NEW t \in Seq(Nat)
  PROVE  Kept(t) \in Seq(Nat) /\ Klogged(log, t) \in Seq(Seq(Nat))
<1>1. Kept(t) \in Seq(Nat)
  BY DEF Kept
<1>2. QED
  BY <1>1 DEF Klogged

\* The moments of a line.
LEMMA MomentsType ==
  ASSUME written \in Nat, NEW n \in Nat
  PROVE  /\ Moments(n) \in Seq(Nat) /\ Len(Moments(n)) = n
         /\ \A k \in 1 .. n : Moments(n)[k] = written + k
<1>1. Moments(n) \in [1 .. n -> Nat] /\ \A k \in 1 .. n : Moments(n)[k] = written + k
  BY DEF Moments
<1>2. QED
  BY <1>1

\* A call that begins where calls have not overlapped begins with nobody in one, and so
\* with nothing left to log.
LEMMA AllIdle ==
  ASSUME BoundInv, NEW w \in Writers, Begins(w), ~mixed'
  PROVE  ~mixed /\ \A v \in Writers : pc[v] = "idle" /\ rest[v] = <<>>
  BY DEF BoundInv, Turns, Begins

\* A flush empties the line.
LEMMA FlushType ==
  ASSUME LogTypeOK
  PROVE  /\ Flushed \in Seq(Seq(Nat)) /\ <<>> \in Seq(Nat) /\ Len(<<>>) = 0
         /\ LineMax \in Nat \ {0} /\ Len(line) \in Nat
<1>1. klog \in Seq(Seq(Nat)) /\ line \in Seq(Nat)
  BY DEF LogTypeOK
<1>2. Flushed \in Seq(Seq(Nat)) /\ (Sorted(klog, line, {}) => Sorted(Flushed, <<>>, {}))
  BY <1>1, FlushSorted
<1>3. QED
  BY <1>1, <1>2, LogAssumption

\* The bound, step by step.
LEMMA BoundStep ==
  ASSUME BoundInv, [Next]_vars
  PROVE  BoundInv'
<1> USE DEF BoundInv, LogTypeOK
<1>0. /\ MaxBytes \in Nat \ {0} /\ written \in Nat
  BY LogAssumption
<1>a. ASSUME NEW w \in Writers, Begins(w)
      PROVE  mixed' \in BOOLEAN /\ (~mixed' => ~mixed /\ \A v \in Writers : pc[v] = "idle")
  BY <1>a, Zenon DEF Begins
<1>1. ASSUME NEW w \in Writers, NEW text \in Texts, Write(w, text) \/ WriteTruncated(w, text)
      PROVE  BoundInv'
  <2>1. /\ pc' = [pc EXCEPT ![w] = "byte"] /\ UNCHANGED <<line, klog, raced>> /\ Begins(w)
        /\ written' = written + Loud(text)
    BY <1>1 DEF Write, WriteTruncated
  <2>2. written + Loud(text) <= MaxBytes
    <3>1. CASE Write(w, text)
      BY <3>1 DEF Write
    <3>2. CASE WriteTruncated(w, text)
      <4>1. Loud(text) + 1 = LineMax /\ written + LineMax <= MaxBytes /\ LineMax \in Nat
        BY <3>2, LogAssumption DEF WriteTruncated
      <4>2. IsFiniteSet(LettersTo(text, Len(text))) /\ Loud(text) \in Nat
        <5>1. text \in Seq({Letter, NewLine, Return}) /\ {Letter, NewLine, Return} \subseteq Nat
          BY LogAssumption DEF Letter, NewLine, Return
        <5>2. text \in Seq(Nat) /\ Len(text) \in 0 .. Len(text)
          BY <5>1
        <5>3. QED
          BY <5>2, LettersCount DEF Loud
      <4>3. QED
        BY <4>1, <4>2, <1>0
    <3>3. QED
      BY <3>1, <3>2, <1>1
  <2>3. Stamped(text) \in Seq(Nat) /\ Loud(text) \in Nat
    BY <2>2, <1>0, StampedText
  <2>4. \E t \in Seq(Nat) : rest' = [rest EXCEPT ![w] = t]
    <3>1. CASE Write(w, text)
      BY <3>1, <2>3 DEF Write
    <3>2. CASE WriteTruncated(w, text)
      <4>1. NewLine \in Nat /\ Notice \in Nat
        BY <1>0 DEF NewLine, Notice
      <4>2. Stamped(text) \o <<NewLine, Notice>> \in Seq(Nat)
        BY <4>1, <2>3
      <4>3. QED
        BY <3>2, <4>2 DEF WriteTruncated
    <3>3. QED
      BY <3>1, <3>2, <1>1
  <2>5. mixed' \in BOOLEAN /\ (~mixed' => ~mixed /\ \A v \in Writers : pc[v] = "idle")
    BY <2>1, <1>a
  <2>6. LogTypeOK' /\ LineBounded'
    BY <2>1, <2>2, <2>3, <2>4, <2>5, <1>0 DEF LineBounded
  <2>7. /\ pc'[w] = "byte" /\ \A v \in Writers : v # w => pc'[v] = pc[v] /\ rest'[v] = rest[v]
    BY <2>1, <2>4
  <2>8. Turns'
    <3>1. \A v \in Writers : pc'[v] = "store" => pc[v] = "store" /\ rest'[v] = rest[v]
      BY <2>7
    <3>2. \A v \in Writers : pc'[v] = "idle" => pc[v] = "idle" /\ rest'[v] = rest[v]
      BY <2>7
    <3>3. ~mixed' => \A v \in Writers : pc'[v] # "idle" => v = w
      BY <2>5, <2>7
    <3>4. QED
      BY <2>1, <3>1, <3>2, <3>3 DEF Turns
  <2>9. QED
    BY <2>6, <2>8
<1>2. ASSUME NEW w \in Writers, Finished(w) PROVE BoundInv'
  <2>1. LogTypeOK' /\ LineBounded'
    BY <1>2 DEF Finished, LineBounded
  <2>2. Turns'
    BY <1>2 DEF Finished, Turns
  <2>3. QED
    BY <2>1, <2>2
<1>3. ASSUME NEW w \in Writers, pc[w] = "byte", rest[w] # <<>>,
             rest' = [rest EXCEPT ![w] = Tail(@)], pc' = pc, mixed' = mixed, raced' = raced,
             klog' \in Seq(Seq(Nat)), line' \in {line, <<>>}, written' \in Nat
      PROVE  BoundInv'
  <2>1. Tail(rest[w]) \in Seq(Nat)
    BY <1>3
  <2>2. LogTypeOK'
    BY <1>3, <2>1, FlushType
  <2>3. Len(line') <= Len(line) /\ Len(line') \in Nat
    BY <1>3, FlushType
  <2>4. LineBounded'
    BY <1>3, <2>2, <2>3, FlushType DEF LineBounded
  <2>5. \A v \in Writers : pc[v] # "byte" => rest'[v] = rest[v]
    BY <1>3
  <2>6. Turns'
    BY <1>3, <2>3, <2>5, FlushType DEF Turns
  <2>7. QED
    BY <2>2, <2>4, <2>6
<1>4. ASSUME NEW w \in Writers, AppendNewLine(w) PROVE BoundInv'
  BY <1>3, <1>4, FlushType DEF AppendNewLine, LineFlush
<1>5. ASSUME NEW w \in Writers, AppendReturn(w) PROVE BoundInv'
  BY <1>3, <1>5 DEF AppendReturn
<1>6. ASSUME NEW w \in Writers, AppendNotice(w) PROVE BoundInv'
  <2>1. written + 1 \in Nat /\ <<written + 1>> \in Seq(Nat)
    BY <1>0, <1>6
  <2>2. Klogged(klog, <<written + 1>>) \in Seq(Seq(Nat))
    BY <2>1, KloggedType
  <2>3. QED
    BY <1>3, <1>6, <2>1, <2>2 DEF AppendNotice
<1>7. ASSUME NEW w \in Writers, AppendTest(w) PROVE BoundInv'
  <2>0. /\ pc[w] = "byte" /\ rest[w] # <<>> /\ pc' = [pc EXCEPT ![w] = "store"]
        /\ UNCHANGED <<rest, written, said, mixed>>
        /\ raced' \in BOOLEAN
        /\ ~raced' => ~raced /\ \A v \in Writers : pc[v] # "store"
    <3>1. /\ pc[w] = "byte" /\ rest[w] # <<>> /\ pc' = [pc EXCEPT ![w] = "store"]
          /\ UNCHANGED <<rest, written, said, mixed>>
      BY <1>7 DEF AppendTest
    <3>2. raced' = (raced \/ \E v \in Writers : pc[v] = "store")
      BY <1>7 DEF AppendTest
    <3>3. raced' \in BOOLEAN /\ (~raced' => ~raced /\ \A v \in Writers : pc[v] # "store")
      BY <3>2, Zenon
    <3>4. QED
      BY <3>1, <3>3
  <2>1. line' \in Seq(Nat) /\ klog' \in Seq(Seq(Nat)) /\ (~raced => Len(line') < LineMax)
    <3>1. CASE Len(line) = LineMax
      <4>1. line' = <<>> /\ klog' = Flushed
        BY <1>7, <3>1 DEF AppendTest, MakeRoom, LineFlush
      <4>2. QED
        BY <4>1, FlushType
    <3>2. CASE Len(line) # LineMax
      <4>1. line' = line /\ klog' = klog
        BY <1>7, <3>2 DEF AppendTest, MakeRoom
      <4>2. QED
        BY <3>2, <4>1, FlushType DEF LineBounded
    <3>3. QED
      BY <3>1, <3>2
  <2>2. LogTypeOK' /\ LineBounded'
    BY <2>0, <2>1, FlushType DEF LineBounded
  <2>3. pc'[w] = "store" /\ \A v \in Writers : v # w => pc'[v] = pc[v]
    BY <2>0
  <2>4. Turns'
    BY <2>0, <2>1, <2>3 DEF Turns
  <2>5. QED
    BY <2>2, <2>4
<1>8. ASSUME NEW w \in Writers, AppendStore(w) PROVE BoundInv'
  <2>1. rest[w] \in Seq(Nat) /\ rest[w] # <<>> /\ (~raced => Len(line) < LineMax)
    BY <1>8 DEF AppendStore, Turns
  <2>2. Head(rest[w]) \in Nat /\ Tail(rest[w]) \in Seq(Nat)
    BY <2>1
  <2>3. line' \in Seq(Nat) /\ Len(line') = Len(line) + 1
    BY <1>8, <2>2 DEF AppendStore
  <2>4. LogTypeOK' /\ LineBounded'
    BY <1>8, <2>1, <2>2, <2>3, FlushType DEF AppendStore, LineBounded
  <2>5. /\ pc'[w] = "byte" /\ raced' = raced /\ mixed' = mixed /\ pc[w] = "store"
        /\ \A v \in Writers : v # w => pc'[v] = pc[v] /\ rest'[v] = rest[v]
    BY <1>8 DEF AppendStore
  <2>6. ~raced => \A v \in Writers : pc'[v] # "store"
    BY <2>5 DEF Turns
  <2>7. Turns'
    BY <2>5, <2>6 DEF Turns
  <2>8. QED
    BY <2>4, <2>7
<1>9. ASSUME NEW w \in Writers, NEW n \in Lengths, WinsysVlog(w, n) PROVE BoundInv'
  <2>1. n \in Nat /\ Moments(n) \in Seq(Nat)
    BY LogAssumption, <1>0, MomentsType
  <2>2. Klogged(Flushed, Moments(n)) \in Seq(Seq(Nat))
    BY <2>1, FlushType, KloggedType
  <2>3. mixed' \in BOOLEAN /\ (~mixed' => ~mixed /\ \A v \in Writers : pc[v] = "idle")
    BY <1>9, <1>a DEF WinsysVlog
  <2>4. LogTypeOK' /\ LineBounded'
    BY <1>9, <1>0, <2>1, <2>2, <2>3, FlushType DEF WinsysVlog, LineBounded
  <2>5. UNCHANGED <<pc, rest, raced>> /\ line' = <<>>
    BY <1>9 DEF WinsysVlog
  <2>6. Turns'
    BY <2>3, <2>5, FlushType DEF Turns
  <2>7. QED
    BY <2>4, <2>6
<1>10. ASSUME NEW w \in Writers, Say(w) PROVE BoundInv'
  <2>1. 1 \in Nat /\ Moments(1) \in Seq(Nat)
    BY <1>0, MomentsType
  <2>2. Klogged(klog, Moments(1)) \in Seq(Seq(Nat))
    BY <2>1, KloggedType
  <2>3. mixed' \in BOOLEAN /\ (~mixed' => ~mixed)
    BY <1>10, <1>a DEF Say
  <2>4. LogTypeOK' /\ LineBounded'
    BY <1>10, <1>0, <2>2, <2>3 DEF Say, LineBounded
  <2>5. Turns'
    BY <1>10, <2>3 DEF Say, Turns
  <2>6. QED
    BY <2>4, <2>5
<1>11. CASE UNCHANGED vars
  BY <1>11 DEF vars, Turns, LineBounded
<1>12. QED
  BY <1>1, <1>2, <1>4, <1>5, <1>6, <1>7, <1>8, <1>9, <1>10, <1>11 DEF Next

\* Nobody has begun.
LEMMA BoundStart == Init => BoundInv
<1> SUFFICES ASSUME Init PROVE BoundInv
  OBVIOUS
<1>1. <<>> \in Seq(Nat) /\ <<>> \in Seq(Seq(Nat)) /\ Len(<<>>) = 0
  OBVIOUS
<1>2. LineMax \in Nat \ {0} /\ 0 \in Nat
  BY LogAssumption
<1>3. mixed \in BOOLEAN /\ raced \in BOOLEAN /\ ~raced /\ ~mixed
  BY Zenon DEF Init
<1>4. /\ line = <<>> /\ klog = <<>> /\ written = 0
      /\ \A w \in Writers : pc[w] = "idle" /\ rest[w] = <<>>
  BY DEF Init
<1>5. rest \in [Writers -> Seq(Nat)] /\ pc \in [Writers -> {"idle", "byte", "store"}]
  BY <1>1 DEF Init
<1>6. LogTypeOK /\ LineBounded
  BY <1>1, <1>2, <1>3, <1>4, <1>5 DEF LogTypeOK, LineBounded
<1>7. Turns
  BY <1>4 DEF Turns
<1>8. QED
  BY <1>6, <1>7 DEF BoundInv

\* For any number of threads and any overlap of their calls: no byte is stored past the
\* end of the line buffer before two threads have been between the test for a full buffer
\* and the store at once.
THEOREM LineStaysBounded == Spec => []LineBounded
<1>1. BoundInv => LineBounded
  BY DEF BoundInv
<1>2. QED
  BY <1>1, BoundStart, BoundStep, PTL DEF Spec

----------------------------------------------------------------------------
\* The order of the log.

\* The bytes to log of what is left of a call, and of every call.
Pending(t) == TextBytes(t) \cap (1 .. MaxBytes)

AllPending(r) == UNION {Pending(r[w]) : w \in Writers}

\* What is left of a call comes after what is done, in order; the notice that a line was
\* truncated is the end of it and starts a line.
InTurn(t, done, ln, wr) ==
  /\ \A k \in 1 .. Len(t) : t[k] \in 0 .. MaxBytes + 2
  /\ \A j, k \in 1 .. Len(t) : j < k /\ t[j] \in 1 .. MaxBytes /\ t[k] \in 1 .. MaxBytes => t[j] < t[k]
  /\ \A x \in done, y \in Pending(t) : x < y
  /\ \A k \in 1 .. Len(t) :
       t[k] = Notice => /\ k = Len(t) /\ wr < MaxBytes
                        /\ k = 1 => ln = <<>>
                        /\ k > 1 => t[k - 1] = NewLine

Done(log, ln, sd) == (LogBytes(log) \cup TextBytes(ln)) \ sd

OrderInv ==
  /\ Sorted(klog, line, said)
  /\ said \subseteq 1 .. written
  /\ LogBytes(klog) \cup TextBytes(line) \cup AllPending(rest) = 1 .. written
  /\ AllPending(rest) \cap said = {}
  /\ written <= MaxBytes
  /\ \A w \in Writers : InTurn(rest[w], Done(klog, line, said), line, written)
  /\ \A w \in Writers : pc[w] = "store" => Head(rest[w]) \in 1 .. MaxBytes

\* Nothing left of a call.
LEMMA NothingLeft ==
  Pending(<<>>) = {} /\ \A done, ln, wr : InTurn(<<>>, done, ln, wr)
<1>1. Len(<<>>) = 0 /\ 1 .. 0 = {}
  OBVIOUS
<1>2. Pending(<<>>) = {}
  BY <1>1 DEF Pending, TextBytes
<1>3. QED
  BY <1>1, <1>2 DEF InTurn

\* All that is left is what is left of the one call.
LEMMA OnePending ==
  ASSUME NEW r, NEW w \in Writers, \A v \in Writers \ {w} : r[v] = <<>>
  PROVE  AllPending(r) = Pending(r[w])
  BY NothingLeft DEF AllPending

\* A call one byte on.
LEMMA TailInTurn ==
  ASSUME NEW t \in Seq(Nat), t # <<>>, NEW done, NEW done2, NEW ln, NEW ln2, NEW wr,
         InTurn(t, done, ln, wr),
         done2 \subseteq done \cup ({Head(t)} \cap (1 .. MaxBytes)),
         Head(t) = NewLine => ln2 = <<>>
  PROVE  /\ Pending(t) = Pending(Tail(t)) \cup ({Head(t)} \cap (1 .. MaxBytes))
         /\ Tail(t) \in Seq(Nat)
         /\ InTurn(Tail(t), done2, ln2, wr)
         /\ \A y \in Pending(Tail(t)) : Head(t) \in 1 .. MaxBytes => Head(t) < y
<1> DEFINE s == Tail(t)
           n == Len(t)
           h == Head(t)
<1>1. n \in Nat \ {0} /\ s \in Seq(Nat) /\ Len(s) = n - 1 /\ h = t[1]
      /\ \A k \in 1 .. n - 1 : s[k] = t[k + 1]
  OBVIOUS
<1> HIDE DEF s, n, h
<1>2. \A k \in 1 .. Len(s) : k \in Nat /\ k + 1 \in 1 .. n /\ s[k] = t[k + 1] /\ (k + 1) - 1 = k
  BY <1>1
<1>3. TextBytes(t) = TextBytes(s) \cup {h}
  <2>1. ASSUME NEW k \in 1 .. n PROVE t[k] \in TextBytes(s) \cup {h}
    <3>1. k = 1 \/ (k - 1 \in 1 .. Len(s) /\ s[k - 1] = t[k])
      BY <1>1
    <3>2. QED
      BY <3>1, <1>1 DEF TextBytes
  <2>2. h \in TextBytes(t)
    <3>1. 1 \in 1 .. n
      BY <1>1
    <3>2. QED
      BY <3>1, <1>1 DEF TextBytes, n
  <2>3. ASSUME NEW k \in 1 .. Len(s) PROVE s[k] \in TextBytes(t)
    BY <1>2 DEF TextBytes, n
  <2>4. TextBytes(t) \subseteq TextBytes(s) \cup {h}
    BY <2>1 DEF TextBytes, n
  <2>5. TextBytes(s) \subseteq TextBytes(t)
    BY <2>3 DEF TextBytes
  <2>6. QED
    BY <2>2, <2>4, <2>5
<1>4. Pending(t) = Pending(s) \cup ({h} \cap (1 .. MaxBytes))
  BY <1>3 DEF Pending
<1>5. ASSUME NEW y \in Pending(s), h \in 1 .. MaxBytes PROVE h < y
  <2>1. PICK k \in 1 .. Len(s) : y = s[k]
    BY DEF Pending, TextBytes
  <2>2. 1 \in 1 .. n /\ k + 1 \in 1 .. n /\ 1 < k + 1 /\ y = t[k + 1] /\ y \in 1 .. MaxBytes
    BY <2>1, <1>1, <1>2 DEF Pending
  <2>3. QED
    BY <2>2, <1>1, <1>5 DEF InTurn, n
<1>6. \A k \in 1 .. Len(s) : s[k] \in 0 .. MaxBytes + 2
  BY <1>2 DEF InTurn, n
<1>7. ASSUME NEW j \in 1 .. Len(s), NEW k \in 1 .. Len(s), j < k,
             s[j] \in 1 .. MaxBytes, s[k] \in 1 .. MaxBytes
      PROVE  s[j] < s[k]
  <2>1. j + 1 \in 1 .. n /\ k + 1 \in 1 .. n /\ j + 1 < k + 1
    BY <1>2, <1>7
  <2>2. QED
    BY <2>1, <1>2, <1>7 DEF InTurn, n
<1>8. ASSUME NEW x \in done2, NEW y \in Pending(s) PROVE x < y
  BY <1>4, <1>5 DEF InTurn, h
<1>9. ASSUME NEW k \in 1 .. Len(s), s[k] = Notice
      PROVE  /\ k = Len(s) /\ wr < MaxBytes
             /\ k = 1 => ln2 = <<>>
             /\ k > 1 => s[k - 1] = NewLine
  <2>1. k + 1 \in 1 .. n /\ t[k + 1] = Notice /\ k + 1 > 1
    BY <1>2, <1>9
  <2>2. k + 1 = n /\ wr < MaxBytes /\ t[(k + 1) - 1] = NewLine
    BY <2>1 DEF InTurn, n
  <2>3. t[k] = NewLine /\ k = Len(s)
    BY <2>2, <1>1, <1>2
  <2>4. k > 1 => k - 1 \in 1 .. Len(s) /\ s[k - 1] = t[k]
    BY <1>1
  <2>5. QED
    BY <2>2, <2>3, <2>4, <1>1 DEF h
<1>10. QED
  BY <1>1, <1>4, <1>5, <1>6, <1>7, <1>8, <1>9 DEF InTurn, s, h

\* A call whose line has been flushed meanwhile.
LEMMA InTurnFlushed ==
  ASSUME NEW t, NEW done, NEW ln, NEW ln2 \in {ln, <<>>}, NEW wr, InTurn(t, done, ln, wr)
  PROVE  InTurn(t, done, ln2, wr)
  BY DEF InTurn

\* The bytes that are not to log.
LEMMA NotBytes ==
  /\ MaxBytes \in Nat \ {0}
  /\ {NewLine, Return, Notice} \cap (1 .. MaxBytes) = {}
  /\ NewLine \in 0 .. MaxBytes + 2 /\ Return \in 0 .. MaxBytes + 2 /\ Notice \in 0 .. MaxBytes + 2
  /\ NewLine # Notice /\ Return # Notice /\ NewLine # Return
  BY LogAssumption DEF NewLine, Return, Notice

\* A call that begins.
LEMMA CallInTurn ==
  ASSUME written \in Nat, NEW text \in Texts, written + Loud(text) <= MaxBytes,
         NEW done \in SUBSET (1 .. written), NEW ln, NEW wr
  PROVE  /\ Loud(text) \in Nat /\ Stamped(text) \in Seq(Nat)
         /\ Pending(Stamped(text)) = written + 1 .. written + Loud(text)
         /\ InTurn(Stamped(text), done, ln, wr)
         /\ \A k \in 1 .. Len(Stamped(text)) : Stamped(text)[k] # Notice
<1> DEFINE s == Stamped(text)
           n == Loud(text)
<1>1. /\ n \in Nat /\ s \in Seq(Nat)
      /\ \A k \in 1 .. Len(s) : s[k] \in {NewLine, Return} \/ s[k] \in written + 1 .. written + n
      /\ \A j, k \in 1 .. Len(s) : j < k /\ s[j] \in 1 .. MaxBytes /\ s[k] \in 1 .. MaxBytes => s[j] < s[k]
      /\ \A b \in written + 1 .. written + n : \E k \in 1 .. Len(s) : s[k] = b
  BY StampedText
<1>2. written + n <= MaxBytes
  OBVIOUS
<1> HIDE DEF s, n
<1>3. written + 1 .. written + n \subseteq 1 .. MaxBytes
  BY <1>1, <1>2, NotBytes
<1>4. \A k \in 1 .. Len(s) : s[k] # Notice /\ s[k] \in 0 .. MaxBytes + 2
  <2> SUFFICES ASSUME NEW k \in 1 .. Len(s) PROVE s[k] # Notice /\ s[k] \in 0 .. MaxBytes + 2
    OBVIOUS
  <2>1. CASE s[k] \in {NewLine, Return}
    BY <2>1, NotBytes
  <2>2. CASE s[k] \in written + 1 .. written + n
    <3>1. s[k] \in 1 .. MaxBytes
      BY <2>2, <1>3
    <3>2. QED
      BY <3>1, NotBytes
  <2>3. QED
    BY <2>1, <2>2, <1>1
<1>5. Pending(s) = written + 1 .. written + n
  <2>1. ASSUME NEW y \in Pending(s) PROVE y \in written + 1 .. written + n
    <3>1. PICK k \in 1 .. Len(s) : y = s[k]
      BY DEF Pending, TextBytes
    <3>2. y \notin {NewLine, Return}
      BY NotBytes DEF Pending
    <3>3. QED
      BY <3>1, <3>2, <1>1
  <2>2. ASSUME NEW y \in written + 1 .. written + n PROVE y \in Pending(s)
    BY <2>2, <1>1, <1>3 DEF Pending, TextBytes
  <2>3. QED
    BY <2>1, <2>2
<1>6. \A x \in done, y \in Pending(s) : x < y
  BY <1>1, <1>5
<1>7. InTurn(s, done, ln, wr)
  BY <1>1, <1>4, <1>6 DEF InTurn
<1>8. QED
  BY <1>1, <1>4, <1>5, <1>7 DEF s, n

\* A call whose end did not fit: a new line and the notice.
LEMMA TruncatedInTurn ==
  ASSUME NEW s \in Seq(Nat), NEW done, NEW ln, NEW wr, NEW wr2 \in Nat, InTurn(s, done, ln, wr),
         \A k \in 1 .. Len(s) : s[k] # Notice, wr2 < MaxBytes
  PROVE  /\ s \o <<NewLine, Notice>> \in Seq(Nat)
         /\ Pending(s \o <<NewLine, Notice>>) = Pending(s)
         /\ InTurn(s \o <<NewLine, Notice>>, done, ln, wr2)
<1> DEFINE n == Len(s)
           t == s \o <<NewLine, Notice>>
<1>0. NewLine \in Nat /\ Notice \in Nat
  BY NotBytes
<1>1. /\ n \in Nat /\ t \in Seq(Nat) /\ Len(t) = n + 2
      /\ \A k \in 1 .. n : t[k] = s[k]
      /\ t[n + 1] = NewLine /\ t[n + 2] = Notice
  BY <1>0
<1> HIDE DEF n, t
<1>2. \A k \in 1 .. Len(t) : k \in 1 .. n \/ k = n + 1 \/ k = n + 2
  BY <1>1
<1>3. \A k \in 1 .. Len(t) : t[k] \in 1 .. MaxBytes => k \in 1 .. n
  BY <1>1, <1>2, NotBytes
<1>4. \A k \in 1 .. n : k \in 1 .. Len(t)
  BY <1>1
<1>5. Pending(t) = Pending(s)
  BY <1>1, <1>3, <1>4 DEF Pending, TextBytes, n
<1>6. \A k \in 1 .. Len(t) : t[k] \in 0 .. MaxBytes + 2
  BY <1>1, <1>2, NotBytes DEF InTurn, n
<1>7. \A j, k \in 1 .. Len(t) : j < k /\ t[j] \in 1 .. MaxBytes /\ t[k] \in 1 .. MaxBytes => t[j] < t[k]
  BY <1>1, <1>3 DEF InTurn, n
<1>8. ASSUME NEW k \in 1 .. Len(t), t[k] = Notice
      PROVE  k = Len(t) /\ k # 1 /\ (k > 1 => t[k - 1] = NewLine)
  <2>1. k \notin 1 .. n
    BY <1>1, <1>8 DEF n
  <2>2. k # n + 1
    BY <1>1, <1>8, NotBytes
  <2>3. k = n + 2 /\ k - 1 = n + 1
    BY <2>1, <2>2, <1>1, <1>2
  <2>4. QED
    BY <2>3, <1>1
<1>9. \A x \in done, y \in Pending(t) : x < y
  BY <1>5 DEF InTurn
<1>10. QED
  BY <1>1, <1>5, <1>6, <1>7, <1>8, <1>9 DEF InTurn, t

\* A line of the GL loader's, which may stand out of order.
LEMMA SortedSaid ==
  ASSUME NEW log \in Seq(Seq(Nat)), NEW ln \in Seq(Nat), NEW sd, NEW b \in Nat,
         Sorted(log, ln, sd), b \notin TextBytes(ln)
  PROVE  Sorted(Append(log, <<b>>), ln, sd \cup {b})
<1> DEFINE t == <<b>>
           g == Append(log, t)
           n == Len(log)
<1>2. TextBytes(t) = {b} /\ Rising(t) /\ t \in Seq(Nat)
  <2>1. Len(<<b>>) = 1 /\ <<b>>[1] = b /\ <<b>> \in Seq(Nat)
    OBVIOUS
  <2>2. \A a \in 1 .. 1 : a = 1
    OBVIOUS
  <2>3. QED
    BY <2>1, <2>2 DEF TextBytes, Rising
<1> HIDE DEF t
<1>1. n \in Nat /\ Len(g) = n + 1 /\ g[n + 1] = t /\ \A a \in 1 .. n : g[a] = log[a]
  BY <1>2
<1>3. LogBytes(g) = LogBytes(log) \cup {b}
  BY <1>2, LogGrows
<1> HIDE DEF g, n
<1>0. \A i \in 1 .. Len(g) : i = n + 1 \/ (i \in 1 .. n /\ g[i] = log[i])
  BY <1>1
<1>4. ASSUME NEW i \in 1 .. Len(g) PROVE Rising(g[i])
  <2>1. CASE i = n + 1
    BY <2>1, <1>1, <1>2
  <2>2. CASE i \in 1 .. n /\ g[i] = log[i]
    BY <2>2 DEF Sorted, n
  <2>3. QED
    BY <2>1, <2>2, <1>0
<1>5. ASSUME NEW i \in 1 .. Len(g), NEW j \in 1 .. Len(g), i < j,
             NEW x \in TextBytes(g[i]) \ (sd \cup {b}), NEW y \in TextBytes(g[j]) \ (sd \cup {b})
      PROVE  x < y
  <2>1. i \in 1 .. n /\ g[i] = log[i]
    BY <1>1, <1>5
  <2>2. j \in 1 .. n /\ g[j] = log[j]
    <3>1. g[j] # t
      BY <1>2, <1>5
    <3>2. QED
      BY <3>1, <1>0, <1>1
  <2>3. QED
    BY <2>1, <2>2, <1>5 DEF Sorted, n
<1>6. QED
  BY <1>3, <1>4, <1>5 DEF Sorted, g, t

\* A byte stored in the line.
LEMMA SortedStored ==
  ASSUME NEW log, NEW ln \in Seq(Nat), NEW sd, NEW b \in Nat,
         Sorted(log, ln, sd), b \notin sd,
         \A x \in (LogBytes(log) \cup TextBytes(ln)) \ sd : x < b
  PROVE  Sorted(log, Append(ln, b), sd)
<1> DEFINE g == Append(ln, b)
           n == Len(ln)
<1>1. n \in Nat /\ Len(g) = n + 1 /\ g[n + 1] = b /\ \A a \in 1 .. n : g[a] = ln[a]
  OBVIOUS
<1>2. TextBytes(g) = TextBytes(ln) \cup {b}
  BY TextGrows
<1> HIDE DEF g
<1>3. \A a \in 1 .. n : ln[a] < b
  BY DEF Sorted, TextBytes
<1> HIDE DEF n
<1>4. ASSUME NEW i \in 1 .. Len(g), NEW j \in 1 .. Len(g), i < j PROVE g[i] < g[j]
  <2>1. i \in 1 .. n
    BY <1>1, <1>4
  <2>2. CASE j = n + 1
    BY <2>1, <2>2, <1>1, <1>3
  <2>3. CASE j \in 1 .. n
    BY <2>1, <2>3, <1>1, <1>4 DEF Sorted, Rising, n
  <2>4. QED
    BY <2>2, <2>3, <1>1
<1>5. QED
  BY <1>2, <1>4 DEF Sorted, Rising, g

\* With nobody in a call, the log and the line hold everything written.
LEMMA IdleHoldsAll ==
  ASSUME OrderInv, \A w \in Writers : rest[w] = <<>>
  PROVE  /\ LogBytes(klog) \cup TextBytes(line) = 1 .. written
         /\ Done(klog, line, said) \in SUBSET (1 .. written)
<1>1. AllPending(rest) = {}
  BY NothingLeft DEF AllPending
<1>2. QED
  BY <1>1 DEF OrderInv, Done

\* A line that fits, after all of the log.
LEMMA LogsAtEnd ==
  ASSUME NEW log \in Seq(Seq(Nat)), NEW t \in Seq(Nat), NEW sd, NEW wr \in Nat, NEW n \in Nat,
         Len(t) = n, n <= KlogMax, \A k \in 1 .. n : t[k] = wr + k,
         Sorted(log, <<>>, sd), LogBytes(log) = 1 .. wr
  PROVE  /\ Sorted(Klogged(log, t), <<>>, sd)
         /\ LogBytes(Klogged(log, t)) = 1 .. wr + n
<1>1. Klogged(log, t) = Append(log, t)
  BY DEF Klogged, Kept
<1>2. Rising(t)
  BY DEF Rising
<1>3. TextBytes(t) = wr + 1 .. wr + n
  <2>1. ASSUME NEW y \in TextBytes(t) PROVE y \in wr + 1 .. wr + n
    <3>1. PICK k \in 1 .. n : y = t[k]
      BY DEF TextBytes
    <3>2. k \in 1 .. n /\ y = wr + k
      BY <3>1
    <3>3. QED
      BY <3>2
  <2>2. ASSUME NEW y \in wr + 1 .. wr + n PROVE y \in TextBytes(t)
    <3>1. y - wr \in 1 .. n /\ y = wr + (y - wr)
      OBVIOUS
    <3>2. QED
      BY <3>1 DEF TextBytes
  <2>3. QED
    BY <2>1, <2>2
<1>4. Sorted(Append(log, t), <<>>, sd)
  <2>1. \A x \in LogBytes(log) \ sd, y \in TextBytes(t) \ sd : x < y
    BY <1>3
  <2>2. QED
    BY <2>1, <1>2, SortedAppend
<1>5. LogBytes(Append(log, t)) = 1 .. wr + n
  <2>1. LogBytes(Append(log, t)) = LogBytes(log) \cup TextBytes(t)
    BY LogGrows
  <2>2. (1 .. wr) \cup (wr + 1 .. wr + n) = 1 .. wr + n
    OBVIOUS
  <2>3. QED
    BY <2>1, <2>2, <1>3
<1>6. QED
  BY <1>1, <1>4, <1>5

\* A call that begins keeps the order.
LEMMA OrderCall ==
  ASSUME ~mixed', BoundInv, OrderInv, NEW w \in Writers, NEW text \in Texts,
         Write(w, text) \/ WriteTruncated(w, text)
  PROVE  OrderInv'
<1> DEFINE s == Stamped(text)
           done == Done(klog, line, said)
           m == written + Loud(text)
<1>1. /\ \A v \in Writers : pc[v] = "idle" /\ rest[v] = <<>>
      /\ pc' = [pc EXCEPT ![w] = "byte"]
      /\ line' = line /\ klog' = klog /\ said' = said
      /\ written' = m
  <2>1. Begins(w)
    BY DEF Write, WriteTruncated
  <2>2. QED
    BY <2>1, AllIdle DEF Write, WriteTruncated
<1>2. LogBytes(klog) \cup TextBytes(line) = 1 .. written /\ done \in SUBSET (1 .. written)
  BY <1>1, IdleHoldsAll
<1>3. /\ written \in Nat /\ rest \in [Writers -> Seq(Nat)] /\ pc \in [Writers -> {"idle", "byte", "store"}]
  BY DEF BoundInv, LogTypeOK
<1>4. PICK t \in Seq(Nat) : /\ rest' = [rest EXCEPT ![w] = t]
                            /\ Pending(t) = written + 1 .. m
                            /\ InTurn(t, done, line, m)
                            /\ Loud(text) \in Nat /\ m <= MaxBytes
  <2>1. CASE Write(w, text)
    <3>1. m <= MaxBytes /\ rest' = [rest EXCEPT ![w] = s]
      BY <2>1 DEF Write
    <3>2. /\ Loud(text) \in Nat /\ s \in Seq(Nat)
          /\ Pending(s) = written + 1 .. m
          /\ InTurn(s, done, line, m)
      BY <3>1, <1>2, <1>3, CallInTurn
    <3>3. QED
      BY <3>1, <3>2
  <2>2. CASE WriteTruncated(w, text)
    <3>1. /\ rest' = [rest EXCEPT ![w] = s \o <<NewLine, Notice>>]
          /\ Loud(text) + 1 = LineMax /\ written + LineMax <= MaxBytes
      BY <2>2 DEF WriteTruncated
    <3>2. Loud(text) \in Nat
      <4>1. text \in Seq({Letter, NewLine, Return}) /\ {Letter, NewLine, Return} \subseteq Nat
        BY LogAssumption DEF Letter, NewLine, Return
      <4>2. text \in Seq(Nat) /\ Len(text) \in 0 .. Len(text)
        BY <4>1
      <4>3. QED
        BY <4>2, LettersCount DEF Loud
    <3>3. m \in Nat /\ m < MaxBytes
      <4>1. LineMax \in Nat /\ MaxBytes \in Nat
        BY LogAssumption
      <4>2. QED
        BY <4>1, <3>1, <3>2, <1>3
    <3>4. m <= MaxBytes
      BY <3>3, NotBytes
    <3>5. /\ s \in Seq(Nat)
          /\ Pending(s) = written + 1 .. m
          /\ InTurn(s, done, line, m)
          /\ \A k \in 1 .. Len(s) : s[k] # Notice
      BY <3>4, <1>2, <1>3, CallInTurn
    <3> HIDE DEF s, m, done
    <3>6. /\ s \o <<NewLine, Notice>> \in Seq(Nat)
          /\ Pending(s \o <<NewLine, Notice>>) = Pending(s)
          /\ InTurn(s \o <<NewLine, Notice>>, done, line, m)
      BY <3>3, <3>5, TruncatedInTurn
    <3>7. QED
      BY <3>1, <3>2, <3>4, <3>5, <3>6
  <2>3. QED
    BY <2>1, <2>2
<1> HIDE DEF s, m, done
<1>5. rest'[w] = t /\ \A v \in Writers \ {w} : rest'[v] = <<>>
  BY <1>1, <1>3, <1>4
<1>6. AllPending(rest') = written + 1 .. m
  BY <1>4, <1>5, OnePending
<1>7. m \in Nat /\ written <= m
  BY <1>3, <1>4 DEF m
<1>8. LogBytes(klog) \cup TextBytes(line) \cup AllPending(rest') = 1 .. m
  BY <1>2, <1>3, <1>6, <1>7
<1>9. said \subseteq 1 .. written
  BY DEF OrderInv
<1>10. said \subseteq 1 .. m /\ AllPending(rest') \cap said = {}
  BY <1>3, <1>6, <1>7, <1>9
<1>11. \A v \in Writers : InTurn(rest'[v], done, line, m)
  BY <1>4, <1>5, NothingLeft
<1>12. \A v \in Writers : pc'[v] # "store"
  BY <1>1, <1>3
<1>13. QED
  BY <1>1, <1>4, <1>8, <1>10, <1>11, <1>12 DEF OrderInv, done

\* Until calls have overlapped, only the thread in a call has bytes left.
LEMMA OnlyCaller ==
  ASSUME ~mixed, BoundInv, NEW w \in Writers, pc[w] # "idle"
  PROVE  \A v \in Writers \ {w} : pc[v] = "idle" /\ rest[v] = <<>>
  BY DEF BoundInv, Turns

\* A call goes one byte on.
LEMMA OrderTail ==
  ASSUME ~mixed, BoundInv, OrderInv, NEW w \in Writers, pc[w] # "idle", rest[w] # <<>>,
         rest' = [rest EXCEPT ![w] = Tail(@)], \A v \in Writers : pc'[v] # "store",
         written' = written, said' = said,
         LogBytes(klog') \cup TextBytes(line')
           = LogBytes(klog) \cup TextBytes(line) \cup ({Head(rest[w])} \cap (1 .. MaxBytes)),
         Sorted(klog', line', said),
         Head(rest[w]) = NewLine => line' = <<>>
  PROVE  OrderInv'
<1> DEFINE t == rest[w]
           done == Done(klog, line, said)
           done2 == Done(klog', line', said)
<1>1. t \in Seq(Nat) /\ rest \in [Writers -> Seq(Nat)] /\ t # <<>>
  BY DEF BoundInv, LogTypeOK
<1>2. InTurn(t, done, line, written)
  BY DEF OrderInv
<1>3. done2 \subseteq done \cup ({Head(t)} \cap (1 .. MaxBytes))
  BY DEF Done
<1>4. Head(t) = NewLine => line' = <<>>
  OBVIOUS
<1>5. rest'[w] = Tail(t) /\ \A v \in Writers \ {w} : rest'[v] = <<>> /\ rest[v] = <<>>
  BY <1>1, OnlyCaller
<1>6. AllPending(rest) = Pending(t) /\ AllPending(rest') = Pending(Tail(t))
  <2>1. AllPending(rest) = Pending(rest[w])
    BY <1>5, OnePending
  <2>2. AllPending(rest') = Pending(rest'[w])
    BY <1>5, OnePending
  <2>3. QED
    BY <2>1, <2>2, <1>5
<1> HIDE DEF t, done, done2
<1>7. /\ Pending(t) = Pending(Tail(t)) \cup ({Head(t)} \cap (1 .. MaxBytes))
      /\ InTurn(Tail(t), done2, line', written)
  BY <1>1, <1>2, <1>3, <1>4, TailInTurn
<1>8. LogBytes(klog') \cup TextBytes(line') \cup AllPending(rest') = 1 .. written
  <2>1. LogBytes(klog) \cup TextBytes(line) \cup AllPending(rest) = 1 .. written
    BY DEF OrderInv
  <2>2. QED
    BY <2>1, <1>6, <1>7 DEF t
<1>9. AllPending(rest') \cap said = {}
  BY <1>6, <1>7 DEF OrderInv
<1>10. ASSUME NEW v \in Writers PROVE InTurn(rest'[v], done2, line', written)
  <2>1. InTurn(<<>>, done2, line', written)
    BY NothingLeft, Zenon
  <2>2. CASE v = w
    BY <2>2, <1>5, <1>7
  <2>3. CASE v # w
    BY <2>1, <2>3, <1>5
  <2>4. QED
    BY <2>2, <2>3
<1>11. QED
  BY <1>8, <1>9, <1>10 DEF OrderInv, done2

\* The order, step by step: the steps of a call.
LEMMA OrderAppend ==
  ASSUME ~mixed, BoundInv, OrderInv, NEW w \in Writers,
         AppendNewLine(w) \/ AppendReturn(w) \/ AppendStore(w)
  PROVE  OrderInv'
<1>1. /\ klog \in Seq(Seq(Nat)) /\ line \in Seq(Nat) /\ rest[w] \in Seq(Nat)
      /\ pc \in [Writers -> {"idle", "byte", "store"}] /\ rest \in [Writers -> Seq(Nat)]
  BY DEF BoundInv, LogTypeOK
<1>2. Sorted(klog, line, said)
  BY DEF OrderInv
<1>3. CASE AppendNewLine(w)
  <2>1. /\ pc[w] = "byte" /\ rest[w] # <<>> /\ rest' = [rest EXCEPT ![w] = Tail(@)]
        /\ klog' = Flushed /\ line' = <<>> /\ pc' = pc /\ written' = written /\ said' = said
        /\ Head(rest[w]) \notin 1 .. MaxBytes
    BY <1>3, NotBytes DEF AppendNewLine, LineFlush
  <2>2. \A v \in Writers : pc'[v] # "store"
    BY <2>1, OnlyCaller
  <2>3. LogBytes(klog') \cup TextBytes(line') = LogBytes(klog) \cup TextBytes(line)
    BY <2>1, <1>1, <1>2, FlushSorted, NoText
  <2>4. Sorted(klog', line', said)
    BY <2>1, <1>1, <1>2, FlushSorted
  <2>5. QED
    BY <2>1, <2>2, <2>3, <2>4, OrderTail
<1>4. CASE AppendReturn(w)
  <2>1. /\ pc[w] = "byte" /\ rest[w] # <<>> /\ rest' = [rest EXCEPT ![w] = Tail(@)]
        /\ klog' = klog /\ line' = line /\ pc' = pc /\ written' = written /\ said' = said
        /\ Head(rest[w]) \notin 1 .. MaxBytes /\ Head(rest[w]) # NewLine
    BY <1>4, NotBytes DEF AppendReturn
  <2>2. \A v \in Writers : pc'[v] # "store"
    BY <2>1, OnlyCaller
  <2>3. QED
    BY <2>1, <2>2, <1>2, OrderTail
<1>5. CASE AppendStore(w)
  <2> DEFINE b == Head(rest[w])
  <2>1. /\ pc[w] = "store" /\ rest[w] # <<>> /\ rest' = [rest EXCEPT ![w] = Tail(@)]
        /\ klog' = klog /\ line' = Append(line, b) /\ pc' = [pc EXCEPT ![w] = "byte"]
        /\ written' = written /\ said' = said
        /\ b \in 1 .. MaxBytes
    BY <1>5 DEF AppendStore, OrderInv, BoundInv, Turns
  <2>2. \A v \in Writers : pc'[v] # "store"
    BY <2>1, <1>1, OnlyCaller
  <2>3. b \in Pending(rest[w])
    <3>1. 1 \in 1 .. Len(rest[w]) /\ b = rest[w][1]
      BY <2>1, <1>1
    <3>2. QED
      BY <3>1, <2>1 DEF Pending, TextBytes
  <2>4. b \in AllPending(rest)
    BY <2>3 DEF AllPending
  <2>5. b \notin said
    BY <2>4 DEF OrderInv
  <2>6. \A x \in (LogBytes(klog) \cup TextBytes(line)) \ said : x < b
    BY <2>3 DEF OrderInv, InTurn, Done
  <2>7. b \in Nat /\ b # NewLine
    BY <2>1, NotBytes
  <2> HIDE DEF b
  <2>8. Sorted(klog', line', said)
    BY <2>1, <2>5, <2>6, <2>7, <1>1, <1>2, SortedStored
  <2>9. LogBytes(klog') \cup TextBytes(line')
          = LogBytes(klog) \cup TextBytes(line) \cup ({b} \cap (1 .. MaxBytes))
    BY <2>1, <2>7, <1>1, TextGrows
  <2>10. QED
    BY <2>1, <2>2, <2>7, <2>8, <2>9, OrderTail DEF b
<1>6. QED
  BY <1>3, <1>4, <1>5

\* The notice comes after everything, on a line of its own.
LEMMA OrderNotice ==
  ASSUME ~mixed, BoundInv, OrderInv, NEW w \in Writers, AppendNotice(w)
  PROVE  OrderInv'
<1>1. /\ klog \in Seq(Seq(Nat)) /\ line \in Seq(Nat) /\ rest[w] \in Seq(Nat) /\ written \in Nat
      /\ pc \in [Writers -> {"idle", "byte", "store"}] /\ rest \in [Writers -> Seq(Nat)]
  BY DEF BoundInv, LogTypeOK
<1> DEFINE one == <<written + 1>>
           n == 1
<1>2. /\ pc[w] = "byte" /\ rest[w] # <<>> /\ rest' = [rest EXCEPT ![w] = Tail(@)]
      /\ klog' = Klogged(klog, one) /\ line' = line /\ pc' = pc
      /\ written' = written + 1 /\ said' = said
      /\ Head(rest[w]) = Notice
  BY DEF AppendNotice
<1>3. 1 \in 1 .. Len(rest[w]) /\ rest[w][1] = Notice
  BY <1>1, <1>2
<1>4. Len(rest[w]) = 1 /\ written < MaxBytes /\ line = <<>>
  BY <1>3 DEF OrderInv, InTurn
<1>5. Tail(rest[w]) = <<>>
  BY <1>1, <1>2, <1>4
<1>6. \A v \in Writers : rest'[v] = <<>>
  BY <1>1, <1>2, <1>5, OnlyCaller
<1>7. AllPending(rest') = {}
  BY <1>6, NothingLeft DEF AllPending
<1>8. AllPending(rest) = {}
  <2>1. \A v \in Writers \ {w} : rest[v] = <<>>
    BY <1>2, OnlyCaller
  <2>2. AllPending(rest) = Pending(rest[w])
    BY <2>1, OnePending
  <2>3. TextBytes(rest[w]) = {Notice}
    <3>1. \A k \in 1 .. 1 : k = 1
      OBVIOUS
    <3>2. QED
      BY <3>1, <1>3, <1>4 DEF TextBytes
  <2>4. QED
    BY <2>2, <2>3, NotBytes DEF Pending
<1>9. LogBytes(klog) = 1 .. written
  BY <1>4, <1>8, NoText DEF OrderInv
<1>10. /\ one \in Seq(Nat) /\ Len(one) = n /\ n \in Nat /\ n <= KlogMax
       /\ \A k \in 1 .. n : one[k] = written + k
  BY <1>1, LogAssumption
<1>11. Sorted(klog, <<>>, said)
  BY <1>4 DEF OrderInv
<1> HIDE DEF one, n
<1>12. Sorted(Klogged(klog, one), <<>>, said) /\ LogBytes(Klogged(klog, one)) = 1 .. written + 1
  <2>1. Sorted(Klogged(klog, one), <<>>, said) /\ LogBytes(Klogged(klog, one)) = 1 .. written + n
    BY <1>1, <1>9, <1>10, <1>11, LogsAtEnd
  <2>2. QED
    BY <2>1 DEF n
<1>13. Sorted(klog', line', said)
  BY <1>2, <1>4, <1>12
<1>14. LogBytes(klog') \cup TextBytes(line') \cup AllPending(rest') = 1 .. written + 1
  BY <1>2, <1>4, <1>7, <1>12, NoText
<1>15. said \subseteq 1 .. written + 1
  BY <1>1 DEF OrderInv
<1>16. written + 1 <= MaxBytes
  BY <1>1, <1>4, NotBytes
<1>17. \A v \in Writers : pc'[v] # "store"
  BY <1>2, OnlyCaller
<1>18. InTurn(<<>>, Done(klog', line', said'), line', written')
  BY NothingLeft, Zenon
<1>19. \A v \in Writers : InTurn(rest'[v], Done(klog', line', said'), line', written')
  BY <1>6, <1>18
<1>20. AllPending(rest') \cap said' = {}
  BY <1>7
<1>21. QED
  BY <1>2, <1>13, <1>14, <1>15, <1>16, <1>17, <1>19, <1>20 DEF OrderInv

\* Room made for a byte.
LEMMA OrderTest ==
  ASSUME ~mixed, BoundInv, OrderInv, NEW w \in Writers, AppendTest(w)
  PROVE  OrderInv'
<1>1. /\ klog \in Seq(Seq(Nat)) /\ line \in Seq(Nat) /\ rest[w] \in Seq(Nat)
      /\ pc \in [Writers -> {"idle", "byte", "store"}]
  BY DEF BoundInv, LogTypeOK
<1>2. /\ rest' = rest /\ written' = written /\ said' = said /\ rest[w] # <<>> /\ pc[w] = "byte"
      /\ pc' = [pc EXCEPT ![w] = "store"]
      /\ (klog' = klog /\ line' = line) \/ (klog' = Flushed /\ line' = <<>>)
      /\ Head(rest[w]) \notin {NewLine, Return, Notice}
  BY DEF AppendTest, MakeRoom, LineFlush
<1>3. Head(rest[w]) \in 1 .. MaxBytes
  <2>1. 1 \in 1 .. Len(rest[w]) /\ rest[w][1] = Head(rest[w])
    BY <1>1, <1>2
  <2>2. Head(rest[w]) \in 0 .. MaxBytes + 2
    BY <2>1 DEF OrderInv, InTurn
  <2>3. QED
    BY <2>2, <1>2, NotBytes DEF NewLine, Return, Notice
<1>4. Sorted(klog, line, said)
  BY DEF OrderInv
<1>5. /\ Sorted(klog', line', said) /\ line' \in {line, <<>>}
      /\ LogBytes(klog') \cup TextBytes(line') = LogBytes(klog) \cup TextBytes(line)
  <2>1. CASE klog' = klog /\ line' = line
    BY <2>1, <1>4
  <2>2. CASE klog' = Flushed /\ line' = <<>>
    BY <2>2, <1>1, <1>4, FlushSorted, NoText
  <2>3. QED
    BY <2>1, <2>2, <1>2
<1>6. Done(klog', line', said) = Done(klog, line, said)
  BY <1>5 DEF Done
<1>7. \A v \in Writers : InTurn(rest[v], Done(klog, line, said), line', written)
  BY <1>5, InTurnFlushed DEF OrderInv
<1>8. \A v \in Writers : pc'[v] = "store" => v = w
  BY <1>1, <1>2, OnlyCaller
<1>9. QED
  BY <1>2, <1>3, <1>5, <1>6, <1>7, <1>8 DEF OrderInv

\* A step that leaves nobody in a call.
LEMMA OrderIdle ==
  ASSUME \A v \in Writers : rest'[v] = <<>> /\ pc'[v] = "idle",
         Sorted(klog', line', said'), said' \subseteq 1 .. written',
         LogBytes(klog') \cup TextBytes(line') = 1 .. written', written' <= MaxBytes
  PROVE  OrderInv'
<1>1. AllPending(rest') = {}
  BY NothingLeft DEF AllPending
<1>2. InTurn(<<>>, Done(klog', line', said'), line', written')
  BY NothingLeft, Zenon
<1>3. \A v \in Writers : InTurn(rest'[v], Done(klog', line', said'), line', written')
  BY <1>2
<1>4. QED
  BY <1>1, <1>3 DEF OrderInv

\* The winsys' line goes after the partial line.
LEMMA OrderVlog ==
  ASSUME ~mixed', BoundInv, OrderInv, Lengths \subseteq 0 .. KlogMax,
         NEW w \in Writers, NEW n \in Lengths, WinsysVlog(w, n)
  PROVE  OrderInv'
<1> DEFINE t == Moments(n)
           f == Flushed
<1>1. /\ klog \in Seq(Seq(Nat)) /\ line \in Seq(Nat) /\ written \in Nat
      /\ n \in Nat /\ n <= KlogMax
  BY LogAssumption DEF BoundInv, LogTypeOK
<1>2. \A v \in Writers : pc[v] = "idle" /\ rest[v] = <<>>
  BY AllIdle DEF WinsysVlog
<1>3. /\ klog' = Klogged(f, t) /\ line' = <<>> /\ written' = written + n
      /\ rest' = rest /\ pc' = pc /\ said' = said /\ written + n <= MaxBytes
  BY DEF WinsysVlog
<1>4. LogBytes(klog) \cup TextBytes(line) = 1 .. written
  BY <1>2, IdleHoldsAll
<1>5. Sorted(klog, line, said) /\ said \subseteq 1 .. written
  BY DEF OrderInv
<1>6. f \in Seq(Seq(Nat)) /\ LogBytes(f) = 1 .. written /\ Sorted(f, <<>>, said)
  BY <1>1, <1>4, <1>5, FlushSorted
<1>7. t \in Seq(Nat) /\ Len(t) = n /\ \A k \in 1 .. n : t[k] = written + k
  BY <1>1, MomentsType
<1> HIDE DEF t, f
<1>8. Sorted(Klogged(f, t), <<>>, said) /\ LogBytes(Klogged(f, t)) = 1 .. written + n
  BY <1>1, <1>6, <1>7, LogsAtEnd
<1>9. said \subseteq 1 .. written + n
  BY <1>1, <1>5
<1>10. LogBytes(klog') \cup TextBytes(line') = 1 .. written'
  BY <1>3, <1>8, NoText
<1>11. QED
  BY <1>2, <1>3, <1>8, <1>9, <1>10, OrderIdle

\* The GL loader's line overtakes the partial line, and is known for it.
LEMMA OrderSay ==
  ASSUME ~mixed', BoundInv, OrderInv, NEW w \in Writers, Say(w)
  PROVE  OrderInv'
<1> DEFINE b == written + 1
<1>1. /\ klog \in Seq(Seq(Nat)) /\ line \in Seq(Nat) /\ written \in Nat /\ MaxBytes \in Nat
      /\ <<b>> \in Seq(Nat) /\ b \in Nat
  BY LogAssumption DEF BoundInv, LogTypeOK
<1>2. \A v \in Writers : pc[v] = "idle" /\ rest[v] = <<>>
  BY AllIdle DEF Say
<1>3. Klogged(klog, Moments(1)) = Append(klog, <<b>>)
  <2>1. Moments(1) = <<b>>
    BY DEF Moments
  <2>2. Len(<<b>>) = 1 /\ 1 <= KlogMax
    BY LogAssumption
  <2>3. QED
    BY <2>1, <2>2 DEF Klogged, Kept
<1>4. /\ klog' = Append(klog, <<b>>) /\ line' = line /\ written' = b
      /\ rest' = rest /\ pc' = pc /\ said' = said \cup {b} /\ b <= MaxBytes
  BY <1>1, <1>3 DEF Say
<1>5. LogBytes(klog) \cup TextBytes(line) = 1 .. written
  BY <1>2, IdleHoldsAll
<1>6. Sorted(klog, line, said) /\ said \subseteq 1 .. written
  BY DEF OrderInv
<1>7. b \notin 1 .. written /\ (1 .. written) \cup {b} = 1 .. b
  BY <1>1
<1>8. TextBytes(<<b>>) = {b}
  <2>1. Len(<<b>>) = 1 /\ <<b>>[1] = b
    OBVIOUS
  <2>2. \A a \in 1 .. 1 : a = 1
    OBVIOUS
  <2>3. QED
    BY <2>1, <2>2 DEF TextBytes
<1> HIDE DEF b
<1>9. Sorted(Append(klog, <<b>>), line, said \cup {b})
  <2>1. b \notin TextBytes(line)
    BY <1>5, <1>7
  <2>2. QED
    BY <2>1, <1>1, <1>6, SortedSaid
<1>10. LogBytes(Append(klog, <<b>>)) = LogBytes(klog) \cup {b}
  BY <1>1, <1>8, LogGrows
<1>11. LogBytes(klog') \cup TextBytes(line') = 1 .. written'
  BY <1>4, <1>5, <1>7, <1>10
<1>12. Sorted(klog', line', said') /\ said' \subseteq 1 .. written' /\ written' <= MaxBytes
  BY <1>4, <1>6, <1>7, <1>9
<1>13. QED
  BY <1>2, <1>4, <1>11, <1>12, OrderIdle

\* The order, step by step.
LEMMA OrderStep ==
  ASSUME Lengths \subseteq 0 .. KlogMax, BoundInv, ~mixed => OrderInv, ~mixed', [Next]_vars
  PROVE  OrderInv'
<1>1. ~mixed
  <2>1. ASSUME NEW w \in Writers, Begins(w) PROVE ~mixed
    BY <2>1, AllIdle
  <2>2. QED
    BY <2>1 DEF Next, vars, Write, WriteTruncated, WinsysVlog, Say, Finished, AppendNewLine,
                AppendReturn, AppendNotice, AppendTest, AppendStore
<1>2. OrderInv
  BY <1>1
<1>3. ASSUME NEW w \in Writers, Finished(w) PROVE OrderInv'
  <2>1. /\ UNCHANGED <<line, klog, rest, written, said>>
        /\ \A v \in Writers : pc'[v] = "store" => pc[v] = "store"
    BY <1>3 DEF Finished, BoundInv, LogTypeOK
  <2>2. QED
    BY <2>1, <1>2 DEF OrderInv
<1>4. CASE UNCHANGED vars
  BY <1>2, <1>4 DEF vars, OrderInv
<1>5. QED
  BY <1>1, <1>2, <1>3, <1>4, OrderCall, OrderAppend, OrderNotice, OrderTest, OrderVlog, OrderSay
  DEF Next

\* Before anything is written.
LEMMA OrderStart == Init => OrderInv
<1> SUFFICES ASSUME Init PROVE OrderInv
  OBVIOUS
<1>1. line = <<>> /\ klog = <<>> /\ written = 0 /\ said = {} /\ \A w \in Writers : rest[w] = <<>> /\ pc[w] = "idle"
  BY DEF Init
<1>2. AllPending(rest) = {}
  BY <1>1, NothingLeft DEF AllPending
<1>3. Len(<<>>) = 0 /\ 1 .. 0 = {} /\ MaxBytes \in Nat
  BY LogAssumption
<1>4. LogBytes(klog) = {}
  BY <1>1, <1>3 DEF LogBytes
<1>5. Sorted(klog, line, said)
  BY <1>1, <1>3, <1>4, NoText DEF Sorted
<1>6. \A w \in Writers : InTurn(rest[w], Done(klog, line, said), line, written)
  BY <1>1, NothingLeft
<1>7. QED
  BY <1>1, <1>2, <1>3, <1>4, <1>5, <1>6, NoText DEF OrderInv

\* Between calls the invariant says what the property says.
LEMMA OrderMeans == BoundInv /\ (~mixed => OrderInv) => LogKeepsOrder
<1> SUFFICES ASSUME BoundInv, OrderInv, \A w \in Writers : pc[w] = "idle"
             PROVE  Ordered /\ Logged = 1 .. written
  BY DEF LogKeepsOrder
<1>1. \A w \in Writers : rest[w] = <<>>
  BY DEF BoundInv, Turns
<1>2. LogBytes(klog) \cup TextBytes(line) = 1 .. written
  BY <1>1, IdleHoldsAll
<1>3. klog \in Seq(Seq(Nat)) /\ line \in Seq(Nat)
  BY DEF BoundInv, LogTypeOK
<1>4. Logged = 1 .. written
  BY <1>2, <1>3, LogGrows DEF Logged, Lines, LogBytes, TextBytes
<1> DEFINE n == Len(klog)
<1>5. /\ n \in Nat /\ Len(Lines) = n + 1 /\ Lines[n + 1] = line
      /\ \A i \in 1 .. n : Lines[i] = klog[i]
  BY <1>3 DEF Lines
<1>6. Sorted(klog, line, said)
  BY DEF OrderInv
<1> HIDE DEF n
<1>7. ASSUME NEW i \in 1 .. Len(Lines), NEW j \in 1 .. Len(Lines),
             NEW a \in 1 .. Len(Lines[i]), NEW b \in 1 .. Len(Lines[j]),
             Before(i, a, j, b), said \cap {Lines[i][a], Lines[j][b]} = {}
      PROVE  Lines[i][a] < Lines[j][b]
  <2>1. Lines[i][a] \in TextBytes(Lines[i]) \ said /\ Lines[j][b] \in TextBytes(Lines[j]) \ said
    BY <1>7 DEF TextBytes
  <2>2. i \in 1 .. n \/ i = n + 1
    BY <1>5
  <2>3. j \in 1 .. n \/ j = n + 1
    BY <1>5
  <2>4. CASE i = j
    <3>1. Rising(Lines[i])
      BY <2>2, <1>5, <1>6 DEF Sorted, n
    <3>2. a < b
      BY <2>4, <1>5, <1>7 DEF Before
    <3>3. QED
      BY <3>1, <3>2, <2>4 DEF Rising
  <2>5. CASE i # j
    <3>1. i < j
      BY <2>5, <1>7 DEF Before
    <3>2. i \in 1 .. n /\ Lines[i] = klog[i]
      BY <3>1, <2>2, <2>3, <1>5
    <3>3. CASE j \in 1 .. n
      BY <3>1, <3>2, <3>3, <2>1, <1>5, <1>6 DEF Sorted, n
    <3>4. CASE j = n + 1
      <4>1. Lines[i][a] \in LogBytes(klog) \ said /\ Lines[j][b] \in TextBytes(line)
        BY <3>2, <3>4, <2>1, <1>5 DEF LogBytes, n
      <4>2. QED
        BY <4>1, <1>6 DEF Sorted
    <3>5. QED
      BY <3>3, <3>4, <2>3
  <2>6. QED
    BY <2>4, <2>5
<1>8. QED
  BY <1>4, <1>7 DEF Ordered

\* For a winsys whose lines the system log takes, and as long as calls have not overlapped:
\* the log holds all that was written, and reads in the order it was written in but for
\* the loader's lines.
THEOREM LogStaysInOrder == Lengths \subseteq 0 .. KlogMax => (Spec => []LogKeepsOrder)
<1> SUFFICES ASSUME Lengths \subseteq 0 .. KlogMax PROVE Spec => []LogKeepsOrder
  OBVIOUS
<1> DEFINE I == BoundInv /\ (~mixed => OrderInv)
<1>1. I /\ [Next]_vars => I'
  BY BoundStep, OrderStep
<1>2. Init => I
  BY BoundStart, OrderStart
<1>3. I => LogKeepsOrder
  BY OrderMeans
<1> HIDE DEF I
<1>4. QED
  BY <1>1, <1>2, <1>3, PTL DEF Spec

----------------------------------------------------------------------------
\* Progress marks.

Steps == {"off", "note", "feed", "wait"}

\* The host is at a buffer of the submission, and has handed over none that it has not
\* noted; the command processor has run no packet of a buffer it was not handed.
Positions ==
  /\ stream \in Seq(Seq(Packet)) /\ left \in Seq(Seq(Packet))
  /\ step \in Steps
  /\ ib \in Nat \ {0} /\ look \in Nat /\ fed \in Nat
  /\ fed <= Len(stream) /\ fed <= ib
  /\ step \in {"note", "feed"} => ib <= Len(stream) /\ fed < ib
  /\ ran \in [1 .. Len(stream) -> Nat]
  /\ \A b \in 1 .. Len(stream) : ran[b] > 0 => b <= fed

\* What the memory and the writes on their way to it may be.
MemoryTypeOK ==
  /\ mem \in [Vas -> Values]
  /\ flight \in [Vas -> [Values -> Nat]]

Mark == [kind : Noted, va : Vas, ref : Values, ib : Nat, at : Nat, cpu : BOOLEAN, before : Values]

PacketOf(m) == stream[m.ib][m.at]

\* Where a mark comes from: a packet the walk has passed.
FromPacket(m) ==
  /\ m.ib \in 1 .. Len(stream) /\ m.at \in 1 .. Len(stream[m.ib])
  /\ PacketOf(m).kind \in Noted /\ m.va = PacketOf(m).va /\ m.ref = PacketOf(m).ref
  /\ m.ib < ib \/ (m.ib = ib /\ m.at <= look)

\* What the memory, and what is on its way there, say of a mark that is alone at its
\* address: only its packet writes, and once it has, what it writes is on its way or there.
Tells(m) ==
  LET p == PacketOf(m)
  IN  m.cpu /\ OnlyOne(m) /\ m.va \notin crossed =>
        /\ ~LeftTo(m.va)
        /\ \A v \in Values : flight[m.va][v] > 0 => Reached(m) /\ v \in Effects(p)
        /\ mem[m.va] = m.before \/ (Reached(m) /\ mem[m.va] \in Effects(p))
        /\ Reached(m) /\ p.kind \in Writing => InFlight(m.va) \/ mem[m.va] \in Effects(p)
        /\ p.kind \in Sampled => m.before = Poison

\* MarksTell is about the marks there are; that a mark is of a packet the walk has passed
\* in a buffer the processor did not have then is what the next step needs.
MarksInv ==
  /\ Positions /\ MemoryTypeOK
  /\ marks \in Seq(Mark)
  /\ \A k \in 1 .. Len(marks) : FromPacket(marks[k]) /\ Tells(marks[k])

\* The kinds of packet are distinct.
LEMMA Kinds ==
  /\ "X" \notin Noted /\ "X" \notin Writing /\ "N" \notin Noted
  /\ Sampled \subseteq Writing /\ Written \subseteq Writing /\ Sampled \cap Written = {}
  BY DEF Noted, Writing, Sampled, Written, Polled

\* The invariant says what the marks tell.
LEMMA MarksMean == MarksInv => MarksTell
<1> SUFFICES ASSUME MarksInv, NEW k \in 1 .. Len(marks),
                    marks[k].cpu, OnlyOne(marks[k]), marks[k].va \notin crossed
             PROVE  LET m == marks[k]
                        kind == stream[m.ib][m.at].kind
                    IN  /\ Changed(m) => Reached(m)
                        /\ Reached(m) /\ ~InFlight(m.va) =>
                             /\ kind \in Sampled => Changed(m)
                             /\ kind \in Written => mem[m.va] = m.ref
  BY DEF MarksTell
<1> DEFINE m == marks[k]
           p == PacketOf(m)
<1>1. FromPacket(m) /\ Tells(m) /\ m \in Mark
  BY DEF MarksInv
<1> HIDE DEF m
<1>2. m.cpu /\ OnlyOne(m) /\ m.va \notin crossed
  BY DEF m
<1>3. /\ mem[m.va] = m.before \/ (Reached(m) /\ mem[m.va] \in Effects(p))
      /\ Reached(m) /\ p.kind \in Writing => InFlight(m.va) \/ mem[m.va] \in Effects(p)
      /\ p.kind \in Sampled => m.before = Poison
  BY <1>1, <1>2 DEF Tells
<1>4. Changed(m) => Reached(m)
  BY <1>3 DEF Changed
<1>5. ASSUME Reached(m), ~InFlight(m.va), p.kind \in Sampled PROVE Changed(m)
  <2>1. mem[m.va] \in Effects(p)
    BY <1>3, <1>5, Kinds
  <2>2. mem[m.va] # Poison
    BY <2>1, <1>5, Kinds DEF Effects, Sampled, Written
  <2>3. QED
    BY <2>2, <1>3, <1>5 DEF Changed
<1>6. ASSUME Reached(m), ~InFlight(m.va), p.kind \in Written PROVE mem[m.va] = m.ref
  <2>1. mem[m.va] \in Effects(p)
    BY <1>3, <1>6, Kinds
  <2>2. mem[m.va] = p.ref
    BY <2>1, <1>6 DEF Effects, Sampled, Written
  <2>3. QED
    BY <2>2, <1>1 DEF FromPacket
<1>7. QED
  BY <1>4, <1>5, <1>6 DEF m, PacketOf

\* A packet of the submission.
LEMMA PacketType ==
  ASSUME Positions, NEW b \in 1 .. Len(stream), NEW k \in 1 .. Len(stream[b])
  PROVE  stream[b] \in Seq(Packet) /\ stream[b][k] \in Packet /\ stream[b][k].va \in Vas
<1>1. stream[b] \in Seq(Packet)
  BY DEF Positions
<1>2. stream[b][k] \in Packet
  BY <1>1
<1>3. QED
  BY <1>1, <1>2, SMT DEF Packet

\* What keeps a mark telling: its address and what is on its way there are left alone, and
\* its packet is where it was.
LEMMA TellsKept ==
  ASSUME NEW m, Tells(m), stream' = stream, crossed \subseteq crossed',
         mem'[m.va] = mem[m.va], flight'[m.va] = flight[m.va],
         LeftTo(m.va)' => LeftTo(m.va), Reached(m)' <=> Reached(m)
  PROVE  Tells(m)'
<1>1. OnlyOne(m)' <=> OnlyOne(m)
  BY DEF OnlyOne
<1>2. PacketOf(m)' = PacketOf(m)
  BY DEF PacketOf
<1>3. InFlight(m.va)' <=> InFlight(m.va)
  BY DEF InFlight
<1>4. QED
  BY <1>1, <1>2, <1>3 DEF Tells

\* Steps that do not move the walk back keep the invariant where every mark goes on telling.
LEMMA MarksKept ==
  ASSUME MarksInv, Positions', MemoryTypeOK', marks' = marks, stream' = stream,
         (ib' = ib /\ look <= look') \/ ib < ib',
         \A k \in 1 .. Len(marks) : Tells(marks[k])'
  PROVE  MarksInv'
<1>1. ASSUME NEW k \in 1 .. Len(marks) PROVE FromPacket(marks[k])'
  <2>1. FromPacket(marks[k]) /\ marks[k] \in Mark
    BY DEF MarksInv
  <2>2. marks[k].ib \in Nat /\ marks[k].at \in Nat
    BY <2>1 DEF Mark
  <2>3. ib \in Nat /\ ib' \in Nat /\ look \in Nat /\ look' \in Nat
    BY DEF MarksInv, Positions
  <2>4. QED
    BY <2>1, <2>2, <2>3 DEF FromPacket, PacketOf
<1>2. QED
  BY <1>1 DEF MarksInv

\* Steps of the host that write no memory.
LEMMA HostKept ==
  ASSUME MarksInv, Positions', marks' = marks, stream' = stream,
         (ib' = ib /\ look <= look') \/ ib < ib',
         UNCHANGED <<mem, flight, ran, left, crossed>>
  PROVE  MarksInv'
<1>1. MemoryTypeOK'
  BY DEF MarksInv, MemoryTypeOK
<1>2. ASSUME NEW k \in 1 .. Len(marks) PROVE Tells(marks[k])'
  <2>1. PICK m : m = marks[k]
    OBVIOUS
  <2>2. Tells(m)
    BY <2>1 DEF MarksInv
  <2>3. (LeftTo(m.va)' => LeftTo(m.va)) /\ (Reached(m)' <=> Reached(m))
    BY DEF LeftTo, Reached
  <2>4. Tells(m)'
    BY <2>2, <2>3, TellsKept
  <2>5. m = marks'[k]
    BY <2>1
  <2>6. QED
    BY <2>4, <2>5 DEF Tells, OnlyOne, PacketOf, Reached
<1>3. QED
  BY <1>1, <1>2, MarksKept

\* note_marks takes a packet: no mark noted before is at its address, or it is not alone.
LEMMA NotePacketStep ==
  ASSUME MarksInv, NotePacket
  PROVE  MarksInv'
<1> DEFINE p == stream[ib][look + 1]
           r == [kind |-> MarkKind(p), va |-> p.va, ref |-> p.ref, ib |-> ib, at |-> look + 1,
                 cpu |-> p.va \notin Unmappable, before |-> Found(p)]
<1>1. /\ step = "note" /\ look < Len(stream[ib]) /\ p.kind # "N"
      /\ IF p.kind \in Noted THEN MarkAdd(p, look + 1) ELSE UNCHANGED <<marks, mem, crossed>>
      /\ look' = look + 1
      /\ UNCHANGED <<stream, ib, flight, fed, ran, left, hung, step>>
  BY DEF NotePacket
<1>2. /\ Positions /\ MemoryTypeOK /\ marks \in Seq(Mark)
      /\ ib \in 1 .. Len(stream) /\ fed < ib /\ look \in Nat /\ ib \in Nat /\ fed \in Nat
      /\ mem \in [Vas -> Values]
  BY <1>1 DEF MarksInv, Positions, MemoryTypeOK
<1>3. look + 1 \in 1 .. Len(stream[ib])
  <2>1. stream[ib] \in Seq(Packet)
    BY <1>2 DEF Positions
  <2>2. QED
    BY <1>1, <1>2, <2>1
<1>4. p \in Packet
  BY <1>2, <1>3, PacketType
<1>5. p.va \in Vas /\ p.ref \in Values /\ Found(p) \in Values
  <2>1. p.va \in Vas /\ p.ref \in Values
    BY <1>4 DEF Packet
  <2>2. Poison \in Values
    BY MarksAssumption
  <2>3. QED
    BY <1>2, <2>1, <2>2 DEF Found
<1>6. Positions'
  BY <1>1, <1>2 DEF Positions
<1>7. CASE UNCHANGED <<marks, mem, crossed>>
  BY <1>1, <1>2, <1>6, <1>7, HostKept
<1>8. CASE /\ p.kind \in Noted
           /\ marks' = Append(marks, r) /\ mem' = [mem EXCEPT ![p.va] = Found(p)]
           /\ crossed' = IF InFlight(p.va) \/ LeftTo(p.va) THEN crossed \cup {p.va} ELSE crossed
  <2>1. mem' \in [Vas -> Values] /\ mem'[p.va] = Found(p) /\ \A v \in Vas : v # p.va => mem'[v] = mem[v]
    BY <1>2, <1>5, <1>8
  <2>2. MemoryTypeOK'
    BY <1>1, <1>2, <2>1 DEF MemoryTypeOK
  <2>3. r \in Mark
    <3>1. MarkKind(p) \in Noted
      BY <1>8 DEF MarkKind, Noted, Written
    <3>2. look + 1 \in Nat /\ (p.va \notin Unmappable) \in BOOLEAN
      BY <1>2
    <3> HIDE DEF p
    <3>3. QED
      BY <1>2, <1>5, <3>1, <3>2 DEF Mark
  <2>4. r.va = p.va /\ r.ref = p.ref /\ r.ib = ib /\ r.at = look + 1
        /\ r.cpu = (p.va \notin Unmappable) /\ r.before = Found(p)
    OBVIOUS
  <2> HIDE DEF r
  <2>5. marks' \in Seq(Mark) /\ Len(marks') = Len(marks) + 1 /\ marks'[Len(marks) + 1] = r
        /\ \A k \in 1 .. Len(marks) : marks'[k] = marks[k]
    BY <1>2, <1>8, <2>3
  <2>6. crossed \subseteq crossed' /\ \A va : (LeftTo(va)' <=> LeftTo(va)) /\ (InFlight(va)' <=> InFlight(va))
    BY <1>1, <1>8 DEF LeftTo, InFlight
  <2>7. ASSUME NEW k \in 1 .. Len(marks) PROVE (FromPacket(marks[k]) /\ Tells(marks[k]))'
    <3>1. PICK m : m = marks[k]
      OBVIOUS
    <3>2. FromPacket(m) /\ Tells(m) /\ m \in Mark /\ m = marks'[k]
      BY <1>2, <2>5, <3>1 DEF MarksInv
    <3>3. m.ib \in Nat /\ m.at \in Nat /\ m.va \in Vas
      BY <3>2 DEF Mark
    <3>4. FromPacket(m)'
      BY <1>1, <1>2, <3>2, <3>3 DEF FromPacket, PacketOf
    <3>5. Reached(m)' <=> Reached(m)
      BY <1>1 DEF Reached
    <3>6. ASSUME OnlyOne(m) PROVE Tells(m)'
      <4>1. ~(m.ib = ib /\ m.at = look + 1)
        BY <1>2, <3>2, <3>3 DEF FromPacket
      <4>2. p.kind # "X"
        BY <1>8, Kinds
      <4>3. m.va # p.va
        BY <1>2, <1>3, <3>6, <4>1, <4>2 DEF OnlyOne
      <4>4. mem'[m.va] = mem[m.va] /\ flight'[m.va] = flight[m.va]
        BY <1>1, <2>1, <3>3, <4>3
      <4>5. QED
        BY <1>1, <2>6, <3>2, <3>5, <4>4, TellsKept
    <3>7. ASSUME ~OnlyOne(m) PROVE Tells(m)'
      <4>1. ~OnlyOne(m)'
        BY <1>1, <3>7 DEF OnlyOne
      <4>2. QED
        BY <4>1 DEF Tells
    <3>8. Tells(m)'
      BY <3>6, <3>7
    <3>9. QED
      BY <3>2, <3>4, <3>8 DEF FromPacket, Tells, OnlyOne, PacketOf, Reached
  <2>8. PICK q : q = r
    OBVIOUS
  <2>9. /\ q = marks'[Len(marks) + 1]
        /\ q.ib = ib /\ q.at = look + 1 /\ q.va = p.va /\ q.ref = p.ref
        /\ q.cpu = (p.va \notin Unmappable) /\ q.before = Found(p)
    BY <2>4, <2>5, <2>8
  <2>10. PacketOf(q) = p /\ PacketOf(q)' = p
    BY <1>1, <2>9 DEF PacketOf
  <2>11. FromPacket(q)'
    BY <1>1, <1>2, <1>3, <1>8, <2>9, <2>10 DEF FromPacket
  <2>12. Tells(q)'
    <3>1. ran[ib] = 0
      <4>1. ran[ib] \in Nat /\ (ran[ib] > 0 => ib <= fed)
        BY <1>2 DEF Positions
      <4>2. QED
        BY <1>2, <4>1
    <3>2. ~Reached(q)'
      BY <1>1, <1>2, <2>9, <3>1 DEF Reached
    <3>3. mem'[q.va] = q.before
      BY <2>1, <2>9
    <3>4. q.cpu /\ p.kind \in Sampled => q.before = Poison
      BY <2>9 DEF Found
    <3>5. q.va \notin crossed' => ~InFlight(q.va) /\ ~LeftTo(q.va)
      BY <1>8, <2>9
    <3>6. ASSUME NEW v \in Values, ~InFlight(q.va) PROVE ~(flight'[q.va][v] > 0)
      BY <1>1, <3>6 DEF InFlight
    <3> HIDE DEF p
    <3>7. QED
      BY <2>6, <2>10, <3>2, <3>3, <3>4, <3>5, <3>6 DEF Tells
  <2>13. (\A k \in 1 .. Len(marks) : FromPacket(marks[k]) /\ Tells(marks[k]))'
    <3> SUFFICES ASSUME NEW k \in 1 .. Len(marks) + 1 PROVE (FromPacket(marks[k]) /\ Tells(marks[k]))'
      BY <2>5
    <3>1. CASE k = Len(marks) + 1
      BY <2>9, <2>11, <2>12, <3>1 DEF FromPacket, Tells, OnlyOne, PacketOf, Reached
    <3>2. CASE k \in 1 .. Len(marks)
      BY <2>7, <3>2
    <3>3. QED
      BY <1>2, <3>1, <3>2
  <2>14. QED
    BY <1>6, <2>2, <2>5, <2>13 DEF MarksInv
<1>9. QED
  BY <1>1, <1>7, <1>8 DEF MarkAdd

\* What a packet that runs sends on its way.
LEMMA ExecuteSends ==
  ASSUME MemoryTypeOK, NEW p \in Packet, Execute(p)
  PROVE  /\ flight' \in [Vas -> [Values -> Nat]]
         /\ \A va \in Vas : va # p.va \/ p.kind \notin Writing => flight'[va] = flight[va]
         /\ p.kind \in Writing =>
              \E v \in Effects(p) :
                /\ v \in Values /\ flight'[p.va][v] > 0
                /\ \A u \in Values : u # v => flight'[p.va][u] = flight[p.va][u]
<1>1. p.va \in Vas /\ flight \in [Vas -> [Values -> Nat]]
  BY SMT DEF MemoryTypeOK, Packet
<1>2. CASE p.kind \in Writing
  <2>1. PICK v \in Effects(p) : flight' = [flight EXCEPT ![p.va][v] = @ + 1]
    BY <1>2 DEF Execute
  <2>2. v \in Values
    BY DEF Effects
  <2>3. QED
    BY <1>1, <1>2, <2>1, <2>2
<1>3. CASE p.kind \notin Writing
  BY <1>1, <1>3 DEF Execute
<1>4. QED
  BY <1>2, <1>3

\* A packet of an earlier submission runs: it writes where no mark is, or the mark is known
\* to be crossed.
LEMMA RunLeftStep ==
  ASSUME MarksInv, NEW c \in 1 .. Len(left), RunLeft(c)
  PROVE  MarksInv'
<1> DEFINE q == Head(left[c])
           g == [left EXCEPT ![c] = Tail(@)]
<1>1. /\ left[c] # <<>> /\ Execute(q) /\ left' = Trimmed(g)
      /\ UNCHANGED <<stream, ib, look, marks, mem, fed, ran, hung, step, crossed>>
  BY DEF RunLeft, LeftOver
<1>2. Positions /\ MemoryTypeOK /\ marks \in Seq(Mark) /\ left \in Seq(Seq(Packet))
  BY DEF MarksInv, Positions
<1>3. left[c] \in Seq(Packet) /\ Len(left[c]) \in Nat \ {0}
  BY <1>1, <1>2
<1>4. q \in Packet /\ q = left[c][1] /\ Tail(left[c]) \in Seq(Packet)
      /\ \A k \in 1 .. Len(Tail(left[c])) : k + 1 \in 1 .. Len(left[c]) /\ Tail(left[c])[k] = left[c][k + 1]
  BY <1>1, <1>3
<1>5. g \in Seq(Seq(Packet)) /\ Len(g) = Len(left) /\ g[c] = Tail(left[c])
      /\ \A d \in 1 .. Len(left) : d # c => g[d] = left[d]
  <2> DEFINE T == Seq(Packet)
  <2>1. left \in Seq(T) /\ Tail(left[c]) \in T
    BY <1>2, <1>4
  <2> HIDE DEF T
  <2>2. g \in Seq(T) /\ Len(g) = Len(left) /\ g[c] = Tail(left[c])
        /\ \A d \in 1 .. Len(left) : d # c => g[d] = left[d]
    BY <2>1
  <2>3. QED
    BY <2>2 DEF T
<1> HIDE DEF q, g
<1>6. left' \in Seq(Seq(Packet))
  <2>1. <<>> \in Seq(Seq(Packet))
    OBVIOUS
  <2>2. left' = g \/ left' = <<>>
    BY <1>1 DEF Trimmed
  <2>3. QED
    BY <2>1, <2>2, <1>5, Zenon
<1>7. ASSUME NEW va, LeftTo(va)' PROVE LeftTo(va)
  <2>1. PICK d \in 1 .. Len(left') : \E k \in 1 .. Len(left'[d]) :
          left'[d][k].va = va /\ left'[d][k].kind \in Writing
    BY <1>7 DEF LeftTo
  <2>2. PICK k \in 1 .. Len(left'[d]) : left'[d][k].va = va /\ left'[d][k].kind \in Writing
    BY <2>1
  <2>3. left' = g
    <3>1. left' # <<>>
      OBVIOUS
    <3>2. QED
      BY <3>1, <1>1 DEF Trimmed
  <2>4. d \in 1 .. Len(left)
    BY <2>3, <1>5
  <2>5. CASE d = c
    BY <2>2, <2>3, <2>5, <1>4, <1>5 DEF LeftTo
  <2>6. CASE d # c
    BY <2>2, <2>3, <2>4, <2>6, <1>5 DEF LeftTo
  <2>7. QED
    BY <2>5, <2>6
<1>8. /\ flight' \in [Vas -> [Values -> Nat]]
      /\ \A va \in Vas : va # q.va \/ q.kind \notin Writing => flight'[va] = flight[va]
  BY <1>1, <1>2, <1>4, ExecuteSends
<1>9. Positions' /\ MemoryTypeOK'
  BY <1>1, <1>2, <1>6, <1>8 DEF Positions, MemoryTypeOK
<1>10. q.kind \in Writing => LeftTo(q.va)
  BY <1>3, <1>4 DEF LeftTo
<1>11. ASSUME NEW k \in 1 .. Len(marks) PROVE Tells(marks[k])'
  <2>1. PICK m : m = marks[k]
    OBVIOUS
  <2>2. Tells(m) /\ m \in Mark /\ m = marks'[k]
    BY <1>1, <1>2, <2>1 DEF MarksInv
  <2>3. m.va \in Vas /\ (Reached(m)' <=> Reached(m)) /\ (OnlyOne(m)' <=> OnlyOne(m)) /\ crossed' = crossed
    BY <1>1, <2>2 DEF Mark, Reached, OnlyOne
  <2>4. ASSUME m.cpu /\ OnlyOne(m) /\ m.va \notin crossed PROVE Tells(m)'
    <3>1. ~LeftTo(m.va)
      BY <2>2, <2>4 DEF Tells
    <3>2. flight'[m.va] = flight[m.va]
      BY <1>8, <1>10, <2>3, <3>1
    <3>3. mem'[m.va] = mem[m.va] /\ stream' = stream /\ crossed \subseteq crossed'
      BY <1>1
    <3>4. QED
      BY <1>7, <2>2, <2>3, <3>2, <3>3, TellsKept
  <2>5. ASSUME ~(m.cpu /\ OnlyOne(m) /\ m.va \notin crossed) PROVE Tells(m)'
    BY <2>3, <2>5 DEF Tells
  <2>6. Tells(m)'
    BY <2>4, <2>5
  <2>7. QED
    BY <2>2, <2>6 DEF Tells, OnlyOne, PacketOf, Reached
<1>12. ib \in Nat /\ look \in Nat
  BY <1>2 DEF Positions
<1>13. QED
  BY <1>1, <1>9, <1>11, <1>12, MarksKept

\* The command processor runs a packet: it writes where a mark is only if the mark is of
\* that packet.
LEMMA RunStep ==
  ASSUME MarksInv, NEW b \in 1 .. fed, Run(b)
  PROVE  MarksInv'
<1> DEFINE p == stream[b][ran[b] + 1]
<1>1. /\ ran[b] < Len(stream[b]) /\ Execute(p)
      /\ ran' = [ran EXCEPT ![b] = @ + 1]
      /\ UNCHANGED <<stream, ib, look, marks, mem, fed, left, hung, step, crossed>>
  BY DEF Run, Unrun
<1>2. /\ Positions /\ MemoryTypeOK /\ marks \in Seq(Mark) /\ b \in 1 .. Len(stream) /\ b <= fed
      /\ ran \in [1 .. Len(stream) -> Nat] /\ ran[b] \in Nat /\ ib \in Nat /\ look \in Nat
  <2>1. Positions /\ marks \in Seq(Mark) /\ MemoryTypeOK
    BY DEF MarksInv
  <2>2. fed \in Nat /\ fed <= Len(stream) /\ Len(stream) \in Nat
    BY <2>1 DEF Positions
  <2>3. b \in 1 .. Len(stream) /\ b <= fed
    BY <2>2
  <2>4. QED
    BY <2>1, <2>3 DEF Positions
<1>3. ran[b] + 1 \in 1 .. Len(stream[b])
  <2>1. stream[b] \in Seq(Packet)
    BY <1>2 DEF Positions
  <2>2. QED
    BY <1>1, <1>2, <2>1
<1>4. p \in Packet
  BY <1>2, <1>3, PacketType
<1> HIDE DEF p
<1>5. /\ flight' \in [Vas -> [Values -> Nat]]
      /\ \A va \in Vas : va # p.va \/ p.kind \notin Writing => flight'[va] = flight[va]
      /\ p.kind \in Writing =>
           \E v \in Effects(p) :
             /\ v \in Values /\ flight'[p.va][v] > 0
             /\ \A u \in Values : u # v => flight'[p.va][u] = flight[p.va][u]
  BY <1>1, <1>2, <1>4, ExecuteSends
<1>6. ran'[b] = ran[b] + 1 /\ \A c \in 1 .. Len(stream) : c # b => ran'[c] = ran[c]
  BY <1>1, <1>2
<1>7. Positions' /\ MemoryTypeOK'
  <2>1. ran' \in [1 .. Len(stream) -> Nat]
    BY <1>1, <1>2
  <2>2. \A c \in 1 .. Len(stream) : ran'[c] > 0 => c <= fed
    BY <1>2, <1>6 DEF Positions
  <2>3. MemoryTypeOK'
    BY <1>1, <1>2, <1>5 DEF MemoryTypeOK
  <2>4. QED
    BY <1>1, <1>2, <2>1, <2>2, <2>3 DEF Positions
<1>8. ASSUME NEW k \in 1 .. Len(marks) PROVE Tells(marks[k])'
  <2>1. PICK m : m = marks[k]
    OBVIOUS
  <2>2. FromPacket(m) /\ Tells(m) /\ m \in Mark /\ m = marks'[k]
    BY <1>1, <1>2, <2>1 DEF MarksInv
  <2>3. /\ m.ib \in 1 .. Len(stream) /\ m.at \in 1 .. Len(stream[m.ib]) /\ m.at \in Nat
        /\ m.va \in Vas /\ PacketOf(m) = stream[m.ib][m.at] /\ PacketOf(m)' = PacketOf(m)
    BY <1>1, <2>2 DEF FromPacket, Mark, PacketOf
  <2>4. (LeftTo(m.va)' <=> LeftTo(m.va)) /\ (OnlyOne(m)' <=> OnlyOne(m))
    BY <1>1 DEF LeftTo, OnlyOne
  <2>5. ASSUME ~(m.cpu /\ OnlyOne(m) /\ m.va \notin crossed) PROVE Tells(m)'
    BY <1>1, <2>4, <2>5 DEF Tells
  <2>6. ASSUME m.cpu /\ OnlyOne(m) /\ m.va \notin crossed /\ m.ib = b /\ m.at = ran[b] + 1 PROVE Tells(m)'
    <3>1. PacketOf(m) = p /\ m.va = p.va
      BY <2>2, <2>3, <2>6 DEF p, FromPacket
    <3>2. ~Reached(m) /\ Reached(m)'
      BY <1>2, <1>6, <2>6 DEF Reached
    <3>3. /\ ~LeftTo(m.va) /\ \A v \in Values : ~(flight[m.va][v] > 0)
          /\ mem[m.va] = m.before /\ (p.kind \in Sampled => m.before = Poison)
      BY <2>2, <2>6, <3>1, <3>2 DEF Tells
    <3>4. ASSUME NEW v \in Values, flight'[m.va][v] > 0 PROVE v \in Effects(p)
      BY <1>5, <2>3, <3>1, <3>3, <3>4
    <3>5. p.kind \in Writing => InFlight(m.va)'
      BY <1>5, <3>1 DEF InFlight
    <3>6. mem' = mem
      BY <1>1
    <3>7. QED
      BY <2>3, <2>4, <3>1, <3>2, <3>3, <3>4, <3>5, <3>6 DEF Tells
  <2>7. ASSUME m.cpu /\ OnlyOne(m) /\ m.va \notin crossed /\ ~(m.ib = b /\ m.at = ran[b] + 1) PROVE Tells(m)'
    <3>1. Reached(m)' <=> Reached(m)
      <4>1. CASE m.ib = b
        BY <1>2, <1>6, <2>3, <2>7, <4>1 DEF Reached
      <4>2. CASE m.ib # b
        BY <1>6, <2>3, <4>2 DEF Reached
      <4>3. QED
        BY <4>1, <4>2
    <3>2. flight'[m.va] = flight[m.va]
      <4>1. CASE m.va = p.va
        <5>1. p.kind = "X"
          BY <1>2, <1>3, <2>7, <4>1 DEF OnlyOne, p
        <5>2. QED
          BY <1>5, <2>3, <5>1, Kinds
      <4>2. CASE m.va # p.va
        BY <1>5, <2>3, <4>2
      <4>3. QED
        BY <4>1, <4>2
    <3>3. stream' = stream /\ mem'[m.va] = mem[m.va] /\ crossed \subseteq crossed'
      BY <1>1
    <3>4. QED
      BY <2>2, <2>4, <3>1, <3>2, <3>3, TellsKept
  <2>8. Tells(m)'
    BY <2>5, <2>6, <2>7
  <2>9. QED
    BY <2>2, <2>8 DEF Tells, OnlyOne, PacketOf, Reached
<1>9. QED
  BY <1>1, <1>2, <1>7, <1>8, MarksKept

\* A write lands: where a mark is it is its packet's.
LEMMA LandStep ==
  ASSUME MarksInv, NEW va \in Vas, NEW v \in Values, Land(va, v)
  PROVE  MarksInv'
<1>1. /\ flight[va][v] > 0 /\ flight' = [flight EXCEPT ![va][v] = @ - 1]
      /\ mem' = [mem EXCEPT ![va] = v]
      /\ UNCHANGED <<stream, ib, look, marks, fed, ran, left, hung, step, crossed>>
  BY DEF Land
<1>2. /\ Positions /\ MemoryTypeOK /\ marks \in Seq(Mark) /\ ib \in Nat /\ look \in Nat
      /\ mem \in [Vas -> Values] /\ flight \in [Vas -> [Values -> Nat]]
  BY DEF MarksInv, MemoryTypeOK, Positions
<1>3. /\ mem' \in [Vas -> Values] /\ flight' \in [Vas -> [Values -> Nat]]
      /\ mem'[va] = v
      /\ \A u \in Values : flight'[va][u] > 0 => flight[va][u] > 0
      /\ \A a \in Vas : a # va => mem'[a] = mem[a] /\ flight'[a] = flight[a]
  <2>1. flight[va] \in [Values -> Nat] /\ flight[va][v] \in Nat
    BY <1>2
  <2>2. flight[va][v] - 1 \in Nat
    BY <1>1, <2>1
  <2>3. QED
    BY <1>1, <1>2, <2>1, <2>2
<1>4. Positions' /\ MemoryTypeOK'
  BY <1>1, <1>2, <1>3 DEF Positions, MemoryTypeOK
<1>5. ASSUME NEW k \in 1 .. Len(marks) PROVE Tells(marks[k])'
  <2>1. PICK m : m = marks[k]
    OBVIOUS
  <2>2. Tells(m) /\ m \in Mark /\ m = marks'[k]
    BY <1>1, <1>2, <2>1 DEF MarksInv
  <2>3. /\ m.va \in Vas /\ (Reached(m)' <=> Reached(m)) /\ (OnlyOne(m)' <=> OnlyOne(m))
        /\ (LeftTo(m.va)' <=> LeftTo(m.va)) /\ PacketOf(m)' = PacketOf(m)
    BY <1>1, <2>2 DEF Mark, Reached, OnlyOne, LeftTo, PacketOf
  <2>4. ASSUME m.va # va PROVE Tells(m)'
    BY <1>1, <1>3, <2>2, <2>3, <2>4, TellsKept
  <2>5. ASSUME m.va = va PROVE Tells(m)'
    <3> SUFFICES ASSUME m.cpu, OnlyOne(m), m.va \notin crossed
                 PROVE  Tells(m)'
      BY <1>1, <2>3 DEF Tells
    <3> DEFINE e == Effects(PacketOf(m))
    <3>1. /\ ~LeftTo(m.va)
          /\ \A u \in Values : flight[m.va][u] > 0 => Reached(m) /\ u \in e
          /\ PacketOf(m).kind \in Sampled => m.before = Poison
      BY <2>2 DEF Tells
    <3>2. Reached(m) /\ v \in e /\ mem'[m.va] = v
      BY <1>1, <1>3, <2>5, <3>1
    <3>3. \A u \in Values : flight'[m.va][u] > 0 => u \in e
      BY <1>3, <2>5, <3>1
    <3>4. QED
      BY <2>3, <3>1, <3>2, <3>3 DEF Tells
  <2>6. Tells(m)'
    BY <2>4, <2>5
  <2>7. QED
    BY <2>2, <2>6 DEF Tells, OnlyOne, PacketOf, Reached
<1>6. QED
  BY <1>1, <1>2, <1>4, <1>5, MarksKept

\* What is left of a buffer.
LEMMA RestOf ==
  ASSUME NEW S, NEW s \in Seq(S), NEW k \in Nat
  PROVE  SubSeq(s, k + 1, Len(s)) \in Seq(S)
  OBVIOUS

\* What the calls before leave is sequences of packets.
LEMMA StillToRunType ==
  ASSUME Positions
  PROVE  StillToRun \in Seq(Seq(Packet))
<1> DEFINE T == Seq(Packet)
           F == [b \in 1 .. fed |-> SubSeq(stream[b], ran[b] + 1, Len(stream[b]))]
<1>1. left \in Seq(T) /\ fed \in Nat
  BY DEF Positions
<1>2. ASSUME NEW b \in 1 .. fed PROVE SubSeq(stream[b], ran[b] + 1, Len(stream[b])) \in T
  <2>1. b \in 1 .. Len(stream)
    BY DEF Positions
  <2>2. stream \in Seq(Seq(Packet)) /\ ran \in [1 .. Len(stream) -> Nat]
    BY DEF Positions
  <2>3. stream[b] \in Seq(Packet)
    BY <2>1, <2>2
  <2>4. ran[b] \in Nat
    BY <2>1, <2>2, Zenon
  <2>5. QED
    BY <2>3, <2>4, RestOf
<1> HIDE DEF T
<1>3. F \in Seq(T)
  BY <1>1, <1>2
<1> HIDE DEF F
<1>4. left \o F \in Seq(T) /\ <<>> \in Seq(T)
  BY <1>1, <1>3
<1>5. QED
  BY <1>4 DEF StillToRun, Trimmed, T, F

\* No step of the host or of the command processor breaks the invariant.
LEMMA MarksInductive == MarksInv /\ [MarksNext]_marksVars => MarksInv'
<1> SUFFICES ASSUME MarksInv, [MarksNext]_marksVars PROVE MarksInv'
  OBVIOUS
<1>0. Positions /\ MemoryTypeOK /\ ib \in Nat /\ look \in Nat /\ fed \in Nat /\ Len(stream) \in Nat
  BY DEF MarksInv, Positions
<1>1. ASSUME NEW next \in Submissions, Clear(next) PROVE MarksInv'
  <2>1. next \in Seq(Seq(Packet)) /\ Len(next) \in Nat /\ Len(next) # 0
    BY MarksAssumption
  <2>2. /\ stream' = next /\ ib' = 1 /\ look' = 0 /\ marks' = <<>> /\ fed' = 0
        /\ ran' = [b \in 1 .. Len(next) |-> 0] /\ step' = "note" /\ left' = StillToRun
        /\ UNCHANGED <<mem, flight>>
    BY <1>1 DEF Clear
  <2>3. left' \in Seq(Seq(Packet))
    BY <1>0, <2>2, StillToRunType
  <2>4. Positions' /\ MemoryTypeOK'
    BY <1>0, <2>1, <2>2, <2>3 DEF Positions, Steps, MemoryTypeOK
  <2>5. marks' \in Seq(Mark) /\ Len(marks') = 0
    BY <2>2
  <2>6. QED
    BY <2>4, <2>5 DEF MarksInv
<1>2. CASE NoteEnd
  <2>1. Positions'
    BY <1>0, <1>2 DEF NoteEnd, Positions, Steps, gpuVars
  <2>2. QED
    BY <1>0, <1>2, <2>1, HostKept DEF NoteEnd, gpuVars
<1>3. CASE Feed
  <2>1. /\ step = "feed" /\ fed' = ib
        /\ UNCHANGED <<stream, marks, crossed, mem, flight, ran, left, hung>>
        /\ \/ ib < Len(stream) /\ ib' = ib + 1 /\ look' = 0 /\ step' = "note"
           \/ step' = "wait" /\ UNCHANGED <<ib, look>>
    BY <1>3 DEF Feed, Handed, gpuVars
  <2>2. Positions'
    BY <1>0, <2>1 DEF Positions, Steps
  <2>3. QED
    BY <1>0, <2>1, <2>2, HostKept
<1>4. CASE FeedRefused
  <2>1. Positions'
    BY <1>0, <1>4 DEF FeedRefused, Positions, Steps, gpuVars
  <2>2. QED
    BY <1>0, <1>4, <2>1, HostKept DEF FeedRefused, gpuVars
<1>5. CASE WaitOver
  <2>1. Positions'
    BY <1>0, <1>5 DEF WaitOver, Positions, Steps, gpuVars
  <2>2. QED
    BY <1>0, <1>5, <2>1, HostKept DEF WaitOver, gpuVars
<1>6. CASE Hang
  <2>1. Positions'
    BY <1>0, <1>6 DEF Hang, Positions, Steps
  <2>2. QED
    BY <1>0, <1>6, <2>1, HostKept DEF Hang
<1>7. CASE UNCHANGED marksVars
  <2>1. Positions'
    BY <1>0, <1>7 DEF marksVars, Positions, gpuVars
  <2>2. QED
    BY <1>0, <1>7, <2>1, HostKept DEF marksVars, gpuVars
<1>8. QED
  BY <1>1, <1>2, <1>3, <1>4, <1>5, <1>6, <1>7, NotePacketStep, RunLeftStep, RunStep, LandStep
  DEF MarksNext

\* Nothing is marked before the first submission.
LEMMA MarksStart == MarksInit => MarksInv
<1> SUFFICES ASSUME MarksInit PROVE MarksInv
  OBVIOUS
<1>1. /\ stream = <<>> /\ left = <<>> /\ marks = <<>> /\ ran = <<>>
      /\ ib = 1 /\ look = 0 /\ fed = 0 /\ step = "off"
  BY DEF MarksInit
<1>2. /\ stream \in Seq(Seq(Packet)) /\ left \in Seq(Seq(Packet)) /\ Len(stream) = 0
      /\ marks \in Seq(Mark) /\ Len(marks) = 0
  BY <1>1
<1>3. ran \in [1 .. Len(stream) -> Nat]
  BY <1>1, <1>2
<1>4. Positions
  BY <1>1, <1>2, <1>3 DEF Positions, Steps
<1>5. MemoryTypeOK
  <2>1. 0 \in Values /\ 0 \in Nat
    BY MarksAssumption
  <2>2. [v \in Values |-> 0] \in [Values -> Nat]
    BY <2>1
  <2>3. QED
    BY <2>1, <2>2 DEF MarksInit, MemoryTypeOK
<1>6. QED
  BY <1>2, <1>4, <1>5 DEF MarksInv

\* For any submissions, any limit on the marks and any addresses the CPU cannot map, however
\* the noting, the running, the landing of writes, refusals and a hang interleave, with
\* whatever earlier calls left to run: a mark alone at its address that nothing from before
\* crosses tells whether its packet was reached.
THEOREM MarksAlwaysTell == MarksSpec => []MarksTell
  BY MarksStart, MarksInductive, MarksMean, PTL DEF MarksSpec

=============================================================================
