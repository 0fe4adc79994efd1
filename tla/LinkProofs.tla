----------------------------- MODULE LinkProofs -----------------------------
(***************************************************************************)
(* Proofs about module Link, for every buffer size, index range, scan      *)
(* length, channel capacity and program: what the index arithmetic         *)
(* computes, that the loops of the code compute the same and what Reader   *)
(* and Writer say of the buffers, the type invariant, and that the opening *)
(* of a sequence loses nothing (HandshakeInv and what follows).            *)
(***************************************************************************)
EXTENDS Delivery, BufferLoops, TLAPS

-----------------------------------------------------------------------------
(* What PacketIndex computes with indices, in terms of the messages that   *)
(* they number.                                                            *)

LEMMA IndexFacts ==
  /\ BufferSize \in Nat /\ BufferSize > 0
  /\ MaxGap \in Nat /\ MaxGap > 1
  /\ MaxIndex \in Nat /\ MaxIndex > MaxGap
  /\ StartIndex \in Indices
  /\ StartIndex \notin DataIndices
  /\ DataIndices = Indices \ {0, StartIndex}
BY IndexAssumption DEF IndexAssumption, StartIndex, Indices, DataIndices

(* A scan stays within the index range. *)
LEMMA AdvanceType ==
  ASSUME NEW i \in 1 .. StartIndex, NEW k \in 0 .. MaxGap
  PROVE  Advance(i, k) \in 1 .. StartIndex
<1> DEFINE from == IF i > MaxIndex THEN 0 ELSE i
<1>1. /\ from \in 0 .. MaxIndex
      /\ k \in Nat /\ k < MaxIndex
      /\ StartIndex = MaxIndex + 1
      /\ MaxIndex \in Nat
  BY IndexFacts DEF StartIndex
<1>2. CASE k = 0
  BY <1>2 DEF Advance
<1>3. CASE k > 0 /\ from + k > MaxIndex
  <2>1. Advance(i, k) = from + k - MaxIndex
    BY <1>1, <1>3 DEF Advance
  <2> HIDE DEF from
  <2> QED
    BY <1>1, <1>3, <2>1
<1>4. CASE k > 0 /\ from + k <= MaxIndex
  <2>1. Advance(i, k) = from + k
    BY <1>1, <1>4 DEF Advance
  <2> HIDE DEF from
  <2> QED
    BY <1>1, <1>4, <2>1
<1> QED
  BY <1>1, <1>2, <1>3, <1>4

(* Counting gives data indices only. *)
LEMMA NextIndexType ==
  ASSUME NEW i \in 0 .. MaxIndex
  PROVE  NextIndex(i) \in DataIndices /\ IncrementIndex(i) \in DataIndices
BY IndexFacts DEF NextIndex, IncrementIndex, DataIndices, StartIndex

-----------------------------------------------------------------------------
(* Division with remainder. *)

LEMMA DivisionIs ==
  ASSUME NEW n \in Nat, NEW m \in Nat, m > 0
  PROVE  /\ n = m * (n \div m) + (n % m)
         /\ n \div m \in Nat
         /\ n % m \in 0 .. m - 1
<1>1. n = m * (n \div m) + (n % m)
  OBVIOUS
<1>2. n \div m \in Nat
  OBVIOUS
<1>3. n % m \in 0 .. m - 1
  OBVIOUS
<1> QED
  BY <1>1, <1>2, <1>3

LEMMA RemainderIs ==
  ASSUME NEW m \in Nat, m > 0, NEW q \in Nat, NEW r \in 0 .. m - 1, NEW n \in Nat,
         n = q * m + r
  PROVE  n % m = r
OBVIOUS

(* Two products that are less than m apart are the same.                   *)
LEMMA FactorIs ==
  ASSUME NEW m \in Nat, m > 0, NEW p \in Nat, NEW q \in Nat, p < q
  PROVE  q * m >= p * m + m
<1>1. PICK k \in Nat : q = p + 1 + k
  <2>1. q - p - 1 \in Nat /\ q = p + 1 + (q - p - 1)
    OBVIOUS
  <2> QED
    BY <2>1
<1>2. q * m = p * m + m + k * m
  BY <1>1
<1>3. k * m >= 0
  OBVIOUS
<1>4. p * m \in Nat /\ q * m \in Nat /\ k * m \in Nat
  OBVIOUS
<1> QED
  BY <1>2, <1>3, <1>4

-----------------------------------------------------------------------------
(* The index of a message. *)

LEMMA IndexOfType ==
  ASSUME NEW n \in Nat
  PROVE  /\ IndexOf(n) \in 0 .. MaxIndex
         /\ n = 0 => IndexOf(n) = 0
         /\ n > 0 => IndexOf(n) \in DataIndices
<1>1. CASE n = 0
  BY <1>1, IndexFacts DEF IndexOf
<1>2. CASE n > 0
  <2>1. n - 1 \in Nat /\ MaxIndex \in Nat /\ MaxIndex > 0
    BY <1>2, IndexFacts
  <2>2. (n - 1) % MaxIndex \in 0 .. MaxIndex - 1
    BY <2>1, DivisionIs
  <2>3. IndexOf(n) = ((n - 1) % MaxIndex) + 1
    BY <1>2 DEF IndexOf
  <2> QED
    BY <1>2, <2>1, <2>2, <2>3 DEF DataIndices
<1> QED
  BY <1>1, <1>2

(* A message is so many laps and an index.                                 *)
LEMMA IndexOfLaps ==
  ASSUME NEW n \in Nat, n > 0
  PROVE  \E q \in Nat : n = q * MaxIndex + IndexOf(n)
<1>1. n - 1 \in Nat /\ MaxIndex \in Nat /\ MaxIndex > 0
  BY IndexFacts
<1> DEFINE q == (n - 1) \div MaxIndex
           r == (n - 1) % MaxIndex
<1>2. n - 1 = MaxIndex * q + r /\ q \in Nat /\ r \in 0 .. MaxIndex - 1
  BY <1>1, DivisionIs
<1>3. IndexOf(n) = r + 1
  BY DEF IndexOf
<1> HIDE DEF q, r
<1>4. MaxIndex * q = q * MaxIndex /\ q * MaxIndex \in Nat
  BY <1>1, <1>2
<1>5. n = q * MaxIndex + IndexOf(n)
  BY <1>1, <1>2, <1>3, <1>4
<1> QED
  BY <1>2, <1>5

LEMMA LapsIndexOf ==
  ASSUME NEW q \in Nat, NEW i \in DataIndices
  PROVE  q * MaxIndex + i \in Nat /\ IndexOf(q * MaxIndex + i) = i
<1>1. i - 1 \in 0 .. MaxIndex - 1 /\ i \in Nat /\ i > 0 /\ MaxIndex \in Nat /\ MaxIndex > 0
  BY IndexFacts DEF DataIndices
<1>2. q * MaxIndex \in Nat
  BY <1>1
<1> DEFINE n == q * MaxIndex + i
<1>3. n - 1 = q * MaxIndex + (i - 1) /\ n - 1 \in Nat /\ n \in Nat /\ n # 0
  BY <1>1, <1>2
<1> HIDE DEF n
<1>4. (n - 1) % MaxIndex = i - 1
  BY <1>1, <1>3, RemainderIs
<1>5. IndexOf(n) = i - 1 + 1
  BY <1>3, <1>4 DEF IndexOf
<1>6. IndexOf(n) = i
  BY <1>1, <1>5
<1> QED
  BY <1>3, <1>6 DEF n

(* Messages that are less than a lap apart do not share an index.          *)
LEMMA IndexOfSame ==
  ASSUME NEW a \in Nat, NEW b \in Nat, IndexOf(a) = IndexOf(b),
         a < b + MaxIndex, b < a + MaxIndex
  PROVE  a = b
<1>1. MaxIndex \in Nat /\ MaxIndex > 0 /\ 0 \notin DataIndices
  BY IndexFacts DEF DataIndices
<1>2. CASE a = 0 \/ b = 0
  BY <1>1, <1>2, IndexOfType
<1>3. CASE a > 0 /\ b > 0
  <2> DEFINE i == IndexOf(a)
  <2>1. PICK p \in Nat : a = p * MaxIndex + i
    BY <1>3, IndexOfLaps
  <2>2. PICK q \in Nat : b = q * MaxIndex + i
    BY <1>3, IndexOfLaps
  <2>3. i \in Nat
    BY <1>1, IndexOfType
  <2> HIDE DEF i
  <2>4. p * MaxIndex \in Nat /\ q * MaxIndex \in Nat
    BY <1>1
  <2>5. ~(p < q)
    BY <1>1, <2>1, <2>2, <2>3, <2>4, FactorIs
  <2>6. ~(q < p)
    BY <1>1, <2>1, <2>2, <2>3, <2>4, FactorIs
  <2> QED
    BY <2>1, <2>2, <2>5, <2>6
<1> QED
  BY <1>2, <1>3

(* Counting on from a message gives the indices of those that follow it.   *)
LEMMA IndexOfAdvance ==
  ASSUME NEW n \in Nat, NEW k \in 0 .. MaxIndex
  PROVE  Advance(IndexOf(n), k) = IndexOf(n + k)
<1> DEFINE i == IndexOf(n)
<1>1. MaxIndex \in Nat /\ MaxIndex > 0 /\ k \in Nat
  BY IndexFacts
<1>2. i \in 0 .. MaxIndex
  BY IndexOfType
<1>3. PICK q \in Nat : n = q * MaxIndex + i
  <2>1. CASE n = 0
    <3>1. 0 \in Nat /\ n = 0 * MaxIndex + i
      BY <1>1, <2>1, IndexOfType
    <3> QED
      BY <3>1
  <2>2. CASE n > 0
    BY <2>2, IndexOfLaps
  <2> QED
    BY <2>1, <2>2
<1>4. k = 0 => Advance(i, k) = i /\ n + k = n
  BY DEF Advance
<1>5. k > 0 => Advance(i, k) = IF i + k > MaxIndex THEN i + k - MaxIndex ELSE i + k
  BY <1>1, <1>2 DEF Advance
<1>6. q * MaxIndex \in Nat /\ (q + 1) * MaxIndex = q * MaxIndex + MaxIndex
  BY <1>1
<1>7. CASE k > 0 /\ i + k > MaxIndex
  <2>1. i + k - MaxIndex \in DataIndices /\ q + 1 \in Nat
    BY <1>1, <1>2, <1>7 DEF DataIndices
  <2>2. n + k = (q + 1) * MaxIndex + (i + k - MaxIndex)
    BY <1>1, <1>2, <1>3, <1>6
  <2> QED
    BY <1>5, <1>7, <2>1, <2>2, LapsIndexOf
<1>8. CASE k > 0 /\ i + k <= MaxIndex
  <2>1. i + k \in DataIndices
    BY <1>1, <1>2, <1>8 DEF DataIndices
  <2>2. n + k = q * MaxIndex + (i + k)
    BY <1>1, <1>2, <1>3, <1>6
  <2>3. Advance(i, k) = i + k
    BY <1>1, <1>2, <1>5, <1>8
  <2> QED
    BY <2>1, <2>2, <2>3, LapsIndexOf
<1> QED
  BY <1>1, <1>2, <1>4, <1>7, <1>8

LEMMA IndexOfNext ==
  ASSUME NEW n \in Nat
  PROVE  /\ NextIndex(IndexOf(n)) = IndexOf(n + 1)
         /\ IncrementIndex(IndexOf(n)) = IndexOf(n + 1)
<1> DEFINE i == IndexOf(n)
<1>1. i \in 0 .. MaxIndex /\ MaxIndex \in Nat /\ MaxIndex > 0 /\ StartIndex = MaxIndex + 1
  BY IndexOfType, IndexFacts DEF StartIndex
<1>2. Advance(i, 1) = IndexOf(n + 1)
  BY <1>1, IndexOfAdvance
<1> HIDE DEF i
<1>3. Advance(i, 1) = NextIndex(i) /\ Advance(i, 1) = IncrementIndex(i)
  BY <1>1 DEF Advance, NextIndex, IncrementIndex
<1> QED
  BY <1>2, <1>3 DEF i

(* The reader takes a packet for new when its message is, if the message   *)
(* is one the sender has room for and not too far behind the reader.       *)
LEMMA InRangeIs ==
  ASSUME NEW del \in Nat, NEW n \in Nat, n <= del + BufferSize,
         NEW gap \in Nat, gap + BufferSize <= MaxIndex, del < n + gap
  PROVE  InRange(IndexOf(del), IndexOf(n)) <=> n > del
<1>1. /\ MaxIndex \in Nat /\ BufferSize \in Nat /\ BufferSize < MaxIndex
      /\ \A k \in 1 .. BufferSize : k \in 0 .. MaxIndex /\ k \in Nat
  BY IndexFacts, IndexAssumption DEF IndexAssumption
<1>2. \A k \in 1 .. BufferSize : Advance(IndexOf(del), k) = IndexOf(del + k)
  BY <1>1, IndexOfAdvance
<1>3. ASSUME n > del
      PROVE  InRange(IndexOf(del), IndexOf(n))
  <2>1. n - del \in 1 .. BufferSize /\ del + (n - del) = n
    BY <1>1, <1>3
  <2> QED
    BY <1>2, <2>1 DEF InRange
<1>4. ASSUME InRange(IndexOf(del), IndexOf(n))
      PROVE  n > del
  <2>1. PICK k \in 1 .. BufferSize : IndexOf(n) = IndexOf(del + k)
    BY <1>2, <1>4 DEF InRange
  <2>2. del + k \in Nat /\ n < (del + k) + MaxIndex /\ del + k < n + MaxIndex
    BY <1>1
  <2>3. n = del + k
    BY <2>1, <2>2, IndexOfSame
  <2> QED
    BY <1>1, <2>3
<1> QED
  BY <1>3, <1>4

(* Only a data packet is ever in range. *)
LEMMA InRangeType ==
  ASSUME NEW last \in 0 .. MaxIndex, NEW i, InRange(last, i)
  PROVE  i \in DataIndices
<1>1. PICK k \in 1 .. BufferSize : i = Advance(last, k)
  BY DEF InRange
<1>2. /\ MaxIndex \in Nat /\ k \in Nat /\ k > 0 /\ k < MaxIndex
      /\ ~(last > MaxIndex)
  BY IndexFacts, IndexAssumption DEF IndexAssumption
<1>3. i = IF last + k > MaxIndex THEN last + k - MaxIndex ELSE last + k
  BY <1>1, <1>2 DEF Advance
<1> QED
  BY <1>2, <1>3 DEF DataIndices

-----------------------------------------------------------------------------
(* The closed forms of PacketIndex and the loops of IndexLoops.  A loop is *)
(* a recursive function: the function of the closed forms satisfies its    *)
(* equation, and by induction nothing else does.                           *)

Natural == INSTANCE FileProofs

LEMMA AdvanceNext ==
  ASSUME NEW i \in Indices, NEW k \in Nat, k + 1 <= MaxIndex
  PROVE  /\ Advance(i, k + 1) = IncrementIndex(Advance(i, k))
         /\ i <= MaxIndex => Advance(i, k + 1) = NextIndex(Advance(i, k))
<1> DEFINE from == IF i > MaxIndex THEN 0 ELSE i
<1>1. /\ MaxIndex \in Nat /\ from \in 0 .. MaxIndex /\ i \in 0 .. MaxIndex + 1
      /\ i <= MaxIndex => from = i
      /\ ~ (i <= MaxIndex) => i = MaxIndex + 1 /\ from = 0
  BY IndexFacts DEF Indices, StartIndex
<1>2. Advance(i, k) = IF k = 0 THEN i
                      ELSE IF from + k > MaxIndex THEN from + k - MaxIndex ELSE from + k
  <2> HIDE DEF from
  <2>1. Advance(i, k) = CASE k = 0 -> i
                          [] k > 0 /\ from + k > MaxIndex -> from + k - MaxIndex
                          [] k > 0 /\ from + k <= MaxIndex -> from + k
    BY DEF Advance, from
  <2> QED
    BY <1>1, <2>1
<1>3. Advance(i, k + 1) = IF from + k + 1 > MaxIndex THEN from + k + 1 - MaxIndex ELSE from + k + 1
  <2> HIDE DEF from
  <2>1. Advance(i, k + 1) = CASE k + 1 = 0 -> i
                              [] k + 1 > 0 /\ from + (k + 1) > MaxIndex -> from + (k + 1) - MaxIndex
                              [] k + 1 > 0 /\ from + (k + 1) <= MaxIndex -> from + (k + 1)
    BY DEF Advance, from
  <2> QED
    BY <1>1, <2>1
<1> DEFINE here == Advance(i, k)
           there == Advance(i, k + 1)
<1> HIDE DEF from, here, there
<1>4. there = IncrementIndex(here)
  <2>1. CASE k = 0 /\ ~ (i <= MaxIndex)
    BY <1>1, <1>2, <1>3, <2>1 DEF IncrementIndex, StartIndex, here, there
  <2>2. CASE ~ (k = 0 /\ ~ (i <= MaxIndex))
    <3>1. here = IF from + k > MaxIndex THEN from + k - MaxIndex ELSE from + k
      BY <1>1, <1>2, <2>2 DEF here
    <3> QED
      BY <1>1, <1>3, <3>1 DEF IncrementIndex, StartIndex, there
  <2> QED
    BY <2>1, <2>2
<1>5. ASSUME i <= MaxIndex PROVE there = NextIndex(here)
  <2>1. here = IF from + k > MaxIndex THEN from + k - MaxIndex ELSE from + k
    BY <1>1, <1>2, <1>5 DEF here
  <2> QED
    BY <1>1, <1>3, <1>5, <2>1 DEF NextIndex, StartIndex, there
<1> QED
  BY <1>4, <1>5 DEF here, there

LEMMA InRangeLoops ==
  ASSUME NEW last \in 0 .. MaxIndex, NEW i
  PROVE  InRange(last, i) <=> InRangeLoop(last, i)
<1> DEFINE n == BufferSize
           Pass(g, j) == IF j = 0 THEN last ELSE NextIndex(g[j - 1])
           Is(g) == g = [j \in 0 .. n |-> Pass(g, j)]
           closed == [j \in 0 .. n |-> Advance(last, j)]
           test == CHOOSE g : Is(g)
<1>1. n \in Nat /\ n <= MaxIndex /\ MaxIndex \in Nat /\ last \in Indices /\ last <= MaxIndex
  BY IndexFacts, IndexAssumption DEF IndexAssumption, Indices, StartIndex
<1> HIDE DEF n
<1>2. \A j \in 0 .. n : j # 0 => j - 1 \in 0 .. n /\ Advance(last, j) = NextIndex(Advance(last, j - 1))
  <2> TAKE j \in 0 .. n
  <2> HAVE j # 0
  <2>1. j - 1 \in Nat /\ (j - 1) + 1 <= MaxIndex /\ (j - 1) + 1 = j /\ j - 1 \in 0 .. n
    BY <1>1
  <2>2. Advance(last, (j - 1) + 1) = NextIndex(Advance(last, j - 1))
    BY <1>1, <2>1, AdvanceNext
  <2> QED
    BY <2>1, <2>2
<1>3. Is(closed)
  <2>1. \A j \in 0 .. n : closed[j] = Pass(closed, j)
    <3> TAKE j \in 0 .. n
    <3>1. CASE j = 0
      BY <3>1 DEF Advance
    <3>2. CASE j # 0
      BY <1>2, <3>2
    <3> QED
      BY <3>1, <3>2
  <2>2. closed = [j \in 0 .. n |-> closed[j]]
    OBVIOUS
  <2> HIDE DEF closed, Pass
  <2> QED
    BY <2>1, <2>2
<1>4. Is(test)
  <2> HIDE DEF Is, closed
  <2> QED
    BY <1>3
<1>5. \A j \in 0 .. n : test[j] = IF j = 0 THEN last ELSE NextIndex(test[j - 1])
  <2> HIDE DEF test
  <2> QED
    BY <1>4
<1> DEFINE same == {j \in Nat : j <= n => test[j] = Advance(last, j)}
<1>6. InRangeLoop(last, i) <=> \E j \in 1 .. n : test[j] = i
  BY DEF InRangeLoop, n
<1> HIDE DEF test
<1>7. 0 \in same
  BY <1>1, <1>5 DEF Advance
<1>8. ASSUME NEW j \in Nat, j \in same
      PROVE  j + 1 \in same
  <2> SUFFICES ASSUME j + 1 <= n
               PROVE  test[j + 1] = Advance(last, j + 1)
    OBVIOUS
  <2>1. j + 1 \in 0 .. n /\ j + 1 # 0 /\ (j + 1) - 1 = j /\ j <= n
    BY <1>1
  <2>2. test[j] = Advance(last, j)
    BY <1>8, <2>1
  <2>3. test[j + 1] = NextIndex(test[j])
    BY <1>5, <2>1
  <2>4. Advance(last, j + 1) = NextIndex(Advance(last, j))
    BY <1>2, <2>1
  <2> QED
    BY <2>2, <2>3, <2>4
<1> HIDE DEF same
<1>9. Nat \subseteq same
  BY <1>7, <1>8, Natural!NaturalInduction
<1>10. \A j \in 1 .. n : test[j] = Advance(last, j)
  <2> TAKE j \in 1 .. n
  <2>1. j \in same /\ j <= n
    BY <1>1, <1>9
  <2> QED
    BY <2>1 DEF same
<1> QED
  BY <1>6, <1>10 DEF InRange, n

LEMMA ScanIs ==
  ASSUME NEW i \in Indices, NEW j \in 0 .. MaxGap
  PROVE  Scan(i)[j] = Advance(i, j)
<1> DEFINE n == MaxGap
           Pass(g, k) == IF k = 0 THEN i ELSE IncrementIndex(g[k - 1])
           Is(g) == g = [k \in 0 .. n |-> Pass(g, k)]
           closed == [k \in 0 .. n |-> Advance(i, k)]
           next == CHOOSE g : Is(g)
<1>1. n \in Nat /\ n <= MaxIndex /\ MaxIndex \in Nat
  BY IndexFacts
<1>2. Scan(i) = next
  BY DEF Scan
<1> HIDE DEF n
<1>3. \A k \in 0 .. n : k # 0 => k - 1 \in 0 .. n /\ Advance(i, k) = IncrementIndex(Advance(i, k - 1))
  <2> TAKE k \in 0 .. n
  <2> HAVE k # 0
  <2>1. k - 1 \in Nat /\ (k - 1) + 1 <= MaxIndex /\ (k - 1) + 1 = k /\ k - 1 \in 0 .. n
    BY <1>1
  <2>2. Advance(i, (k - 1) + 1) = IncrementIndex(Advance(i, k - 1))
    BY <1>1, <2>1, AdvanceNext
  <2> QED
    BY <2>1, <2>2
<1>4. Is(closed)
  <2>1. \A k \in 0 .. n : closed[k] = Pass(closed, k)
    <3> TAKE k \in 0 .. n
    <3>1. CASE k = 0
      BY <3>1 DEF Advance
    <3>2. CASE k # 0
      BY <1>3, <3>2
    <3> QED
      BY <3>1, <3>2
  <2>2. closed = [k \in 0 .. n |-> closed[k]]
    OBVIOUS
  <2> HIDE DEF closed, Pass
  <2> QED
    BY <2>1, <2>2
<1>5. Is(next)
  <2> HIDE DEF Is, closed
  <2> QED
    BY <1>4
<1>6. \A k \in 0 .. n : next[k] = IF k = 0 THEN i ELSE IncrementIndex(next[k - 1])
  <2> HIDE DEF next
  <2> QED
    BY <1>5
<1> DEFINE same == {k \in Nat : k <= n => next[k] = Advance(i, k)}
<1> HIDE DEF next
<1>7. 0 \in same
  BY <1>1, <1>6 DEF Advance
<1>8. ASSUME NEW k \in Nat, k \in same
      PROVE  k + 1 \in same
  <2> SUFFICES ASSUME k + 1 <= n
               PROVE  next[k + 1] = Advance(i, k + 1)
    OBVIOUS
  <2>1. k + 1 \in 0 .. n /\ k + 1 # 0 /\ (k + 1) - 1 = k /\ k <= n
    BY <1>1
  <2>2. next[k] = Advance(i, k)
    BY <1>8, <2>1
  <2>3. next[k + 1] = IncrementIndex(next[k])
    BY <1>6, <2>1
  <2>4. Advance(i, k + 1) = IncrementIndex(Advance(i, k))
    BY <1>3, <2>1
  <2> QED
    BY <2>2, <2>3, <2>4
<1> HIDE DEF same
<1>9. Nat \subseteq same
  BY <1>7, <1>8, Natural!NaturalInduction
<1>10. j \in same /\ j <= n
  BY <1>1, <1>9 DEF n
<1> QED
  BY <1>2, <1>10 DEF same

LEMMA PrecedesLoops ==
  ASSUME NEW i \in Indices, NEW sent
  PROVE  PrecedesIndex(i, sent) <=> PrecedesLoop(i, sent)
<1>1. \A j \in 1 .. MaxGap : Scan(i)[j] = Advance(i, j)
  BY ScanIs, IndexFacts
<1> QED
  BY <1>1 DEF PrecedesIndex, PrecedesLoop

(* A scan that is shorter than half the index range finds no packet both   *)
(* before and after another.                                               *)
LEMMA PrecedesOneWay ==
  ASSUME 2 * MaxGap < MaxIndex, NEW i \in Indices, NEW j \in Indices,
         PrecedesIndex(i, j)
  PROVE  ~PrecedesIndex(j, i)
<1> SUFFICES ASSUME PrecedesIndex(j, i) PROVE FALSE
  OBVIOUS
<1>1. PICK k \in 1 .. MaxGap : j = Advance(i, k)
  BY DEF PrecedesIndex
<1>2. PICK l \in 1 .. MaxGap : i = Advance(j, l)
  BY DEF PrecedesIndex
<1>3. /\ MaxIndex \in Nat /\ MaxGap \in Nat /\ k \in Nat /\ l \in Nat
      /\ k <= MaxGap /\ l <= MaxGap /\ k > 0 /\ l > 0
      /\ i \in 0 .. MaxIndex + 1 /\ j \in 0 .. MaxIndex + 1
  BY IndexFacts DEF Indices, StartIndex
<1> DEFINE a == IF i > MaxIndex THEN 0 ELSE i
           b == IF j > MaxIndex THEN 0 ELSE j
<1>4. a \in 0 .. MaxIndex /\ b \in 0 .. MaxIndex
  BY <1>3
<1>5. j = IF a + k > MaxIndex THEN a + k - MaxIndex ELSE a + k
  <2> HIDE DEF a
  <2>1. j = CASE k = 0 -> i
              [] k > 0 /\ a + k > MaxIndex -> a + k - MaxIndex
              [] k > 0 /\ a + k <= MaxIndex -> a + k
    BY <1>1 DEF Advance, a
  <2> QED
    BY <1>3, <1>4, <2>1
<1>6. i = IF b + l > MaxIndex THEN b + l - MaxIndex ELSE b + l
  <2> HIDE DEF b
  <2>1. i = CASE l = 0 -> j
              [] l > 0 /\ b + l > MaxIndex -> b + l - MaxIndex
              [] l > 0 /\ b + l <= MaxIndex -> b + l
    BY <1>2 DEF Advance, b
  <2> QED
    BY <1>3, <1>4, <2>1
<1>7. i <= MaxIndex /\ j <= MaxIndex /\ a = i /\ b = j
  <2>1. i <= MaxIndex /\ j <= MaxIndex
    <3> HIDE DEF a, b
    <3> QED
      BY <1>3, <1>4, <1>5, <1>6
  <2> QED
    BY <1>3, <2>1
<1> HIDE DEF a, b
<1> QED
  BY <1>3, <1>5, <1>6, <1>7

(* A loop that returns at a hit returns at the first. *)
LEMMA FirstHitIs ==
  ASSUME NEW from \in Nat, NEW to \in Nat, from <= to, NEW hits
  PROVE  /\ FirstHit(from, to, hits) \in from .. to
         /\ FirstHit(from, to, hits) < to => FirstHit(from, to, hits) \in hits
         /\ \A y \in from .. FirstHit(from, to, hits) - 1 : y \notin hits
<1> DEFINE Stops(x) == x = to \/ x \in hits
           Pass(g, j) == IF Stops(j) THEN j ELSE g[j + 1]
           Is(g) == g = [j \in from .. to |-> Pass(g, j)]
           First(j, x) == x \in j .. to /\ Stops(x) /\ \A y \in j .. x - 1 : ~ Stops(y)
           closed == [j \in from .. to |-> CHOOSE x : First(j, x)]
           at == CHOOSE g : Is(g)
<1>1. FirstHit(from, to, hits) = at[from]
  BY DEF FirstHit
<1>2. ASSUME NEW j \in from .. to
      PROVE  \E x : First(j, x)
  <2> DEFINE stops == {x \in j .. to : Stops(x)}
  <2>1. to \in stops /\ stops \subseteq Nat
    OBVIOUS
  <2> HIDE DEF stops
  <2>2. PICK x \in stops : \A y \in stops : x <= y
    BY <2>1, Natural!LeastNatural
  <2>3. x \in j .. to /\ Stops(x)
    BY <2>2 DEF stops
  <2>4. ASSUME NEW y \in j .. x - 1, Stops(y) PROVE FALSE
    <3>1. y \in j .. to /\ y < x
      BY <2>3
    <3>2. y \in stops
      BY <2>4, <3>1 DEF stops
    <3> QED
      BY <2>2, <2>3, <3>1, <3>2
  <2> QED
    BY <2>3, <2>4
<1>3. ASSUME NEW j \in from .. to, NEW x, NEW y, First(j, x), First(j, y)
      PROVE  x = y
  <2>1. x \in Nat /\ y \in Nat /\ j \in Nat
    BY <1>3
  <2>2. ~ (x < y) /\ ~ (y < x)
    BY <1>3, <2>1
  <2> QED
    BY <2>1, <2>2
<1> HIDE DEF First
<1>4. \A j \in from .. to : First(j, closed[j])
  BY <1>2
<1>5. \A j \in from .. to : closed[j] = Pass(closed, j)
  <2> TAKE j \in from .. to
  <2>1. CASE Stops(j)
    <3>1. First(j, j)
      BY <2>1 DEF First
    <3> QED
      BY <1>3, <1>4, <2>1, <3>1
  <2>2. CASE ~ Stops(j)
    <3>1. j + 1 \in from .. to
      BY <2>2
    <3>2. First(j + 1, closed[j + 1])
      BY <1>4, <3>1
    <3> HIDE DEF closed, Stops
    <3>3. First(j, closed[j + 1])
      BY <2>2, <3>1, <3>2 DEF First
    <3> QED
      BY <1>3, <1>4, <2>2, <3>3
  <2> QED
    BY <2>1, <2>2
<1>6. Is(closed)
  <2>1. closed = [j \in from .. to |-> closed[j]]
    OBVIOUS
  <2> HIDE DEF closed, Pass
  <2> QED
    BY <1>5, <2>1
<1>7. Is(at)
  <2> HIDE DEF Is, closed
  <2> QED
    BY <1>6
<1>8. \A j \in from .. to : at[j] = IF Stops(j) THEN j ELSE at[j + 1]
  <2> HIDE DEF at, Stops
  <2> QED
    BY <1>7
<1> HIDE DEF at, closed
<1> DEFINE first == {k \in Nat : k <= to - from => First(to - k, at[to - k])}
<1>9. 0 \in first
  <2>1. to - 0 = to /\ to \in from .. to
    OBVIOUS
  <2>2. at[to] = to /\ First(to, to)
    BY <1>8, <2>1 DEF First
  <2> QED
    BY <2>1, <2>2
<1>10. ASSUME NEW k \in Nat, k \in first
       PROVE  k + 1 \in first
  <2> SUFFICES ASSUME k + 1 <= to - from
               PROVE  First(to - (k + 1), at[to - (k + 1)])
    OBVIOUS
  <2> DEFINE j == to - (k + 1)
  <2>1. j \in from .. to /\ j + 1 = to - k /\ j + 1 \in from .. to /\ k <= to - from
    OBVIOUS
  <2>2. First(j + 1, at[j + 1])
    BY <1>10, <2>1
  <2> HIDE DEF j
  <2>3. CASE Stops(j)
    <3>1. First(j, j) /\ at[j] = j
      BY <1>8, <2>1, <2>3 DEF First
    <3> QED
      BY <3>1 DEF j
  <2>4. CASE ~ Stops(j)
    <3>1. at[j] = at[j + 1]
      BY <1>8, <2>1, <2>4
    <3> HIDE DEF Stops
    <3>2. First(j, at[j + 1])
      BY <2>1, <2>2, <2>4 DEF First
    <3> QED
      BY <3>1, <3>2 DEF j
  <2> QED
    BY <2>3, <2>4
<1> HIDE DEF first
<1>11. Nat \subseteq first
  BY <1>9, <1>10, Natural!NaturalInduction
<1>12. First(from, at[from])
  <2>1. to - from \in Nat /\ to - (to - from) = from
    OBVIOUS
  <2>2. to - from \in first
    BY <1>11, <2>1
  <2> QED
    BY <2>1, <2>2 DEF first
<1> QED
  BY <1>1, <1>12 DEF First

(* The reader's and the writer's arithmetic is what their loops compute:   *)
(* PacketRingBuffer::InRange and OutgoingPacketBuffer::PrecedesIndex, for  *)
(* every buffer size, index range and scan length.                         *)
THEOREM LoopsAreClosed == ClosedFormsAreLoops
<1> SUFFICES ASSUME NEW from \in Indices, NEW i \in Indices
             PROVE  /\ from <= MaxIndex => (InRange(from, i) <=> InRangeLoop(from, i))
                    /\ PrecedesIndex(from, i) <=> PrecedesLoop(from, i)
  BY DEF ClosedFormsAreLoops
<1>1. from <= MaxIndex => from \in 0 .. MaxIndex
  BY IndexFacts DEF Indices, StartIndex
<1> QED
  BY <1>1, InRangeLoops, PrecedesLoops

-----------------------------------------------------------------------------
(* The two ends of the line. *)
LEMMA PeerFacts ==
  ASSUME NEW d \in Devices
  PROVE  /\ Peer(d) \in Devices
         /\ Peer(d) # d
         /\ Peer(Peer(d)) = d
         /\ \A e \in Devices : e = d \/ e = Peer(d)
<1>1. PICK a \in Devices, b \in Devices : a # b /\ Devices = {a, b}
  BY LinkAssumption DEF LinkAssumption
<1>2. \A e \in Devices : Peer(e) \in Devices /\ Peer(e) # e
  <2> TAKE e \in Devices
  <2>1. \E g \in Devices : g # e
    BY <1>1
  <2> QED
    BY <2>1 DEF Peer
<1> QED
  BY <1>1, <1>2

-----------------------------------------------------------------------------
(* Acks. *)

LEMMA AckFacts ==
  /\ NoAck \in Acks /\ StartAck \in Acks
  /\ NoAck # StartAck
  /\ \A i \in 0 .. MaxIndex : OkAck(i) \in Acks /\ OkAck(i) # StartAck
  /\ \A i \in DataIndices : ErrorAck(i) \in Acks /\ ErrorAck(i) # StartAck
BY IndexFacts DEF Acks, NoAck, StartAck, OkAck, ErrorAck, DataIndices

-----------------------------------------------------------------------------
(* The reader's operators. *)

LEMMA RxSlotFacts ==
  /\ FreeRx \in RxSlots /\ BlankRx \in RxSlots /\ ErrorRx \in RxSlots
  /\ \A f \in Frames : ParsedRx(f) \in RxSlots
  /\ FreeRx.state = "free" /\ BlankRx.state = "blank" /\ ErrorRx.state = "error"
  /\ \A f \in Frames : ParsedRx(f).index = f.index
BY IndexFacts DEF RxSlots, FreeRx, BlankRx, ErrorRx, ParsedRx, Frames, Indices

(* HoldsData as a property of the reader alone. *)
Holds(r) == r.last # 0 \/ \E s \in Slots : IsData(r.slot[s])

LEMMA HoldsDataIs == \A d \in Devices : HoldsData(d) <=> Holds(rd[d])
BY DEF HoldsData, Holds, IsData

(* Cleanup changes nothing but the slots it frees. *)
LEMMA CleanupFacts ==
  ASSUME NEW r \in Readers
  PROVE  /\ Cleanup(r) \in Readers
         /\ Cleanup(r).inAck = r.inAck
         /\ Cleanup(r).outAck = r.outAck
         /\ Cleanup(r).started = r.started
         /\ Holds(Cleanup(r)) => Holds(r)
<1>1. \A s \in Slots : Cleanup(r).slot[s] \in {r.slot[s], FreeRx}
  BY DEF Cleanup, Readers
<1>2. Cleanup(r) \in Readers
  BY RxSlotFacts DEF Cleanup, Readers
<1>3. Cleanup(r).last = r.last
  BY DEF Cleanup, Readers
<1>4. ~IsData(FreeRx)
  BY RxSlotFacts DEF IsData
<1>5. Holds(Cleanup(r)) => Holds(r)
  BY <1>1, <1>3, <1>4 DEF Holds
<1> QED
  BY <1>2, <1>5 DEF Cleanup, Readers

LEMMA TakeSlotFacts ==
  ASSUME NEW r \in Readers, NEW s \in Slots
  PROVE  /\ TakeSlot(r, s) \in Readers
         /\ TakeSlot(r, s).inAck = r.inAck
         /\ TakeSlot(r, s).outAck = r.outAck
         /\ TakeSlot(r, s).started = r.started
         /\ Holds(TakeSlot(r, s)) => Holds(r)
<1> DEFINE c == Cleanup(r)
<1>1. c \in Readers
  BY CleanupFacts
<1> HIDE DEF c
<1>2. TakeSlot(r, s) = [c EXCEPT !.slot[s] = BlankRx, !.current = s]
  BY DEF TakeSlot, c
<1>3. TakeSlot(r, s) \in Readers
  <2> DEFINE q == [c.slot EXCEPT ![s] = BlankRx]
  <2>1. q \in [Slots -> RxSlots]
    BY <1>1, RxSlotFacts DEF Readers
  <2>2. TakeSlot(r, s) = [c EXCEPT !.slot = q, !.current = s]
    BY <1>2
  <2> HIDE DEF q
  <2> QED
    BY <1>1, <2>1, <2>2 DEF Readers
<1>4. /\ TakeSlot(r, s).inAck = c.inAck
      /\ TakeSlot(r, s).outAck = c.outAck
      /\ TakeSlot(r, s).started = c.started
      /\ TakeSlot(r, s).last = c.last
      /\ \A t \in Slots : TakeSlot(r, s).slot[t] \in {c.slot[t], BlankRx}
  BY <1>1, <1>2 DEF Readers
<1>5. ~IsData(BlankRx)
  BY RxSlotFacts DEF IsData
<1>6. Holds(TakeSlot(r, s)) => Holds(c)
  BY <1>4, <1>5 DEF Holds
<1> QED
  BY <1>3, <1>4, <1>6, CleanupFacts DEF c

LEMMA CloseFacts ==
  ASSUME NEW r \in Readers, r.current # NoSlot, NEW x \in RxSlots
  PROVE  /\ Close(r, x) \in Readers
         /\ Close(r, x).inAck = r.inAck
         /\ Close(r, x).outAck = r.outAck
         /\ Close(r, x).started = r.started
         /\ Holds(Close(r, x)) => Holds(r) \/ IsData(x)
<1>1. Close(r, x) \in Readers
  BY DEF Close, Readers
<1>2. /\ Close(r, x).last = r.last
      /\ \A t \in Slots : Close(r, x).slot[t] \in {r.slot[t], x}
  BY DEF Close, Readers
<1>3. Holds(Close(r, x)) => Holds(r) \/ IsData(x)
  BY <1>2 DEF Holds
<1> QED
  BY <1>1, <1>3 DEF Close, Readers

LEMMA ClearFacts ==
  ASSUME NEW r \in Readers
  PROVE  Clear(r) \in Readers /\ ~Holds(Clear(r))
<1>1. Clear(r) \in Readers
  <2> DEFINE q == [s \in Slots |-> FreeRx]
  <2>1. q \in [Slots -> RxSlots]
    BY RxSlotFacts
  <2>2. Clear(r) = [r EXCEPT !.slot = q, !.last = 0]
    BY DEF Clear
  <2>3. 0 \in 0 .. MaxIndex
    BY IndexFacts
  <2> HIDE DEF q
  <2> QED
    BY <2>1, <2>2, <2>3 DEF Readers
<1>2. Clear(r).last = 0 /\ \A s \in Slots : Clear(r).slot[s] = FreeRx
  BY DEF Clear, Readers
<1>3. ~IsData(FreeRx)
  BY RxSlotFacts DEF IsData
<1> QED
  BY <1>1, <1>2, <1>3 DEF Holds

-----------------------------------------------------------------------------
(* What a reader r may become, q, without a packet and by a packet f.      *)

Keeps(r, q) ==
  /\ q \in Readers
  /\ r.started => q.started
  /\ q.inAck = StartAck => r.inAck = StartAck \/ q.started
  /\ q.outAck = StartAck => r.outAck = StartAck
  /\ Holds(q) => Holds(r)

Takes(r, f, q) ==
  /\ q \in Readers
  /\ r.started => q.started
  /\ q.inAck = StartAck => r.inAck = StartAck \/ q.started
  /\ q.outAck = StartAck => r.outAck = StartAck \/ f.ack = StartAck
  /\ Holds(q) => Holds(r) \/ f.index \in DataIndices

LEMMA ReadHeaderErrorFacts ==
  ASSUME NEW r \in Readers, r.current # NoSlot, NEW f \in Frames
  PROVE  Takes(r, f, ReadHeaderError(r))
<1>1. ErrorRx \in RxSlots /\ ~IsData(ErrorRx)
  BY RxSlotFacts DEF IsData
<1> QED
  BY <1>1, CloseFacts DEF Takes, ReadHeaderError

LEMMA ReadStartFacts ==
  ASSUME NEW r \in Readers, NEW f \in Frames, NEW intact \in BOOLEAN
  PROVE  Takes(r, f, ReadStart(r, f, intact))
<1> DEFINE c == Clear(r)
           out == IF intact THEN f.ack ELSE NoAck
           q == ReadStart(r, f, intact)
<1>1. c \in Readers /\ ~Holds(c)
  BY ClearFacts
<1>2. out \in Acks /\ (out = StartAck => f.ack = StartAck)
  BY AckFacts DEF Frames
<1>3. q = [c EXCEPT !.current = NoSlot, !.inAck = StartAck, !.started = TRUE,
                    !.outAck = out]
  BY DEF ReadStart
<1> HIDE DEF c, out, q
<1>4. /\ q \in Readers
      /\ q.started
      /\ q.outAck = out
      /\ q.last = c.last
      /\ q.slot = c.slot
  BY <1>1, <1>2, <1>3, AckFacts DEF Readers
<1>5. ~Holds(q)
  BY <1>1, <1>4 DEF Holds
<1> QED
  BY <1>2, <1>4, <1>5 DEF Takes, q

LEMMA ReadNotStartedFacts ==
  ASSUME NEW r \in Readers, NEW f \in Frames, NEW intact \in BOOLEAN
  PROVE  Takes(r, f, ReadNotStarted(r, f, intact))
<1> DEFINE c == Clear(r)
           out == IF intact THEN f.ack ELSE NoAck
           q == ReadNotStarted(r, f, intact)
<1>1. /\ c \in Readers /\ ~Holds(c)
      /\ c.inAck = r.inAck
      /\ c.started = r.started
  BY ClearFacts DEF Clear, Readers
<1>2. out \in Acks /\ (out = StartAck => f.ack = StartAck)
  BY AckFacts DEF Frames
<1>3. q = [c EXCEPT !.current = NoSlot, !.outAck = out]
  BY DEF ReadNotStarted
<1> HIDE DEF c, out, q
<1>4. /\ q \in Readers
      /\ q.started = c.started
      /\ q.inAck = c.inAck
      /\ q.outAck = out
      /\ q.last = c.last
      /\ q.slot = c.slot
  BY <1>1, <1>2, <1>3 DEF Readers
<1>5. ~Holds(q)
  BY <1>1, <1>4 DEF Holds
<1> QED
  BY <1>1, <1>2, <1>4, <1>5 DEF Takes, q

LEMMA ReadDataErrorFacts ==
  ASSUME NEW r \in Readers, r.current # NoSlot,
         NEW f \in Frames, f.index # StartIndex
  PROVE  Takes(r, f, ReadDataError(r, f))
<1> DEFINE c == Close(r, ErrorRx)
           in == IF f.index # 0 THEN ErrorAck(f.index) ELSE c.inAck
           q == ReadDataError(r, f)
<1>1. /\ c \in Readers
      /\ c.inAck = r.inAck
      /\ c.started = r.started
      /\ Holds(c) => Holds(r)
  <2>1. ErrorRx \in RxSlots /\ ~IsData(ErrorRx)
    BY RxSlotFacts DEF IsData
  <2> QED
    BY <2>1, CloseFacts
<1>2. in \in Acks /\ (in = StartAck => c.inAck = StartAck)
  <2>1. f.index = 0 \/ f.index \in DataIndices
    BY IndexFacts DEF Frames
  <2> QED
    BY <1>1, <2>1, AckFacts, IndexFacts DEF Readers
<1>3. q = [c EXCEPT !.outAck = NoAck, !.inAck = in]
  BY <1>1 DEF ReadDataError, Readers
<1> HIDE DEF c, in, q
<1>4. /\ q \in Readers
      /\ q.started = c.started
      /\ q.inAck = in
      /\ q.outAck = NoAck
      /\ q.last = c.last
      /\ q.slot = c.slot
  BY <1>1, <1>2, <1>3, AckFacts DEF Readers
<1>5. Holds(q) => Holds(c)
  BY <1>4 DEF Holds
<1> QED
  BY <1>1, <1>2, <1>4, <1>5, AckFacts DEF Takes, q

LEMMA ReadParsedFacts ==
  ASSUME NEW r \in Readers, r.current # NoSlot,
         NEW f \in Frames, f.index # StartIndex
  PROVE  Takes(r, f, ReadParsed(r, f))
<1> DEFINE c == Close(r, ParsedRx(f))
           in == IF InRange(r.last, f.index) THEN c.inAck ELSE OkAck(f.index)
           q == ReadParsed(r, f)
<1>1. /\ c \in Readers
      /\ c.inAck = r.inAck
      /\ c.started = r.started
      /\ Holds(c) => Holds(r) \/ f.index \in DataIndices
  BY CloseFacts, RxSlotFacts DEF IsData
<1>2. in \in Acks /\ (in = StartAck => c.inAck = StartAck)
  <2>1. f.index \in 0 .. MaxIndex
    BY IndexFacts DEF Frames, Indices, StartIndex
  <2> QED
    BY <1>1, <2>1, AckFacts DEF Readers
<1>3. f.ack \in Acks
  BY DEF Frames
<1>4. q = [c EXCEPT !.outAck = f.ack, !.inAck = in]
  BY <1>1 DEF ReadParsed, Readers
<1> HIDE DEF c, in, q
<1>5. /\ q \in Readers
      /\ q.started = c.started
      /\ q.inAck = in
      /\ q.outAck = f.ack
      /\ q.last = c.last
      /\ q.slot = c.slot
  BY <1>1, <1>2, <1>3, <1>4 DEF Readers
<1>6. Holds(q) => Holds(c)
  BY <1>5 DEF Holds
<1> QED
  BY <1>1, <1>2, <1>5, <1>6 DEF Takes, q

(* Receive takes a packet the reader holds. *)
LEMMA PopPacketFacts ==
  ASSUME NEW r \in Readers, NEW s \in Slots, Poppable(r, s)
  PROVE  Keeps(r, PopPacket(r, s)) /\ r.slot[s].data \in Nat
<1> DEFINE i == r.slot[s].index
           q == PopPacket(r, s)
           slots == [r.slot EXCEPT ![s] = FreeRx]
<1>1. r.slot[s] \in RxSlots /\ r.last \in 0 .. MaxIndex
  BY DEF Readers
<1>2. i \in DataIndices /\ IsData(r.slot[s])
  BY <1>1, NextIndexType DEF Poppable, IsData
<1>3. Holds(r)
  BY <1>2 DEF Holds
<1>4. /\ slots \in [Slots -> RxSlots]
      /\ OkAck(i) \in Acks /\ OkAck(i) # StartAck
      /\ i \in 0 .. MaxIndex
  BY <1>2, RxSlotFacts, AckFacts, IndexFacts DEF Readers, DataIndices
<1>5. q = [r EXCEPT !.last = i, !.slot = slots, !.inAck = OkAck(i)]
  BY DEF PopPacket
<1> HIDE DEF i, slots, q
<1>6. /\ q \in Readers
      /\ q.started = r.started
      /\ q.inAck = OkAck(i)
      /\ q.outAck = r.outAck
  BY <1>4, <1>5 DEF Readers
<1> QED
  BY <1>1, <1>3, <1>4, <1>6 DEF Keeps, RxSlots, q

-----------------------------------------------------------------------------
(* The writer's operators. *)

LEMMA TxSlotFacts ==
  /\ FreeTx \in TxSlots /\ FreeTx.index = 0 /\ FreeTx.ack = NoAck
  /\ \A i \in Indices, n \in Nat :
       NewTx(i, n) \in TxSlots /\ NewTx(i, n).index = i /\ NewTx(i, n).ack = NoAck
<1>1. FreeTx \in TxSlots /\ FreeTx.index = 0 /\ FreeTx.ack = NoAck
  BY IndexFacts, AckFacts DEF TxSlots, FreeTx, Indices, StartIndex
<1>2. ASSUME NEW i \in Indices, NEW n \in Nat
      PROVE  NewTx(i, n) \in TxSlots /\ NewTx(i, n).index = i /\ NewTx(i, n).ack = NoAck
  BY <1>1 DEF TxSlots, NewTx
<1> QED
  BY <1>1, <1>2

(* What a writer w may become, q, while no packet is added: a slot keeps   *)
(* its packet and the packet its ack, or it is freed.                      *)
KeepsSlots(w, q) ==
  /\ q \in Writers
  /\ \A s \in Slots : q.slot[s].index \in {0, w.slot[s].index}
  /\ \A s \in Slots : q.slot[s].ack \in {NoAck, w.slot[s].ack}

LEMMA KeepsSlotsTransitive ==
  ASSUME NEW u, NEW v, NEW w, KeepsSlots(u, v), KeepsSlots(v, w)
  PROVE  KeepsSlots(u, w)
BY DEF KeepsSlots

LEMMA SetPendingFacts ==
  ASSUME NEW w \in Writers, NEW chosen, NEW flag \in BOOLEAN
  PROVE  /\ KeepsSlots(w, SetPending(w, chosen, flag))
         /\ SetPending(w, chosen, flag).started = w.started
<1> DEFINE new(s) == IF w.slot[s].index \in chosen \ {0}
                       THEN [w.slot[s] EXCEPT !.pending = flag] ELSE w.slot[s]
           slots == [s \in Slots |-> new(s)]
           q == SetPending(w, chosen, flag)
<1>1. \A s \in Slots : /\ new(s) \in TxSlots
                        /\ new(s).index = w.slot[s].index
                        /\ new(s).ack = w.slot[s].ack
  BY DEF Writers, TxSlots
<1>2. q = [w EXCEPT !.slot = slots]
  BY DEF SetPending
<1> HIDE DEF new
<1>3. slots \in [Slots -> TxSlots] /\ \A s \in Slots : slots[s] = new(s)
  BY <1>1
<1> HIDE DEF slots, q
<1>4. q \in Writers /\ q.slot = slots /\ q.started = w.started
  BY <1>2, <1>3 DEF Writers
<1> QED
  BY <1>1, <1>3, <1>4 DEF KeepsSlots, q

(* UpdateNextIndex sets nothing but the earliest index. *)
LEMMA UpdateNextIndexFacts ==
  ASSUME NEW w \in Writers
  PROVE  /\ UpdateNextIndex(w) \in Writers
         /\ UpdateNextIndex(w).slot = w.slot
         /\ UpdateNextIndex(w).started = w.started
         /\ UpdateNextIndex(w).current = w.current
<1> DEFINE start == IF w.started THEN w.earliest ELSE StartIndex
           Met(k) == FirstLive(w, start, k)
           found == CHOOSE k \in 0 .. MaxGap - 1 : Met(k)
           e == IF \E k \in 0 .. MaxGap - 1 : Met(k)
                  THEN Advance(start, found) ELSE start
<1>1. start \in 1 .. StartIndex
  BY IndexFacts DEF Writers, StartIndex
<1>2. UpdateNextIndex(w) = [w EXCEPT !.earliest = e]
  BY DEF UpdateNextIndex
<1> HIDE DEF start, Met
<1>3. ASSUME \E k \in 0 .. MaxGap - 1 : Met(k)
      PROVE  found \in 0 .. MaxGap
  BY <1>3, IndexFacts
<1> HIDE DEF found
<1>4. e \in 1 .. StartIndex
  BY <1>1, <1>3, AdvanceType
<1> HIDE DEF e
<1> QED
  BY <1>2, <1>4 DEF Writers

LEMMA RemovePacketFacts ==
  ASSUME NEW w \in Writers, NEW i \in Indices \ {0}
  PROVE  /\ KeepsSlots(w, RemovePacket(w, i))
         /\ RemovePacket(w, i).started = w.started
         /\ \A s \in Slots : RemovePacket(w, i).slot[s].index # i
<1> DEFINE older == {j \in Indices : PrecedesIndex(j, i)}
           new(s) == IF w.slot[s].index = i THEN FreeTx ELSE w.slot[s]
           slots == [s \in Slots |-> new(s)]
           kept == [w EXCEPT !.slot = slots]
           marked == SetPending(kept, older, TRUE)
           q == UpdateNextIndex(marked)
<1>1. CASE \E s \in Slots : Live(w, s) /\ w.slot[s].index = i
  <2>1. RemovePacket(w, i) = q
    BY <1>1 DEF RemovePacket
  <2>2. \A s \in Slots : /\ new(s) \in TxSlots
                          /\ new(s).index \in {0, w.slot[s].index}
                          /\ new(s).index # i
                          /\ new(s).ack \in {NoAck, w.slot[s].ack}
    BY TxSlotFacts DEF Writers
  <2> HIDE DEF new
  <2>3. slots \in [Slots -> TxSlots] /\ \A s \in Slots : slots[s] = new(s)
    BY <2>2
  <2> HIDE DEF slots
  <2>4. kept \in Writers /\ kept.slot = slots /\ kept.started = w.started
    BY <2>3 DEF Writers
  <2>5. KeepsSlots(w, kept)
    BY <2>2, <2>3, <2>4 DEF KeepsSlots
  <2> HIDE DEF kept, older
  <2>6. KeepsSlots(kept, marked) /\ marked.started = kept.started
    BY <2>4, SetPendingFacts
  <2> HIDE DEF marked
  <2>7. q \in Writers /\ q.slot = marked.slot /\ q.started = marked.started
    BY <2>6, UpdateNextIndexFacts DEF KeepsSlots
  <2> HIDE DEF q
  <2>8. KeepsSlots(w, marked)
    BY <2>5, <2>6, KeepsSlotsTransitive
  <2>9. KeepsSlots(w, q)
    BY <2>7, <2>8 DEF KeepsSlots
  <2>10. \A s \in Slots : q.slot[s].index # i
    BY <2>2, <2>3, <2>4, <2>6, <2>7 DEF KeepsSlots
  <2> QED
    BY <2>1, <2>4, <2>6, <2>7, <2>9, <2>10
<1>2. CASE ~\E s \in Slots : Live(w, s) /\ w.slot[s].index = i
  <2>1. RemovePacket(w, i) = w
    BY <1>2 DEF RemovePacket
  <2>2. KeepsSlots(w, w)
    BY DEF KeepsSlots
  <2> QED
    BY <1>2, <2>1, <2>2 DEF Live
<1> QED
  BY <1>1, <1>2

(* The start ack, and nothing else, starts the sequence; it removes the    *)
(* packet that opened it.                                                  *)
Follows(w, ack, q) ==
  /\ KeepsSlots(w, q)
  /\ q.started <=> (w.started \/ ack = StartAck)
  /\ ack = StartAck => \A s \in Slots : q.slot[s].index # StartIndex

LEMMA HandleAckFacts ==
  ASSUME NEW w \in Writers, NEW ack \in Acks
  PROVE  Follows(w, ack, HandleAck(w, ack))
<1>1. ack.index \in 0 .. MaxIndex /\ ack.error \in BOOLEAN
  BY DEF Acks
<1>2. KeepsSlots(w, w) /\ w.started \in BOOLEAN
  BY DEF KeepsSlots, Writers
<1>3. CASE ack.index # 0 /\ ack.error
  <2>1. ack # StartAck /\ ack # NoAck
    BY <1>3 DEF StartAck, NoAck
  <2>2. HandleAck(w, ack) = MarkResend(w, ack.index)
    BY <1>3, <2>1 DEF HandleAck
  <2> QED
    BY <1>2, <2>1, <2>2, SetPendingFacts DEF MarkResend, Follows
<1>4. CASE ack.index # 0 /\ ~ack.error
  <2>1. HandleAck(w, ack) = RemovePacket(w, ack.index)
    BY <1>4 DEF HandleAck, StartAck, NoAck
  <2>2. ack.index \in Indices \ {0}
    BY <1>1, <1>4, IndexFacts DEF Indices, StartIndex
  <2> QED
    BY <1>2, <1>4, <2>1, <2>2, RemovePacketFacts DEF Follows, StartAck
<1>5. CASE ack = StartAck
  <2> DEFINE removed == RemovePacket(w, StartIndex)
             q == StartSequence(w)
  <2>1. HandleAck(w, ack) = q
    BY <1>5, AckFacts DEF HandleAck, StartAck, NoAck
  <2>2. /\ KeepsSlots(w, removed)
        /\ \A s \in Slots : removed.slot[s].index # StartIndex
    BY RemovePacketFacts, IndexFacts DEF StartIndex
  <2>3. q = [removed EXCEPT !.started = TRUE, !.earliest = 1]
    BY DEF StartSequence
  <2>4. 1 \in 1 .. StartIndex
    BY IndexFacts DEF StartIndex
  <2> HIDE DEF removed, q
  <2>5. q \in Writers /\ q.slot = removed.slot /\ q.started
    BY <2>2, <2>3, <2>4 DEF KeepsSlots, Writers
  <2> QED
    BY <1>5, <2>1, <2>2, <2>5 DEF KeepsSlots, Follows
<1>6. CASE ack = NoAck
  <2>1. HandleAck(w, ack) = w
    BY <1>6, AckFacts DEF HandleAck, StartAck, NoAck
  <2> QED
    BY <1>2, <1>6, <2>1, AckFacts DEF Follows
<1>7. ack.index = 0 => ack = StartAck \/ ack = NoAck
  BY <1>1 DEF Acks, StartAck, NoAck
<1> QED
  BY <1>1, <1>3, <1>4, <1>5, <1>6, <1>7

LEMMA PreparedFacts ==
  ASSUME NEW w \in Writers, NEW ack \in Acks, NEW timedOut \in BOOLEAN
  PROVE  Follows(w, ack, Prepared(w, ack, timedOut))
<1> DEFINE acked == HandleAck(w, ack)
           marked == IF timedOut THEN MarkAllResend(acked) ELSE acked
           q == UpdateNextIndex(marked)
<1>1. Prepared(w, ack, timedOut) = q
  BY DEF Prepared
<1>2. Follows(w, ack, acked) /\ acked \in Writers
  BY HandleAckFacts DEF Follows, KeepsSlots
<1> HIDE DEF acked
<1>3. KeepsSlots(acked, marked) /\ marked.started = acked.started
  <2>1. CASE timedOut
    BY <1>2, <2>1, SetPendingFacts DEF MarkAllResend
  <2>2. CASE ~timedOut
    BY <1>2, <2>2 DEF KeepsSlots
  <2> QED
    BY <2>1, <2>2
<1> HIDE DEF marked
<1>4. q \in Writers /\ q.slot = marked.slot /\ q.started = marked.started
  BY <1>3, UpdateNextIndexFacts DEF KeepsSlots
<1> HIDE DEF q
<1>5. KeepsSlots(w, marked)
  BY <1>2, <1>3, KeepsSlotsTransitive DEF Follows
<1>6. KeepsSlots(w, q)
  BY <1>4, <1>5 DEF KeepsSlots
<1>7. ack = StartAck => \A s \in Slots : q.slot[s].index # StartIndex
  BY <1>2, <1>3, <1>4, IndexFacts DEF Follows, KeepsSlots, StartIndex
<1> QED
  BY <1>1, <1>2, <1>3, <1>4, <1>6, <1>7 DEF Follows

LEMMA SentFacts ==
  ASSUME NEW w \in Writers, NEW s \in Slots, NEW ack \in Acks
  PROVE  LET full == IncludeAck(w, s, ack)
             q == MarkSent(full, w.slot[s].index)
         IN /\ FrameOf(full, s) \in Frames
            /\ FrameOf(full, s).index = w.slot[s].index
            /\ FrameOf(full, s).ack \in {w.slot[s].ack, ack}
            /\ q \in Writers
            /\ q.started = w.started
            /\ \A t \in Slots : /\ q.slot[t].index \in {0, w.slot[t].index}
                               /\ q.slot[t].ack \in {NoAck, w.slot[t].ack, ack}
<1> DEFINE full == IncludeAck(w, s, ack)
           q == MarkSent(full, w.slot[s].index)
           x == [w.slot[s] EXCEPT !.ack = ack]
           slots == [w.slot EXCEPT ![s] = x]
<1>1. w.slot[s] \in TxSlots /\ w.slot \in [Slots -> TxSlots]
  BY DEF Writers
<1>2. x \in TxSlots /\ x.index = w.slot[s].index /\ x.ack = ack
  BY <1>1 DEF TxSlots
<1>3. full \in {w, [w EXCEPT !.slot = slots]}
  BY <1>1 DEF IncludeAck, Writers, TxSlots
<1> HIDE DEF x
<1>4. /\ slots \in [Slots -> TxSlots]
      /\ \A t \in Slots : /\ slots[t].index = w.slot[t].index
                         /\ slots[t].ack \in {w.slot[t].ack, ack}
  BY <1>1, <1>2
<1> HIDE DEF slots, full
<1>5. /\ full \in Writers
      /\ full.started = w.started
      /\ full.slot \in [Slots -> TxSlots]
      /\ \A t \in Slots : /\ full.slot[t].index = w.slot[t].index
                         /\ full.slot[t].ack \in {w.slot[t].ack, ack}
  BY <1>3, <1>4 DEF Writers
<1>6. /\ FrameOf(full, s) \in Frames
      /\ FrameOf(full, s).index = w.slot[s].index
      /\ FrameOf(full, s).ack \in {w.slot[s].ack, ack}
  BY <1>5 DEF FrameOf, Frames, TxSlots
<1>7. KeepsSlots(full, q) /\ q.started = full.started
  BY <1>5, SetPendingFacts DEF MarkSent
<1> HIDE DEF q
<1>8. /\ q \in Writers
      /\ q.started = w.started
      /\ \A t \in Slots : /\ q.slot[t].index \in {0, w.slot[t].index}
                         /\ q.slot[t].ack \in {NoAck, w.slot[t].ack, ack}
  BY <1>5, <1>7 DEF KeepsSlots
<1> QED
  BY <1>6, <1>8 DEF full, q

LEMMA AddFacts ==
  ASSUME NEW w \in Writers, NEW s \in Slots, NEW n \in Nat
  PROVE  LET q == AddToOutgoingQueue(w, s, n)
         IN /\ q \in Writers
            /\ q.started = w.started
            /\ \A t \in Slots : q.slot[t].index \in DataIndices \cup {w.slot[t].index}
            /\ \A t \in Slots : q.slot[t].ack \in {NoAck, w.slot[t].ack}
<1> DEFINE i == IncrementIndex(w.current)
           q == AddToOutgoingQueue(w, s, n)
           slots == [w.slot EXCEPT ![s] = NewTx(i, n)]
<1>1. i \in DataIndices
  BY NextIndexType DEF Writers
<1>2. i \in Indices /\ i \in 0 .. MaxIndex
  BY <1>1, IndexFacts DEF DataIndices
<1> HIDE DEF i
<1>3. /\ NewTx(i, n) \in TxSlots
      /\ NewTx(i, n).index = i
      /\ NewTx(i, n).ack = NoAck
  BY <1>2, TxSlotFacts
<1>4. /\ slots \in [Slots -> TxSlots]
      /\ \A t \in Slots : slots[t] \in {w.slot[t], NewTx(i, n)}
  BY <1>3 DEF Writers
<1>5. q = [w EXCEPT !.current = i, !.slot = slots]
  BY DEF AddToOutgoingQueue, i
<1> HIDE DEF slots, q
<1>6. q \in Writers /\ q.started = w.started /\ q.slot = slots
  BY <1>2, <1>4, <1>5 DEF Writers
<1> QED
  BY <1>1, <1>3, <1>4, <1>6 DEF q

-----------------------------------------------------------------------------
(* The effect of a step of device d, by what it changes. *)

(* No packet comes or goes; the program or the ring buffer acts. *)
ReaderStep(d, r) ==
  /\ rd' = [rd EXCEPT ![d] = r]
  /\ Keeps(rd[d], r)
  /\ UNCHANGED <<wr, chan>>

(* A packet has arrived, whatever is left of it. *)
ArrivalStep(d, r) ==
  /\ chan[d] # <<>>
  /\ rd' = [rd EXCEPT ![d] = r]
  /\ Takes(rd[d], Head(chan[d]), r)
  /\ chan' = [chan EXCEPT ![d] = Tail(@)]
  /\ UNCHANGED wr

(* The packet f of writer w, or none, is sent. *)
WriteStep(d, w, q, r, f) ==
  /\ Follows(wr[d], rd[d].outAck, w)
  /\ wr' = [wr EXCEPT ![d] = q]
  /\ q \in Writers
  /\ q.started = w.started
  /\ \A t \in Slots : q.slot[t].index \in {0, w.slot[t].index}
  /\ \A t \in Slots : q.slot[t].ack \in {NoAck, w.slot[t].ack, rd[d].inAck}
  /\ rd' = [rd EXCEPT ![d] = r]
  /\ r \in Readers
  /\ r.slot = rd[d].slot /\ r.last = rd[d].last /\ r.started = rd[d].started
  /\ r.inAck \in {NoAck, rd[d].inAck} /\ r.outAck = NoAck
  /\ f \in Frames
  /\ f.index = 0 \/ \E t \in Slots : f.index = w.slot[t].index
  /\ f.ack = rd[d].inAck \/ \E t \in Slots : f.ack = w.slot[t].ack
  /\ chan' \in {chan, [chan EXCEPT ![Peer(d)] = Append(@, f)]}

(* The program adds a message. *)
TransmitStep(d, q) ==
  /\ wr[d].started
  /\ wr' = [wr EXCEPT ![d] = q]
  /\ q \in Writers
  /\ q.started
  /\ \A t \in Slots : q.slot[t].index \in DataIndices \cup {wr[d].slot[t].index}
  /\ \A t \in Slots : q.slot[t].ack \in {NoAck, wr[d].slot[t].ack}
  /\ UNCHANGED <<rd, chan>>

LEMMA SoundOrFaultyReadStep ==
  ASSUME TypeOK, NEW d \in Devices, SoundRead(d) \/ FaultyRead(d)
  PROVE  \E r : ReaderStep(d, r) \/ ArrivalStep(d, r)
<1> DEFINE f == Head(chan[d])
<1>1. rd[d] \in Readers /\ chan[d] \in Seq(Frames)
  BY DEF TypeOK
<1>2. chan[d] # <<>> => f \in Frames
  BY <1>1
<1> HIDE DEF f
<1>3. ASSUME NEW r, ReadLastByte(d, r), Takes(rd[d], f, r)
      PROVE  ArrivalStep(d, r)
  BY <1>3 DEF ReadLastByte, CanRead, ArrivalStep, f
<1>4. ASSUME NEW r, ReadLastByte(d, r)
      PROVE  f \in Frames /\ rd[d].current # NoSlot
  BY <1>2, <1>4 DEF ReadLastByte, CanRead
<1>5. CASE ReadFirstByte(d)
  <2>1. PICK s \in Slots : rd' = [rd EXCEPT ![d] = TakeSlot(rd[d], s)]
    BY <1>5 DEF ReadFirstByte
  <2>2. Keeps(rd[d], TakeSlot(rd[d], s))
    BY <1>1, TakeSlotFacts DEF Keeps
  <2> QED
    BY <1>5, <2>1, <2>2 DEF ReaderStep, ReadFirstByte
<1>6. CASE ReadNoSpace(d)
  <2>1. Keeps(rd[d], Cleanup(rd[d]))
    BY <1>1, CleanupFacts DEF Keeps
  <2>2. rd' = [rd EXCEPT ![d] = Cleanup(rd[d])]
    BY <1>6 DEF ReadNoSpace
  <2> QED
    BY <1>6, <2>1, <2>2 DEF ReaderStep, ReadNoSpace
<1>7. ASSUME NEW intact \in BOOLEAN, ReadOpening(d, intact)
      PROVE  \E r : ArrivalStep(d, r)
  <2>1. ReadLastByte(d, ReadStart(rd[d], f, intact))
    BY <1>7 DEF ReadOpening, f
  <2>2. Takes(rd[d], f, ReadStart(rd[d], f, intact))
    BY <1>1, <1>4, <2>1, ReadStartFacts
  <2> QED
    BY <1>3, <2>1, <2>2
<1>8. ASSUME NEW intact \in BOOLEAN, ReadUnopened(d, intact)
      PROVE  \E r : ArrivalStep(d, r)
  <2>1. ReadLastByte(d, ReadNotStarted(rd[d], f, intact))
    BY <1>8 DEF ReadUnopened, f
  <2>2. Takes(rd[d], f, ReadNotStarted(rd[d], f, intact))
    BY <1>1, <1>4, <2>1, ReadNotStartedFacts
  <2> QED
    BY <1>3, <2>1, <2>2
<1>9. CASE ReadIntact(d)
  <2>1. ReadLastByte(d, ReadParsed(rd[d], f)) /\ f.index # StartIndex
    BY <1>9 DEF ReadIntact, f
  <2>2. Takes(rd[d], f, ReadParsed(rd[d], f))
    BY <1>1, <1>4, <2>1, ReadParsedFacts
  <2> QED
    BY <1>3, <2>1, <2>2
<1>10. CASE ReadCorrupted(d)
  <2>1. ReadLastByte(d, ReadDataError(rd[d], f)) /\ f.index # StartIndex
    BY <1>10 DEF ReadCorrupted, f
  <2>2. Takes(rd[d], f, ReadDataError(rd[d], f))
    BY <1>1, <1>4, <2>1, ReadDataErrorFacts
  <2> QED
    BY <1>3, <2>1, <2>2
<1>11. CASE ReadGarbled(d)
  <2>1. ReadLastByte(d, ReadHeaderError(rd[d]))
    BY <1>11 DEF ReadGarbled
  <2>2. Takes(rd[d], f, ReadHeaderError(rd[d]))
    BY <1>1, <1>4, <2>1, ReadHeaderErrorFacts
  <2> QED
    BY <1>3, <2>1, <2>2
<1>12. CASE ReadResync(d)
  <2>1. ReadLastByte(d, rd[d])
    BY <1>12 DEF ReadResync
  <2>2. Takes(rd[d], f, rd[d])
    BY <1>1 DEF Takes
  <2> QED
    BY <1>3, <2>1, <2>2
<1>13. TRUE \in BOOLEAN /\ FALSE \in BOOLEAN
  OBVIOUS
<1> QED
  BY <1>5, <1>6, <1>7, <1>8, <1>9, <1>10, <1>11, <1>12, <1>13
  DEF SoundRead, FaultyRead

LEMMA PopAckFacts ==
  ASSUME NEW r \in Readers
  PROVE  \A q \in {PopOutAck(r), PopBothAcks(r)} :
           /\ q \in Readers
           /\ q.slot = r.slot /\ q.last = r.last /\ q.started = r.started
           /\ q.inAck \in {NoAck, r.inAck} /\ q.outAck = NoAck
<1>1. /\ PopOutAck(r) \in Readers
      /\ PopOutAck(r).slot = r.slot
      /\ PopOutAck(r).last = r.last
      /\ PopOutAck(r).started = r.started
      /\ PopOutAck(r).inAck = r.inAck
      /\ PopOutAck(r).outAck = NoAck
  BY AckFacts DEF PopOutAck, Readers
<1>2. /\ PopBothAcks(r) \in Readers
      /\ PopBothAcks(r).slot = r.slot
      /\ PopBothAcks(r).last = r.last
      /\ PopBothAcks(r).started = r.started
      /\ PopBothAcks(r).inAck = NoAck
      /\ PopBothAcks(r).outAck = NoAck
  BY AckFacts DEF PopBothAcks, Readers
<1> QED
  BY <1>1, <1>2

LEMMA AnyWriteStep ==
  ASSUME TypeOK, NEW d \in Devices, NEW timedOut \in BOOLEAN, Write(d, timedOut)
  PROVE  \E w, q, r, f : WriteStep(d, w, q, r, f)
<1> DEFINE w == Prepared(wr[d], rd[d].outAck, timedOut)
           in == rd[d].inAck
<1>1. wr[d] \in Writers /\ rd[d] \in Readers /\ in \in Acks
  BY DEF TypeOK, Readers
<1>2. Follows(wr[d], rd[d].outAck, w)
  BY <1>1, PreparedFacts DEF Readers
<1>3. WritePacket(d, w) \/ WriteAckOnly(d, w) \/ WriteNothing(d, w)
  BY DEF Write
<1> HIDE DEF w, in
<1>4. w \in Writers
  BY <1>2 DEF Follows, KeepsSlots
<1>5. AckOnly(in) \in Frames /\ AckOnly(in).index = 0 /\ AckOnly(in).ack = in
  BY <1>1, IndexFacts DEF AckOnly, Frames, Indices, StartIndex
<1>6. CASE WritePacket(d, w)
  <2>1. PICK s \in Slots :
          LET full == IncludeAck(w, s, in)
          IN /\ Send(d, FrameOf(full, s))
             /\ wr' = [wr EXCEPT ![d] = MarkSent(full, w.slot[s].index)]
             /\ rd' = [rd EXCEPT ![d] =
                        IF TakesAck(w, s) THEN PopBothAcks(rd[d]) ELSE PopOutAck(rd[d])]
    BY <1>6 DEF WritePacket, in
  <2> DEFINE full == IncludeAck(w, s, in)
             f == FrameOf(full, s)
             q == MarkSent(full, w.slot[s].index)
             r == IF TakesAck(w, s) THEN PopBothAcks(rd[d]) ELSE PopOutAck(rd[d])
  <2>2. /\ f \in Frames
        /\ f.index = w.slot[s].index
        /\ f.ack \in {w.slot[s].ack, in}
        /\ q \in Writers
        /\ q.started = w.started
        /\ \A t \in Slots : /\ q.slot[t].index \in {0, w.slot[t].index}
                           /\ q.slot[t].ack \in {NoAck, w.slot[t].ack, in}
    BY <1>1, <1>4, SentFacts
  <2>3. r \in {PopOutAck(rd[d]), PopBothAcks(rd[d])}
    OBVIOUS
  <2>4. /\ Send(d, f)
        /\ wr' = [wr EXCEPT ![d] = q]
        /\ rd' = [rd EXCEPT ![d] = r]
    BY <2>1
  <2> HIDE DEF full, f, q, r
  <2>5. chan' \in {chan, [chan EXCEPT ![Peer(d)] = Append(@, f)]}
    <3>1. Peer(d) \in Devices /\ chan \in [Devices -> Seq(Frames)]
      BY PeerFacts DEF TypeOK
    <3> QED
      BY <2>4, <3>1 DEF Send
  <2>6. WriteStep(d, w, q, r, f)
    BY <1>1, <1>2, <2>2, <2>3, <2>4, <2>5, PopAckFacts DEF WriteStep, in
  <2> QED
    BY <2>6
<1>7. CASE WriteAckOnly(d, w)
  <2>1. chan' \in {chan, [chan EXCEPT ![Peer(d)] = Append(@, AckOnly(in))]}
    <3>1. Peer(d) \in Devices /\ chan \in [Devices -> Seq(Frames)]
      BY PeerFacts DEF TypeOK
    <3>2. Send(d, AckOnly(in))
      BY <1>7 DEF WriteAckOnly, in
    <3> QED
      BY <3>1, <3>2 DEF Send
  <2>2. wr' = [wr EXCEPT ![d] = w] /\ rd' = [rd EXCEPT ![d] = PopBothAcks(rd[d])]
    BY <1>7 DEF WriteAckOnly
  <2>3. WriteStep(d, w, w, PopBothAcks(rd[d]), AckOnly(in))
    BY <1>1, <1>2, <1>4, <1>5, <2>1, <2>2, PopAckFacts DEF WriteStep, in
  <2> QED
    BY <2>3
<1>8. CASE WriteNothing(d, w)
  <2>1. /\ chan' = chan
        /\ wr' = [wr EXCEPT ![d] = w]
        /\ rd' = [rd EXCEPT ![d] = PopOutAck(rd[d])]
    BY <1>8 DEF WriteNothing
  <2>2. WriteStep(d, w, w, PopOutAck(rd[d]), AckOnly(in))
    BY <1>1, <1>2, <1>4, <1>5, <2>1, PopAckFacts DEF WriteStep, in
  <2> QED
    BY <2>2
<1> QED
  BY <1>3, <1>6, <1>7, <1>8

LEMMA ReceiveStep ==
  ASSUME TypeOK, NEW d \in Devices, Receive(d)
  PROVE  /\ \E r : ReaderStep(d, r)
         /\ \E n \in Nat : delivered' = [delivered EXCEPT ![d] = n]
<1>1. PICK s \in Slots :
        /\ Poppable(rd[d], s)
        /\ rd' = [rd EXCEPT ![d] = PopPacket(rd[d], s)]
        /\ delivered' = [delivered EXCEPT ![d] = rd[d].slot[s].data]
  BY DEF Receive
<1>2. Keeps(rd[d], PopPacket(rd[d], s)) /\ rd[d].slot[s].data \in Nat
  BY <1>1, PopPacketFacts DEF TypeOK
<1>3. ReaderStep(d, PopPacket(rd[d], s))
  BY <1>1, <1>2 DEF ReaderStep, Receive
<1> QED
  BY <1>1, <1>2, <1>3

LEMMA AnyTransmitStep ==
  ASSUME TypeOK, NEW d \in Devices, Transmit(d)
  PROVE  \E q : TransmitStep(d, q)
<1> DEFINE n == accepted[d] + 1
<1>1. wr[d] \in Writers /\ n \in Nat
  BY DEF TypeOK
<1>2. PICK s \in Slots : wr' = [wr EXCEPT ![d] = AddToOutgoingQueue(wr[d], s, n)]
  BY DEF Transmit
<1> HIDE DEF n
<1>3. TransmitStep(d, AddToOutgoingQueue(wr[d], s, n))
  BY <1>1, <1>2, AddFacts DEF TransmitStep, Transmit
<1> QED
  BY <1>3

-----------------------------------------------------------------------------
(* Type correctness. *)

LEMMA InitTypeOK == Init => TypeOK
<1> SUFFICES ASSUME Init PROVE TypeOK
  OBVIOUS
<1>1. NewReaders \subseteq Readers
  <2> SUFFICES ASSUME NEW slots \in [Slots -> {FreeRx, BlankRx}]
               PROVE  [slot |-> slots, last |-> 0, current |-> NoSlot, inAck |-> NoAck,
                       outAck |-> NoAck, started |-> FALSE] \in Readers
    BY DEF NewReaders
  <2>1. slots \in [Slots -> RxSlots]
    BY RxSlotFacts
  <2>2. 0 \in 0 .. MaxIndex
    BY IndexFacts
  <2> QED
    BY <2>1, <2>2, AckFacts DEF Readers
<1>2. NewWriter \in Writers
  <2> DEFINE slots == [s \in Slots |-> IF s = 1 THEN NewTx(StartIndex, 0) ELSE FreeTx]
  <2>1. slots \in [Slots -> TxSlots]
    BY TxSlotFacts, IndexFacts
  <2>2. StartIndex \in 1 .. StartIndex /\ 0 \in 0 .. MaxIndex
    BY IndexFacts DEF StartIndex
  <2>3. NewWriter = [slot |-> slots, earliest |-> StartIndex, current |-> 0, started |-> FALSE]
    BY DEF NewWriter
  <2> HIDE DEF slots
  <2> QED
    BY <2>1, <2>2, <2>3 DEF Writers
<1> QED
  BY <1>1, <1>2 DEF Init, TypeOK

LEMMA NextTypeOK == TypeOK /\ [Next]_vars => TypeOK'
<1> SUFFICES ASSUME TypeOK, [Next]_vars PROVE TypeOK'
  OBVIOUS
<1> USE DEF TypeOK
<1>1. CASE UNCHANGED vars
  BY <1>1 DEF vars
<1>2. ASSUME NEW d \in Devices, SoundRead(d) \/ FaultyRead(d)
      PROVE  TypeOK'
  <2>1. UNCHANGED <<accepted, delivered>> /\ phase' = [phase EXCEPT ![d] = "reading"]
    BY <1>2 DEF SoundRead, FaultyRead, ReadFirstByte, ReadNoSpace, ReadOpening,
      ReadUnopened, ReadIntact, ReadGarbled, ReadResync, ReadCorrupted,
      ReadLastByte, Enter
  <2>2. PICK r : ReaderStep(d, r) \/ ArrivalStep(d, r)
    BY <1>2, SoundOrFaultyReadStep
  <2>3. chan[d] # <<>> => Tail(chan[d]) \in Seq(Frames)
    OBVIOUS
  <2> QED
    BY <2>1, <2>2, <2>3, ZenonT(60) DEF ReaderStep, ArrivalStep, Keeps, Takes
<1>3. ASSUME NEW d \in Devices, NEW timedOut \in BOOLEAN, Write(d, timedOut)
      PROVE  TypeOK'
  <2>1. UNCHANGED <<accepted, delivered>> /\ phase' = [phase EXCEPT ![d] = "ticked"]
    BY <1>3 DEF Write, WritePacket, WriteAckOnly, WriteNothing, Enter
  <2>2. PICK w, q, r, f : WriteStep(d, w, q, r, f)
    BY <1>3, AnyWriteStep
  <2>3. Append(chan[Peer(d)], f) \in Seq(Frames)
    BY <2>2, PeerFacts DEF WriteStep
  <2> QED
    BY <2>1, <2>2, <2>3 DEF WriteStep
<1>4. ASSUME NEW d \in Devices, Receive(d)
      PROVE  TypeOK'
  <2>1. UNCHANGED accepted /\ phase' = [phase EXCEPT ![d] = "received"]
    BY <1>4 DEF Receive, Enter
  <2>2. PICK r : ReaderStep(d, r)
    BY <1>4, ReceiveStep
  <2>3. PICK n \in Nat : delivered' = [delivered EXCEPT ![d] = n]
    BY <1>4, ReceiveStep
  <2> QED
    BY <2>1, <2>2, <2>3 DEF ReaderStep, Keeps
<1>5. ASSUME NEW d \in Devices, ReceiveNothing(d)
      PROVE  TypeOK'
  BY <1>5 DEF ReceiveNothing, Enter
<1>6. ASSUME NEW d \in Devices, Transmit(d)
      PROVE  TypeOK'
  <2>1. UNCHANGED <<phase, delivered>> /\ accepted' = [accepted EXCEPT ![d] = accepted[d] + 1]
    BY <1>6 DEF Transmit
  <2>2. PICK q : TransmitStep(d, q)
    BY <1>6, AnyTransmitStep
  <2> QED
    BY <2>1, <2>2 DEF TransmitStep
<1> QED
  BY <1>1, <1>2, <1>3, <1>4, <1>5, <1>6 DEF Next, Tick, Program

(* Every variable keeps its type; in particular indices, which the code    *)
(* counts in bytes and wraps by hand, never leave their range.             *)
THEOREM TypeCorrect == Spec => []TypeOK
<1>1. Init => TypeOK
  BY InitTypeOK
<1>2. TypeOK /\ [Next]_vars => TypeOK'
  BY NextTypeOK
<1> QED
  BY <1>1, <1>2, PTL DEF Spec

-----------------------------------------------------------------------------
(* The index arithmetic against its loops, in the states a link reaches.   *)

(* The reader looks for the index of the packet on the line as the loop of *)
(* InRange does, and takes none but a data packet's for new.               *)
THEOREM InRangeIsLoop == Spec => []InRangeIsItsLoop
<1>1. TypeOK => InRangeIsItsLoop
  <2> SUFFICES ASSUME TypeOK, NEW d \in Devices
               PROVE  LET i == Head(chan[d]).index
                      IN /\ InRange(rd[d].last, i) <=> InRangeLoop(rd[d].last, i)
                         /\ InRange(rd[d].last, i) => i \in DataIndices
    BY DEF InRangeIsItsLoop
  <2>1. rd[d].last \in 0 .. MaxIndex
    BY DEF TypeOK, Readers
  <2> QED
    BY <2>1, InRangeLoops, InRangeType
<1> QED
  BY <1>1, TypeCorrect, PTL

(* The writer finds the packets before the one an ack names as the loop of *)
(* PrecedesIndex does; when the scan is shorter than half a lap, as it is  *)
(* in the code (15 of 127), no two packets precede each other.             *)
THEOREM PrecedesIsLoop ==
  ASSUME 2 * MaxGap < MaxIndex
  PROVE  Spec => []PrecedesIndexIsItsLoop
<1>1. TypeOK => PrecedesIndexIsItsLoop
  <2> SUFFICES ASSUME TypeOK, NEW d \in Devices, NEW s \in Slots
               PROVE  LET i == wr[d].slot[s].index
                          acked == rd[d].outAck.index
                      IN /\ PrecedesIndex(i, acked) <=> PrecedesLoop(i, acked)
                         /\ \A t \in Slots :
                              LET j == wr[d].slot[t].index
                              IN PrecedesIndex(i, j) => ~PrecedesIndex(j, i)
    BY DEF PrecedesIndexIsItsLoop
  <2>1. \A t \in Slots : wr[d].slot[t].index \in Indices
    <3> TAKE t \in Slots
    <3>1. wr[d].slot \in [Slots -> TxSlots]
      BY DEF TypeOK, Writers
    <3> QED
      BY <3>1 DEF TxSlots
  <2> QED
    BY <2>1, PrecedesLoops, PrecedesOneWay
<1> QED
  BY <1>1, TypeCorrect, PTL

-----------------------------------------------------------------------------
(* The closed forms of Reader and Writer and the loops of BufferLoops.     *)

(* The scan for the earliest packet, which finds it again when repeated.   *)
LEMMA UpdateNextIndexLoops ==
  ASSUME NEW w \in Writers
  PROVE  /\ UpdateNextIndex(w).earliest = EarliestLoop(w)
         /\ UpdateNextIndex(UpdateNextIndex(w)) = UpdateNextIndex(w)
<1> DEFINE start == IF w.started THEN w.earliest ELSE StartIndex
           Meets(i) == \E s \in Slots : Live(w, s) /\ w.slot[s].index = i
           Met(k) == FirstLive(w, start, k)
           found == CHOOSE k \in 0 .. MaxGap - 1 : Met(k)
           met == {k \in 0 .. MaxGap - 1 : Meets(Scan(start)[k])}
           hit == FirstHit(0, MaxGap, met)
           e == IF \E k \in 0 .. MaxGap - 1 : Met(k) THEN Advance(start, found) ELSE start
<1>1. /\ start \in 1 .. StartIndex /\ start \in Indices
      /\ MaxGap \in Nat /\ MaxGap > 0
  BY IndexFacts DEF Writers, StartIndex, Indices
<1>2. UpdateNextIndex(w) = [w EXCEPT !.earliest = e]
  BY DEF UpdateNextIndex
<1>3. EarliestLoop(w) = IF hit < MaxGap THEN Scan(start)[hit] ELSE start
  BY DEF EarliestLoop
<1> HIDE DEF start
<1>4. ASSUME NEW k \in Nat
      PROVE  Met(k) <=> Meets(Advance(start, k))
                        /\ \A j \in 0 .. k - 1 : ~Meets(Advance(start, j))
  BY DEF FirstLive
<1> HIDE DEF Meets, Met
<1>5. met = {k \in 0 .. MaxGap - 1 : Meets(Advance(start, k))}
  <2>1. \A k \in 0 .. MaxGap - 1 : Scan(start)[k] = Advance(start, k)
    BY <1>1, ScanIs
  <2> QED
    BY <2>1
<1> HIDE DEF met
<1>6. /\ hit \in 0 .. MaxGap
      /\ hit < MaxGap => hit \in met
      /\ \A k \in 0 .. hit - 1 : k \notin met
  BY <1>1, FirstHitIs
<1> HIDE DEF hit
<1>7. ASSUME NEW k \in 0 .. MaxGap - 1, Met(k)
      PROVE  k = hit
  <2>1. k \in met /\ \A j \in 0 .. k - 1 : j \notin met
    BY <1>4, <1>5, <1>7
  <2>2. k \in Nat /\ hit \in Nat /\ ~(k < hit)
    BY <1>6, <2>1
  <2>3. ~(hit < k)
    BY <1>1, <1>6, <2>1, <2>2
  <2> QED
    BY <2>2, <2>3
<1>8. ASSUME hit < MaxGap
      PROVE  hit \in 0 .. MaxGap - 1 /\ Met(hit)
  BY <1>1, <1>4, <1>5, <1>6, <1>8
<1>9. e = IF hit < MaxGap THEN Advance(start, hit) ELSE start
  <2>1. CASE hit < MaxGap
    <3>1. found = hit
      BY <1>7, <1>8, <2>1
    <3> QED
      BY <1>8, <2>1, <3>1
  <2>2. CASE ~(hit < MaxGap)
    <3>1. \A k \in 0 .. MaxGap - 1 : ~Met(k)
      BY <1>1, <1>7, <2>2
    <3> QED
      BY <2>2, <3>1
  <2> QED
    BY <2>1, <2>2
<1>10. e = EarliestLoop(w)
  <2>1. hit < MaxGap => Scan(start)[hit] = Advance(start, hit)
    BY <1>1, <1>6, ScanIs
  <2> QED
    BY <1>3, <1>9, <2>1
<1> HIDE DEF e
<1> DEFINE q == [w EXCEPT !.earliest = e]
           again == IF q.started THEN q.earliest ELSE StartIndex
           Again(k) == FirstLive(q, again, k)
           e2 == IF \E k \in 0 .. MaxGap - 1 : Again(k)
                   THEN Advance(again, CHOOSE k \in 0 .. MaxGap - 1 : Again(k)) ELSE again
<1>11. q.slot = w.slot /\ q.started = w.started /\ q.earliest = e
  BY DEF Writers
<1>12. UpdateNextIndex(q) = [q EXCEPT !.earliest = e2]
  BY DEF UpdateNextIndex
<1>13. e2 = e
  <2>1. CASE ~w.started
    <3>1. again = start /\ start = StartIndex
      BY <1>11, <2>1 DEF start
    <3>2. \A k : Again(k) <=> Met(k)
      BY <1>11, <3>1 DEF FirstLive, Met, Live
    <3> HIDE DEF q, again, Again
    <3> QED
      BY <3>1, <3>2 DEF e
  <2>2. CASE w.started /\ hit < MaxGap
    <3>1. again = Advance(start, hit) /\ Meets(again)
      BY <1>4, <1>8, <1>9, <1>11, <2>2
    <3>2. \A k \in Nat : Again(k) <=> Meets(Advance(again, k))
                                  /\ \A j \in 0 .. k - 1 : ~Meets(Advance(again, j))
      BY <1>11 DEF FirstLive, Meets, Live
    <3> HIDE DEF q, again, Again
    <3>3. Advance(again, 0) = again
      BY DEF Advance
    <3>4. Again(0)
      BY <3>1, <3>2, <3>3
    <3>5. \A k \in 0 .. MaxGap - 1 : Again(k) => k = 0
      <4> SUFFICES ASSUME NEW k \in 0 .. MaxGap - 1, Again(k), k # 0 PROVE FALSE
        OBVIOUS
      <4>1. k \in Nat /\ 0 \in 0 .. k - 1
        BY <1>1
      <4> QED
        BY <3>1, <3>2, <3>3, <4>1
    <3>6. 0 \in 0 .. MaxGap - 1
      BY <1>1
    <3>7. (CHOOSE k \in 0 .. MaxGap - 1 : Again(k)) = 0
      BY <3>4, <3>5, <3>6
    <3> QED
      BY <1>9, <2>2, <3>1, <3>3, <3>4, <3>6, <3>7
  <2>3. CASE w.started /\ ~(hit < MaxGap)
    <3>1. again = start
      BY <1>9, <1>11, <2>3
    <3>2. \A k : Again(k) <=> Met(k)
      BY <1>11, <3>1 DEF FirstLive, Met, Live
    <3>3. \A k \in 0 .. MaxGap - 1 : ~Met(k)
      BY <1>1, <1>7, <2>3
    <3> HIDE DEF q, again, Again
    <3> QED
      BY <1>9, <2>3, <3>1, <3>2, <3>3
  <2> QED
    BY <2>1, <2>2, <2>3
<1>14. [q EXCEPT !.earliest = e2] = q
  <2> HIDE DEF e2
  <2> QED
    BY <1>13 DEF Writers
<1>15. UpdateNextIndex(w) = q /\ UpdateNextIndex(w).earliest = e
  BY <1>2, <1>11
<1> HIDE DEF q, e2
<1> QED
  BY <1>10, <1>12, <1>14, <1>15

(* The scan for the packet to send. *)
LEMMA NextPacketLoops ==
  ASSUME NEW w \in Writers
  PROVE  {s \in Slots : IsNextPacket(w, s)} = {NextPacketLoop(w)} \ {NoSlot}
<1> DEFINE n == BufferSize
           Pending(k) == PendingWith(w, Advance(w.earliest, k))
           First(k) == FirstHit(1, n + 1, Pending(k))
           In(k) == FirstHit(1, n + 1, PendingWith(w, Scan(w.earliest)[k]))
           in == {k \in 0 .. MaxGap - 1 : In(k) \in Slots}
           hit == FirstHit(0, MaxGap, in)
<1>1. /\ w.earliest \in Indices
      /\ MaxGap \in Nat /\ MaxGap > 0
      /\ n \in Nat /\ n > 0
      /\ Slots = 1 .. n /\ NoSlot \notin Slots
  BY IndexFacts DEF Writers, StartIndex, Indices, Slots, NoSlot
<1>2. NextPacketLoop(w) = IF hit < MaxGap THEN In(hit) ELSE NoSlot
  BY DEF NextPacketLoop
<1>3. \A k \in 0 .. MaxGap - 1 : In(k) = First(k)
  BY <1>1, ScanIs
<1>4. ASSUME NEW k
      PROVE  /\ First(k) \in 1 .. n + 1
             /\ First(k) < n + 1 => First(k) \in Pending(k)
             /\ \A s \in 1 .. First(k) - 1 : s \notin Pending(k)
  <2> HIDE DEF Pending, n
  <2> QED
    BY <1>1, FirstHitIs
<1>5. ASSUME NEW k, NEW s \in Slots
      PROVE  s \in Pending(k) <=> IsPendingAt(w, s, k)
  BY DEF PendingWith, IsPendingAt
<1>6. \A k : Pending(k) \subseteq Slots
  BY DEF PendingWith
<1> HIDE DEF Pending, First, In, n
<1>7. ASSUME NEW k
      PROVE  First(k) \in Slots <=> Pending(k) # {}
  <2>1. CASE First(k) < n + 1
    BY <1>1, <1>4, <1>6, <2>1
  <2>2. CASE ~(First(k) < n + 1)
    <3>1. First(k) = n + 1
      BY <1>1, <1>4, <2>2
    <3>2. \A s \in Slots : s \notin Pending(k)
      BY <1>1, <1>4, <3>1
    <3> QED
      BY <1>1, <1>6, <3>1, <3>2
  <2> QED
    BY <2>1, <2>2
<1>8. in = {k \in 0 .. MaxGap - 1 : Pending(k) # {}}
  BY <1>3, <1>7
<1> HIDE DEF in
<1>9. /\ hit \in 0 .. MaxGap
      /\ hit < MaxGap => hit \in in
      /\ \A k \in 0 .. hit - 1 : k \notin in
  BY <1>1, FirstHitIs
<1> HIDE DEF hit
<1>10. ASSUME NEW s \in Slots
       PROVE  IsNextPacket(w, s) <=> hit < MaxGap /\ s = First(hit)
  <2>1. ASSUME IsNextPacket(w, s)
        PROVE  hit < MaxGap /\ s = First(hit)
    <3>1. PICK k \in 0 .. MaxGap - 1 :
            /\ IsPendingAt(w, s, k)
            /\ \A t \in 1 .. s - 1 : ~IsPendingAt(w, t, k)
            /\ \A j \in 0 .. k - 1, t \in Slots : ~IsPendingAt(w, t, j)
      BY <2>1 DEF IsNextPacket
    <3>2. s \in Pending(k) /\ k \in in
      BY <1>5, <1>8, <3>1
    <3>3. \A j \in 0 .. k - 1 : j \notin in
      BY <1>5, <1>6, <1>8, <3>1
    <3>4. k = hit
      <4>1. k \in Nat /\ hit \in Nat /\ ~(k < hit)
        BY <1>1, <1>9, <3>2
      <4>2. ~(hit < k)
        BY <1>1, <1>9, <3>3, <4>1
      <4> QED
        BY <4>1, <4>2
    <3>5. s \in 1 .. n /\ \A t \in 1 .. s - 1 : t \notin Pending(k)
      BY <1>1, <1>5, <3>1
    <3>6. First(k) \in 1 .. n + 1 /\ First(k) < n + 1 /\ First(k) \in Pending(k)
      BY <1>1, <1>4, <1>7, <3>2
    <3>7. ~(First(k) < s) /\ ~(s < First(k))
      BY <1>4, <3>2, <3>5, <3>6
    <3>8. s = First(k)
      BY <1>1, <3>5, <3>6, <3>7
    <3> QED
      BY <1>1, <3>4, <3>8
  <2>2. ASSUME hit < MaxGap, s = First(hit)
        PROVE  IsNextPacket(w, s)
    <3>1. hit \in 0 .. MaxGap - 1 /\ hit \in in
      BY <1>1, <1>9, <2>2
    <3>2. s \in 1 .. n /\ s \in Pending(hit)
      BY <1>1, <1>4, <2>2
    <3>3. \A t \in 1 .. s - 1 : ~IsPendingAt(w, t, hit)
      <4> TAKE t \in 1 .. s - 1
      <4>1. t \in Slots
        BY <1>1, <3>2
      <4> QED
        BY <1>4, <1>5, <2>2, <4>1
    <3>4. \A j \in 0 .. hit - 1, t \in Slots : ~IsPendingAt(w, t, j)
      <4> TAKE j \in 0 .. hit - 1, t \in Slots
      <4>1. j \in 0 .. MaxGap - 1 /\ j \notin in
        BY <1>1, <1>9, <3>1
      <4> QED
        BY <1>5, <1>8, <4>1
    <3> QED
      BY <1>5, <3>1, <3>2, <3>3, <3>4 DEF IsNextPacket
  <2> QED
    BY <2>1, <2>2
<1>11. CASE hit < MaxGap
  <2>1. NextPacketLoop(w) = First(hit) /\ First(hit) \in Slots
    BY <1>1, <1>2, <1>3, <1>7, <1>8, <1>9, <1>11
  <2> QED
    BY <1>1, <1>10, <1>11, <2>1
<1>12. CASE ~(hit < MaxGap)
  BY <1>2, <1>10, <1>12
<1> QED
  BY <1>11, <1>12

(* A clean-up finds a slot for a packet before the packet is received, so  *)
(* that one pass over the buffer is enough when the next one comes.        *)

(* What a reader holds of the slots after the first i passes. *)
CleanedTo(r, i) ==
  [s \in Slots |->
     IF s <= i THEN IF Kept(r, s) THEN r.slot[s] ELSE FreeRx
     ELSE IF \E t \in 1 .. i : Valid(r, t) /\ r.slot[t].index = r.slot[s].index
       THEN FreeRx ELSE r.slot[s]]

LEMMA CleanupPassIs ==
  ASSUME NEW r \in Readers, OneMayRepeat(r), NEW i \in Nat, i + 1 \in Slots
  PROVE  CleanupPass([r EXCEPT !.slot = CleanedTo(r, i)], i + 1)
           = [r EXCEPT !.slot = CleanedTo(r, i + 1)]
<1> DEFINE n == i + 1
           q == [r EXCEPT !.slot = CleanedTo(r, i)]
           Old(s) == \E t \in 1 .. i : Valid(r, t) /\ r.slot[t].index = r.slot[s].index
           here == CleanedTo(r, i)
           there == CleanedTo(r, n)
<1>1. /\ n \in Slots /\ n \in 1 .. BufferSize /\ BufferSize \in Nat /\ Slots = 1 .. BufferSize
      /\ r.slot \in [Slots -> RxSlots] /\ r.last \in 0 .. MaxIndex
      /\ 1 .. i = 1 .. n - 1
  BY IndexFacts DEF Slots, Readers
<1>2. q.slot = here /\ q.last = r.last /\ q = [r EXCEPT !.slot = here]
  BY DEF Readers
<1>3. \A s \in Slots : Kept(r, s) => Valid(r, s)
  BY DEF Kept
<1>4. \A s \in Slots : here[s] = IF s <= i THEN IF Kept(r, s) THEN r.slot[s] ELSE FreeRx
                                 ELSE IF Old(s) THEN FreeRx ELSE r.slot[s]
  BY DEF CleanedTo
<1>5. \A s \in Slots : there[s] = IF s <= n THEN IF Kept(r, s) THEN r.slot[s] ELSE FreeRx
                                  ELSE IF Old(s) \/ (Valid(r, n) /\ r.slot[n].index = r.slot[s].index)
                                    THEN FreeRx ELSE r.slot[s]
  <2>1. \A s : (\E t \in 1 .. n : Valid(r, t) /\ r.slot[t].index = r.slot[s].index)
                 <=> Old(s) \/ (Valid(r, n) /\ r.slot[n].index = r.slot[s].index)
    <3>1. 1 .. n = (1 .. i) \cup {n}
      BY <1>1
    <3> HIDE DEF n
    <3> QED
      BY <3>1
  <2> HIDE DEF Old, n
  <2> QED
    BY <2>1 DEF CleanedTo
<1>6. here = [s \in Slots |-> here[s]] /\ there = [s \in Slots |-> there[s]]
  BY DEF CleanedTo
<1>7. Kept(r, n) <=> Valid(r, n) /\ ~Old(n)
  BY <1>1 DEF Kept
<1>8. Valid(r, n) <=> r.slot[n].state \in {"blank", "parsed"} /\ InRange(r.last, r.slot[n].index)
  BY DEF Valid
<1>9. /\ ~Valid(r, n) => r.slot[n] = FreeRx \/ r.slot[n].state = "error"
                         \/ ~InRange(r.last, r.slot[n].index)
      /\ Valid(r, n) => r.slot[n].state # "error" /\ r.slot[n] # FreeRx
                        /\ r.slot[n].index # 0
  <2>1. r.slot[n] \in RxSlots
    BY <1>1
  <2>2. r.slot[n].state = "free" => r.slot[n] = FreeRx
    BY <1>1 DEF OneMayRepeat
  <2>3. Valid(r, n) => r.slot[n].index \in DataIndices
    BY <1>1, <1>8, InRangeType
  <2> HIDE DEF n
  <2> QED
    BY <1>8, <2>1, <2>2, <2>3, IndexFacts, RxSlotFacts DEF RxSlots
<1>10. n > i /\ ~(n <= i) /\ n <= n /\ \A s \in Slots : s # n => (s <= i <=> s <= n)
  BY <1>1
<1>11. n \in Nat /\ \A s \in Slots : s \in Nat
  BY <1>1
<1> HIDE DEF Old, here, there, n
<1>12. here[n] = IF Old(n) THEN FreeRx ELSE r.slot[n]
  BY <1>1, <1>4, <1>10
<1>13. CASE here[n] = FreeRx
  <2>1. ~Kept(r, n) /\ (Valid(r, n) => Old(n))
    BY <1>7, <1>9, <1>12, <1>13
  <2>2. \A s \in Slots : there[s] = here[s]
    <3> TAKE s \in Slots
    <3>1. CASE s = n
      BY <1>1, <1>5, <1>10, <1>13, <2>1, <3>1
    <3>2. CASE s # n
      <4>1. Valid(r, n) /\ r.slot[n].index = r.slot[s].index => Old(s)
        BY <2>1 DEF Old
      <4> QED
        BY <1>4, <1>5, <1>10, <3>2, <4>1
    <3> QED
      BY <3>1, <3>2
  <2>3. there = here
    BY <1>6, <2>2
  <2>4. CleanupPass(q, n) = q
    BY <1>2, <1>13 DEF CleanupPass
  <2> QED
    BY <1>2, <2>3, <2>4 DEF n, there
<1>14. CASE here[n] # FreeRx /\ ~Valid(r, n)
  <2>1. here[n] = r.slot[n] /\ ~Kept(r, n)
    BY <1>7, <1>12, <1>14
  <2>2. CleanupPass(q, n) = [q EXCEPT !.slot[n] = FreeRx]
    BY <1>2, <1>9, <1>14, <2>1 DEF CleanupPass
  <2>3. \A s \in Slots : there[s] = IF s = n THEN FreeRx ELSE here[s]
    <3> TAKE s \in Slots
    <3>1. CASE s = n
      BY <1>1, <1>5, <1>10, <2>1, <3>1
    <3>2. CASE s # n
      BY <1>4, <1>5, <1>10, <1>14, <3>2
    <3> QED
      BY <3>1, <3>2
  <2>4. there = [here EXCEPT ![n] = FreeRx]
    BY <1>6, <2>3
  <2>5. [q EXCEPT !.slot[n] = FreeRx] = [r EXCEPT !.slot = [here EXCEPT ![n] = FreeRx]]
    BY <1>2
  <2> QED
    BY <2>2, <2>4, <2>5 DEF n, there
<1>15. CASE here[n] # FreeRx /\ Valid(r, n)
  <2> DEFINE same == Duplicates(q, n)
             x == r.slot[n].index
             hit == FirstHit(n + 1, BufferSize + 1, same)
  <2>1. here[n] = r.slot[n] /\ ~Old(n) /\ Kept(r, n)
    BY <1>7, <1>12, <1>15
  <2>2. CleanupPass(q, n) = IF hit \in Slots THEN [q EXCEPT !.slot[hit] = FreeRx] ELSE q
    BY <1>2, <1>8, <1>9, <1>15, <2>1 DEF CleanupPass, DropDuplicate
  <2>3. x # 0
    BY <1>9, <1>15
  <2>4. ASSUME NEW s \in Slots, s > n
        PROVE  s \in same <=> r.slot[s].index = x
    <3>1. ~(s <= i)
      BY <1>10, <1>11, <2>4
    <3>2. r.slot[s].index = x => ~Old(s) /\ r.slot[s] # FreeRx
      BY <2>1, <2>3, RxSlotFacts DEF Old, FreeRx
    <3>3. here[s] = IF Old(s) THEN FreeRx ELSE r.slot[s]
      BY <1>4, <3>1
    <3> QED
      BY <1>2, <2>1, <2>3, <3>2, <3>3 DEF Duplicates, FreeRx
  <2>5. ASSUME NEW s \in Slots, NEW t \in Slots, s > n, t > n, s # t,
               r.slot[s].index = x, r.slot[t].index = x
        PROVE  FALSE
    <3>1. PICK c \in Slots : OthersDiffer(r, c)
      BY DEF OneMayRepeat
    <3>2. s # n /\ t # n
      BY <1>1, <1>11, <2>5
    <3>3. \E u, v \in {n, s, t} \ {c} : u # v
      BY <2>5, <3>2
    <3> QED
      BY <1>1, <2>3, <2>5, <3>1, <3>3 DEF OthersDiffer
  <2>6. /\ hit \in n + 1 .. BufferSize + 1
        /\ hit < BufferSize + 1 => hit \in same
        /\ \A y \in n + 1 .. hit - 1 : y \notin same
    <3>1. n + 1 \in Nat /\ BufferSize + 1 \in Nat /\ n + 1 <= BufferSize + 1
      BY <1>1
    <3> QED
      BY <3>1, FirstHitIs
  <2>7. \A s \in Slots : there[s] = IF s > n /\ r.slot[s].index = x THEN FreeRx ELSE here[s]
    <3> TAKE s \in Slots
    <3>1. CASE s = n
      BY <1>1, <1>5, <1>10, <1>11, <2>1, <3>1
    <3>2. CASE s # n
      <4>1. s > n <=> ~(s <= n)
        BY <1>1, <1>11
      <4> QED
        BY <1>4, <1>5, <1>10, <1>15, <3>2, <4>1
    <3> QED
      BY <3>1, <3>2
  <2> HIDE DEF hit, same, x
  <2>8. CASE hit \in Slots
    <3>1. hit > n /\ hit \in same
      BY <1>1, <2>6, <2>8
    <3>2. r.slot[hit].index = x
      BY <2>4, <2>8, <3>1
    <3>3. \A s \in Slots : there[s] = IF s = hit THEN FreeRx ELSE here[s]
      BY <2>5, <2>7, <2>8, <3>1, <3>2
    <3>4. there = [here EXCEPT ![hit] = FreeRx]
      BY <1>6, <3>3
    <3>5. [q EXCEPT !.slot[hit] = FreeRx] = [r EXCEPT !.slot = [here EXCEPT ![hit] = FreeRx]]
      BY <1>2
    <3> QED
      BY <2>2, <2>8, <3>4, <3>5 DEF n, there
  <2>9. CASE hit \notin Slots
    <3>1. hit = BufferSize + 1
      BY <1>1, <2>6, <2>9
    <3>2. \A s \in Slots : s > n => r.slot[s].index # x
      <4> TAKE s \in Slots
      <4> HAVE s > n
      <4>1. s \in n + 1 .. hit - 1
        BY <1>1, <3>1
      <4> QED
        BY <2>4, <2>6, <4>1
    <3>3. there = here
      BY <1>6, <2>7, <3>2
    <3> QED
      BY <1>2, <2>2, <2>9, <3>3 DEF n, there
  <2> QED
    BY <2>8, <2>9
<1> QED
  BY <1>13, <1>14, <1>15 DEF n

LEMMA CleanupLoops ==
  ASSUME NEW r \in Readers, OneMayRepeat(r)
  PROVE  Cleanup(r) = CleanupLoop(r)
<1> DEFINE n == BufferSize
           Pass(g, i) == IF i = 0 THEN r ELSE CleanupPass(g[i - 1], i)
           Is(g) == g = [i \in 0 .. n |-> Pass(g, i)]
           closed == [i \in 0 .. n |-> [r EXCEPT !.slot = CleanedTo(r, i)]]
           after == CHOOSE g : Is(g)
<1>1. n \in Nat /\ Slots = 1 .. n /\ r.slot \in [Slots -> RxSlots]
  BY IndexFacts DEF Slots, Readers
<1>2. CleanupLoop(r) = after[n]
  BY DEF CleanupLoop
<1> HIDE DEF n
<1>3. closed[0] = r
  <2>1. \A s \in Slots : s \in Nat /\ ~(s <= 0)
    BY <1>1
  <2>2. 1 .. 0 = {}
    OBVIOUS
  <2>3. \A s \in Slots : CleanedTo(r, 0)[s] = r.slot[s]
    BY <2>1, <2>2 DEF CleanedTo
  <2>4. CleanedTo(r, 0) = [s \in Slots |-> CleanedTo(r, 0)[s]]
    BY DEF CleanedTo
  <2>5. CleanedTo(r, 0) = r.slot
    BY <1>1, <2>3, <2>4
  <2>6. closed[0] = [r EXCEPT !.slot = CleanedTo(r, 0)]
    BY <1>1
  <2> QED
    BY <2>5, <2>6 DEF Readers
<1>4. \A i \in 0 .. n : i # 0 => i - 1 \in 0 .. n /\ closed[i] = CleanupPass(closed[i - 1], i)
  <2> TAKE i \in 0 .. n
  <2> HAVE i # 0
  <2>1. i - 1 \in Nat /\ (i - 1) + 1 = i /\ i \in Slots /\ i - 1 \in 0 .. n
    BY <1>1
  <2>2. CleanupPass([r EXCEPT !.slot = CleanedTo(r, i - 1)], (i - 1) + 1)
          = [r EXCEPT !.slot = CleanedTo(r, (i - 1) + 1)]
    BY <2>1, CleanupPassIs
  <2> QED
    BY <2>1, <2>2
<1> HIDE DEF closed
<1>5. \A i \in 0 .. n : closed[i] = Pass(closed, i)
  BY <1>3, <1>4
<1>6. closed = [i \in 0 .. n |-> closed[i]]
  BY DEF closed
<1>7. Is(closed)
  <2> HIDE DEF Pass
  <2> QED
    BY <1>5, <1>6
<1>8. Is(after)
  <2> HIDE DEF Is
  <2> QED
    BY <1>7
<1>9. \A i \in 0 .. n : after[i] = IF i = 0 THEN r ELSE CleanupPass(after[i - 1], i)
  <2> HIDE DEF after
  <2> QED
    BY <1>8
<1> HIDE DEF after, Is, Pass
<1> DEFINE same == {i \in Nat : i <= n => after[i] = closed[i]}
<1>10. 0 \in same
  BY <1>1, <1>3, <1>9
<1>11. ASSUME NEW i \in Nat, i \in same
       PROVE  i + 1 \in same
  <2> SUFFICES ASSUME i + 1 <= n
               PROVE  after[i + 1] = closed[i + 1]
    OBVIOUS
  <2>1. i + 1 \in 0 .. n /\ i + 1 # 0 /\ (i + 1) - 1 = i /\ i <= n
    BY <1>1
  <2>2. after[i] = closed[i]
    BY <1>11, <2>1
  <2>3. after[i + 1] = CleanupPass(after[i], i + 1)
    BY <1>9, <2>1
  <2>4. closed[i + 1] = CleanupPass(closed[i], i + 1)
    BY <1>4, <2>1
  <2> QED
    BY <2>2, <2>3, <2>4
<1> HIDE DEF same
<1>12. Nat \subseteq same
  BY <1>10, <1>11, Natural!NaturalInduction
<1>13. after[n] = closed[n]
  <2>1. n \in same /\ n <= n
    BY <1>1, <1>12
  <2> QED
    BY <2>1 DEF same
<1>14. closed[n] = [r EXCEPT !.slot = [s \in Slots |-> IF Kept(r, s) THEN r.slot[s] ELSE FreeRx]]
  <2>1. \A s \in Slots : s <= n
    BY <1>1
  <2>2. CleanedTo(r, n) = [s \in Slots |-> IF Kept(r, s) THEN r.slot[s] ELSE FreeRx]
    BY <2>1 DEF CleanedTo
  <2>3. n \in 0 .. n
    BY <1>1
  <2>4. closed[n] = [r EXCEPT !.slot = CleanedTo(r, n)]
    BY <2>3 DEF closed
  <2> QED
    BY <2>2, <2>4
<1> QED
  BY <1>2, <1>13, <1>14 DEF Cleanup

LEMMA CleanupSeparates ==
  ASSUME NEW r \in Readers
  PROVE  /\ \A s \in Slots : Cleanup(r).slot[s].state = "free" => Cleanup(r).slot[s] = FreeRx
         /\ \A c \in Slots : OthersDiffer(Cleanup(r), c)
         /\ Cleanup(r).current = r.current
<1> DEFINE q == Cleanup(r)
<1>1. /\ \A s \in Slots : q.slot[s] = IF Kept(r, s) THEN r.slot[s] ELSE FreeRx
      /\ q.current = r.current
      /\ Slots \subseteq Nat
  BY IndexFacts DEF Cleanup, Readers, Slots
<1> HIDE DEF q
<1>2. \A s \in Slots : q.slot[s].state = "free" => q.slot[s] = FreeRx
  BY <1>1 DEF Kept, Valid
<1>3. ASSUME NEW t \in Slots, NEW u \in Slots, t < u, q.slot[t].index = q.slot[u].index,
             q.slot[t].index # 0
      PROVE  FALSE
  <2>1. Kept(r, t) /\ Kept(r, u) /\ r.slot[t].index = r.slot[u].index
    BY <1>1, <1>3, RxSlotFacts DEF FreeRx
  <2>2. t \in 1 .. u - 1
    BY <1>1, <1>3, IndexFacts DEF Slots
  <2> QED
    BY <2>1, <2>2 DEF Kept
<1>4. \A c \in Slots : OthersDiffer(q, c)
  <2> SUFFICES ASSUME NEW t \in Slots, NEW u \in Slots, t # u, q.slot[t].index = q.slot[u].index,
                      q.slot[t].index # 0
               PROVE  FALSE
    BY DEF OthersDiffer
  <2>1. t < u \/ u < t
    BY <1>1
  <2> QED
    BY <1>3, <2>1
<1> QED
  BY <1>1, <1>2, <1>4 DEF q

LEMMA CleanupOneNew ==
  ASSUME NEW r \in Readers, r.current = NoSlot
  PROVE  OneMayRepeat(Cleanup(r))
<1>1. 1 \in Slots
  BY IndexFacts DEF Slots
<1> QED
  BY <1>1, CleanupSeparates DEF OneMayRepeat

LEMMA TakeSlotOneNew ==
  ASSUME NEW r \in Readers, NEW s \in Slots
  PROVE  OneMayRepeat(TakeSlot(r, s))
<1> DEFINE c == Cleanup(r)
           q == TakeSlot(r, s)
<1>1. c \in Readers
  BY CleanupFacts
<1>2. /\ \A t \in Slots : c.slot[t].state = "free" => c.slot[t] = FreeRx
      /\ OthersDiffer(c, s)
  BY CleanupSeparates
<1> HIDE DEF c
<1>3. /\ q.current = s
      /\ q.slot[s] = BlankRx
      /\ \A t \in Slots \ {s} : q.slot[t] = c.slot[t]
  BY <1>1 DEF TakeSlot, c, Readers
<1> HIDE DEF q
<1>4. OthersDiffer(q, s)
  BY <1>2, <1>3 DEF OthersDiffer
<1>5. \A t \in Slots : q.slot[t].state = "free" => q.slot[t] = FreeRx
  BY <1>2, <1>3, RxSlotFacts
<1> QED
  BY <1>3, <1>4, <1>5 DEF OneMayRepeat, q

(* A reader with the slots of another in which the packet under            *)
(* construction has become x.                                              *)
LEMMA CloseOneNew ==
  ASSUME NEW r \in Readers, OneMayRepeat(r), r.current # NoSlot,
         NEW x \in RxSlots, x.state # "free",
         NEW q, q.slot = [r.slot EXCEPT ![r.current] = x], q.current = NoSlot
  PROVE  OneMayRepeat(q)
<1>1. OthersDiffer(r, r.current) /\ r.current \in Slots
  BY DEF OneMayRepeat
<1>2. /\ q.slot[r.current] = x
      /\ \A t \in Slots \ {r.current} : q.slot[t] = r.slot[t]
  BY <1>1 DEF Readers
<1>3. OthersDiffer(q, r.current)
  BY <1>1, <1>2 DEF OthersDiffer
<1>4. \A t \in Slots : q.slot[t].state = "free" => q.slot[t] = FreeRx
  BY <1>2 DEF OneMayRepeat
<1> QED
  BY <1>1, <1>3, <1>4 DEF OneMayRepeat

LEMMA ClearOneNew ==
  ASSUME NEW q, q.slot = [s \in Slots |-> FreeRx], q.current = NoSlot
  PROVE  OneMayRepeat(q)
<1>1. 1 \in Slots
  BY IndexFacts DEF Slots
<1>2. \A s \in Slots : q.slot[s] = FreeRx /\ q.slot[s].index = 0
  BY DEF FreeRx
<1> QED
  BY <1>1, <1>2 DEF OneMayRepeat, OthersDiffer

LEMMA PopPacketOneNew ==
  ASSUME NEW r \in Readers, OneMayRepeat(r), NEW s \in Slots
  PROVE  OneMayRepeat(PopPacket(r, s))
<1> DEFINE q == PopPacket(r, s)
<1>1. /\ q.current = r.current
      /\ \A t \in Slots : q.slot[t] = IF t = s THEN FreeRx ELSE r.slot[t]
  BY DEF PopPacket, Readers
<1> HIDE DEF q
<1>2. FreeRx.index = 0
  BY DEF FreeRx
<1>3. PICK c \in Slots : (r.current # NoSlot => r.current = c) /\ OthersDiffer(r, c)
  BY DEF OneMayRepeat
<1>4. OthersDiffer(q, c)
  BY <1>1, <1>2, <1>3 DEF OthersDiffer
<1>5. \A t \in Slots : q.slot[t].state = "free" => q.slot[t] = FreeRx
  BY <1>1 DEF OneMayRepeat
<1> QED
  BY <1>1, <1>3, <1>4, <1>5 DEF OneMayRepeat, q

(* What happens to a reader at the last byte of a packet. *)
LEMMA LastByteOneNew ==
  ASSUME NEW r \in Readers, OneMayRepeat(r), r.current # NoSlot, NEW f \in Frames,
         NEW intact \in BOOLEAN
  PROVE  /\ OneMayRepeat(ReadHeaderError(r))
         /\ OneMayRepeat(ReadStart(r, f, intact))
         /\ OneMayRepeat(ReadNotStarted(r, f, intact))
         /\ OneMayRepeat(ReadDataError(r, f))
         /\ OneMayRepeat(ReadParsed(r, f))
<1>1. /\ ErrorRx \in RxSlots /\ ErrorRx.state # "free"
      /\ ParsedRx(f) \in RxSlots /\ ParsedRx(f).state # "free"
  BY RxSlotFacts DEF ErrorRx, ParsedRx
<1>2. ASSUME NEW x \in RxSlots
      PROVE  /\ Close(r, x).slot = [r.slot EXCEPT ![r.current] = x]
             /\ Close(r, x).current = NoSlot
             /\ Close(r, x) \in Readers
  BY CloseFacts DEF Close, Readers
<1>3. OneMayRepeat(ReadHeaderError(r))
  BY <1>1, <1>2, CloseOneNew DEF ReadHeaderError
<1>4. OneMayRepeat(ReadStart(r, f, intact))
  <2>1. /\ ReadStart(r, f, intact).slot = [s \in Slots |-> FreeRx]
        /\ ReadStart(r, f, intact).current = NoSlot
    BY DEF ReadStart, Clear, Readers
  <2> QED
    BY <2>1, ClearOneNew
<1>5. OneMayRepeat(ReadNotStarted(r, f, intact))
  <2>1. /\ ReadNotStarted(r, f, intact).slot = [s \in Slots |-> FreeRx]
        /\ ReadNotStarted(r, f, intact).current = NoSlot
    BY DEF ReadNotStarted, Clear, Readers
  <2> QED
    BY <2>1, ClearOneNew
<1>6. OneMayRepeat(ReadDataError(r, f))
  <2> DEFINE c == Close(r, ErrorRx)
  <2>1. c \in Readers /\ c.slot = [r.slot EXCEPT ![r.current] = ErrorRx] /\ c.current = NoSlot
    BY <1>1, <1>2
  <2> HIDE DEF c
  <2>2. ReadDataError(r, f).slot = c.slot /\ ReadDataError(r, f).current = c.current
    BY <2>1 DEF ReadDataError, c, Readers
  <2> QED
    BY <1>1, <2>1, <2>2, CloseOneNew
<1>7. OneMayRepeat(ReadParsed(r, f))
  <2> DEFINE c == Close(r, ParsedRx(f))
  <2>1. c \in Readers /\ c.slot = [r.slot EXCEPT ![r.current] = ParsedRx(f)] /\ c.current = NoSlot
    BY <1>1, <1>2
  <2> HIDE DEF c
  <2>2. ReadParsed(r, f).slot = c.slot /\ ReadParsed(r, f).current = c.current
    BY <2>1 DEF ReadParsed, c, Readers
  <2> QED
    BY <1>1, <2>1, <2>2, CloseOneNew
<1> QED
  BY <1>3, <1>4, <1>5, <1>6, <1>7

LEMMA InitOneNew == Init => OneNewPacket
<1> SUFFICES ASSUME Init, NEW d \in Devices PROVE OneMayRepeat(rd[d])
  BY DEF OneNewPacket
<1>1. rd[d] \in NewReaders /\ 1 \in Slots
  BY IndexFacts DEF Init, Slots
<1>2. PICK slots \in [Slots -> {FreeRx, BlankRx}] :
        rd[d] = [slot |-> slots, last |-> 0, current |-> NoSlot, inAck |-> NoAck,
                 outAck |-> NoAck, started |-> FALSE]
  BY <1>1 DEF NewReaders
<1>3. \A s \in Slots : rd[d].slot[s] \in {FreeRx, BlankRx} /\ rd[d].slot[s].index = 0
  BY <1>2 DEF FreeRx, BlankRx
<1>4. rd[d].current = NoSlot
  BY <1>2
<1> QED
  BY <1>1, <1>3, <1>4, RxSlotFacts DEF OneMayRepeat, OthersDiffer

LEMMA NextOneNew == TypeOK /\ OneNewPacket /\ [Next]_vars => OneNewPacket'
<1> SUFFICES ASSUME TypeOK, OneNewPacket, [Next]_vars PROVE OneNewPacket'
  OBVIOUS
<1>1. ASSUME UNCHANGED rd PROVE OneNewPacket'
  BY <1>1 DEF OneNewPacket
<1>2. ASSUME NEW d \in Devices, NEW r, OneMayRepeat(r), rd' = [rd EXCEPT ![d] = r]
      PROVE  OneNewPacket'
  <2>1. \A e \in Devices : rd'[e] = IF e = d THEN r ELSE rd[e]
    BY <1>2 DEF TypeOK
  <2> QED
    BY <1>2, <2>1 DEF OneNewPacket
<1>3. \A d \in Devices : rd[d] \in Readers /\ OneMayRepeat(rd[d]) /\ chan[d] \in Seq(Frames)
  BY DEF TypeOK, OneNewPacket
<1>4. CASE UNCHANGED vars
  BY <1>1, <1>4 DEF vars
<1>5. ASSUME NEW d \in Devices, ReadFirstByte(d) PROVE OneNewPacket'
  <2>1. PICK s \in Slots : rd' = [rd EXCEPT ![d] = TakeSlot(rd[d], s)]
    BY <1>5 DEF ReadFirstByte
  <2> QED
    BY <1>2, <1>3, <2>1, TakeSlotOneNew
<1>6. ASSUME NEW d \in Devices, ReadNoSpace(d) PROVE OneNewPacket'
  <2>1. rd' = [rd EXCEPT ![d] = Cleanup(rd[d])] /\ rd[d].current = NoSlot
    BY <1>6 DEF ReadNoSpace
  <2> QED
    BY <1>2, <1>3, <2>1, CleanupOneNew
<1>7. ASSUME NEW d \in Devices, NEW r, ReadLastByte(d, r)
      PROVE  /\ rd' = [rd EXCEPT ![d] = r]
             /\ rd[d].current # NoSlot
             /\ Head(chan[d]) \in Frames
  BY <1>3, <1>7 DEF ReadLastByte, CanRead
<1>8. ASSUME NEW d \in Devices,
             \/ \E intact \in BOOLEAN : ReadOpening(d, intact) \/ ReadUnopened(d, intact)
             \/ ReadIntact(d) \/ ReadCorrupted(d) \/ ReadGarbled(d)
      PROVE  OneNewPacket'
  <2> DEFINE f == Head(chan[d])
  <2>1. PICK intact \in BOOLEAN :
          \/ ReadLastByte(d, ReadStart(rd[d], f, intact))
          \/ ReadLastByte(d, ReadNotStarted(rd[d], f, intact))
          \/ ReadLastByte(d, ReadParsed(rd[d], f))
          \/ ReadLastByte(d, ReadDataError(rd[d], f))
          \/ ReadLastByte(d, ReadHeaderError(rd[d]))
    BY <1>8 DEF ReadOpening, ReadUnopened, ReadIntact, ReadCorrupted, ReadGarbled
  <2>2. f \in Frames /\ rd[d].current # NoSlot
    BY <1>7, <2>1
  <2> HIDE DEF f
  <2> QED
    BY <1>2, <1>3, <1>7, <2>1, <2>2, LastByteOneNew
<1>9. ASSUME NEW d \in Devices, ReadResync(d) PROVE OneNewPacket'
  BY <1>2, <1>3, <1>7, <1>9 DEF ReadResync
<1>10. ASSUME NEW d \in Devices, NEW timedOut \in BOOLEAN, Write(d, timedOut)
       PROVE  OneNewPacket'
  <2>1. PICK r \in {PopOutAck(rd[d]), PopBothAcks(rd[d])} : rd' = [rd EXCEPT ![d] = r]
    BY <1>10 DEF Write, WritePacket, WriteAckOnly, WriteNothing
  <2>2. r.slot = rd[d].slot /\ r.current = rd[d].current
    BY <1>3, <2>1 DEF PopOutAck, PopBothAcks, Readers
  <2>3. OneMayRepeat(r)
    BY <1>3, <2>2 DEF OneMayRepeat, OthersDiffer
  <2> QED
    BY <1>2, <2>1, <2>3
<1>11. ASSUME NEW d \in Devices, Receive(d) PROVE OneNewPacket'
  <2>1. PICK s \in Slots : rd' = [rd EXCEPT ![d] = PopPacket(rd[d], s)]
    BY <1>11 DEF Receive
  <2> QED
    BY <1>2, <1>3, <2>1, PopPacketOneNew
<1>12. ASSUME NEW d \in Devices, ReceiveNothing(d) \/ Transmit(d) PROVE OneNewPacket'
  BY <1>1, <1>12 DEF ReceiveNothing, Transmit
<1>13. TRUE \in BOOLEAN /\ FALSE \in BOOLEAN
  OBVIOUS
<1> QED
  BY <1>4, <1>5, <1>6, <1>8, <1>9, <1>10, <1>11, <1>12, <1>13
  DEF Next, Tick, Program, SoundRead, FaultyRead

(* Of the packets in a ring buffer at most one, the last to come, repeats  *)
(* the index of another, whatever the line did (commlink.cc:93).           *)
THEOREM OneRepeats == Spec => []OneNewPacket
BY TypeCorrect, InitOneNew, NextOneNew, PTL DEF Spec

(* One pass of PacketRingBuffer::Cleanup, which drops at most one duplicate*)
(* of each packet, leaves none behind whenever AllocatePacket calls it:    *)
(* for every buffer size, whatever the line did.                           *)
THEOREM CleanupIsLoops == Spec => []CleanupIsItsLoops
<1>1. TypeOK /\ OneNewPacket => CleanupIsItsLoops
  <2> SUFFICES ASSUME TypeOK, OneNewPacket, NEW d \in Devices
               PROVE  Cleanup(rd[d]) = CleanupLoop(rd[d])
    BY DEF CleanupIsItsLoops
  <2> QED
    BY CleanupLoops DEF TypeOK, OneNewPacket
<1> QED
  BY <1>1, TypeCorrect, OneRepeats, PTL

(* OutgoingPacketBuffer::UpdateNextIndex ends its scan where its loop does,*)
(* and a second scan ends where the first did.                             *)
THEOREM UpdateNextIndexIsLoop == Spec => []UpdateNextIndexIsItsLoop
<1>1. TypeOK => UpdateNextIndexIsItsLoop
  BY UpdateNextIndexLoops DEF TypeOK, UpdateNextIndexIsItsLoop
<1> QED
  BY <1>1, TypeCorrect, PTL

(* The packet that Write sends is the one the nested loops of              *)
(* OutgoingPacketBuffer::NextPacket return, or there is none to send.      *)
THEOREM NextPacketIsLoops == Spec => []NextPacketIsItsLoops
<1>1. TypeOK => NextPacketIsItsLoops
  <2> SUFFICES ASSUME TypeOK, NEW d \in Devices, NEW timedOut \in BOOLEAN
               PROVE  LET w == Prepared(wr[d], rd[d].outAck, timedOut)
                      IN {s \in Slots : IsNextPacket(w, s)} = {NextPacketLoop(w)} \ {NoSlot}
    BY DEF NextPacketIsItsLoops
  <2>1. wr[d] \in Writers /\ rd[d].outAck \in Acks
    BY DEF TypeOK, Readers
  <2>2. Prepared(wr[d], rd[d].outAck, timedOut) \in Writers
    BY <2>1, PreparedFacts DEF Follows, KeepsSlots
  <2> QED
    BY <2>2, NextPacketLoops
<1> QED
  BY <1>1, TypeCorrect, PTL

-----------------------------------------------------------------------------
(* The opening of a sequence. *)

LEMMA InitHandshake == Init => HandshakeInv
<1> SUFFICES ASSUME Init, NEW d \in Devices
             PROVE  StartAcksAreEarned(d) /\ WriterOpensOrSends(d) /\ LineOpensThenSends(d)
  BY DEF HandshakeInv
<1> DEFINE p == Peer(d)
<1>1. p \in Devices
  BY PeerFacts
<1>2. \A e \in Devices : /\ rd[e].inAck = NoAck /\ rd[e].outAck = NoAck
                        /\ rd[e].last = 0
                        /\ \A s \in Slots : rd[e].slot[s].state # "parsed"
  <2> TAKE e \in Devices
  <2>1. rd[e] \in NewReaders
    BY DEF Init
  <2>2. PICK slots \in [Slots -> {FreeRx, BlankRx}] :
          rd[e] = [slot |-> slots, last |-> 0, current |-> NoSlot, inAck |-> NoAck,
                   outAck |-> NoAck, started |-> FALSE]
    BY <2>1 DEF NewReaders
  <2>3. \A s \in Slots : rd[e].slot[s] \in {FreeRx, BlankRx}
    BY <2>2
  <2> QED
    BY <2>2, <2>3, RxSlotFacts
<1>3. \A e \in Devices : ~wr[e].started /\ chan[e] = <<>>
  BY DEF Init, NewWriter
<1>4. \A e \in Devices, s \in Slots :
        wr[e].slot[s].index \in {0, StartIndex} /\ wr[e].slot[s].ack = NoAck
  <2> TAKE e \in Devices, s \in Slots
  <2>1. wr[e].slot[s] = IF s = 1 THEN NewTx(StartIndex, 0) ELSE FreeTx
    BY DEF Init, NewWriter
  <2>2. NewTx(StartIndex, 0).index = StartIndex /\ NewTx(StartIndex, 0).ack = NoAck
    BY TxSlotFacts, IndexFacts
  <2> QED
    BY <2>1, <2>2, TxSlotFacts
<1> HIDE DEF p
<1>5. StartAcksAreEarned(d)
  BY <1>2, <1>3, <1>4, AckFacts DEF StartAcksAreEarned
<1>6. WriterOpensOrSends(d)
  BY <1>3, <1>4, IndexFacts DEF WriterOpensOrSends
<1>7. ~HoldsData(d)
  BY <1>2 DEF HoldsData
<1>8. LineOpensThenSends(d)
  BY <1>3, <1>7 DEF LineOpensThenSends
<1> QED
  BY <1>5, <1>6, <1>8

LEMMA ReaderKeepsHandshake ==
  ASSUME TypeOK, HandshakeInv, NEW a \in Devices, NEW r, ReaderStep(a, r)
  PROVE  HandshakeInv'
<1> DEFINE p == Peer(a)
<1>1. p \in Devices /\ p # a /\ Peer(p) = a /\ \A e \in Devices : e = a \/ e = p
  BY PeerFacts
<1>2. /\ rd'[a] = r /\ rd'[p] = rd[p] /\ wr' = wr /\ chan' = chan
      /\ rd[a].started => r.started
      /\ r.inAck = StartAck => rd[a].inAck = StartAck \/ r.started
      /\ r.outAck = StartAck => rd[a].outAck = StartAck
      /\ Holds(r) => Holds(rd[a])
  BY <1>1 DEF ReaderStep, Keeps, TypeOK
<1>3. \A e \in Devices : HoldsData(e)' => HoldsData(e)
  <2>1. \A e \in Devices : HoldsData(e)' <=> Holds(rd'[e])
    BY DEF HoldsData, Holds, IsData
  <2> QED
    BY <1>1, <1>2, <2>1, HoldsDataIs
<1>4. \A e \in Devices : StartAcksAreEarned(e) /\ WriterOpensOrSends(e) /\ LineOpensThenSends(e)
  BY DEF HandshakeInv
<1> SUFFICES ASSUME NEW e \in Devices
             PROVE  (StartAcksAreEarned(e) /\ WriterOpensOrSends(e) /\ LineOpensThenSends(e))'
  BY DEF HandshakeInv
<1> HIDE DEF p
<1>5. StartAcksAreEarned(e)'
  BY <1>1, <1>2, <1>4 DEF StartAcksAreEarned, p
<1>6. WriterOpensOrSends(e)'
  BY <1>2, <1>4 DEF WriterOpensOrSends
<1>7. LineOpensThenSends(e)'
  BY <1>2, <1>3, <1>4 DEF LineOpensThenSends
<1> QED
  BY <1>5, <1>6, <1>7

LEMMA ArrivalKeepsHandshake ==
  ASSUME TypeOK, HandshakeInv, NEW a \in Devices, NEW r, ArrivalStep(a, r)
  PROVE  HandshakeInv'
<1> DEFINE p == Peer(a)
           f == Head(chan[a])
<1>1. p \in Devices /\ p # a /\ Peer(p) = a /\ \A e \in Devices : e = a \/ e = p
  BY PeerFacts
<1>2. /\ rd'[a] = r /\ rd'[p] = rd[p] /\ wr' = wr /\ chan'[p] = chan[p]
      /\ rd[a].started => r.started
      /\ r.inAck = StartAck => rd[a].inAck = StartAck \/ r.started
      /\ r.outAck = StartAck => rd[a].outAck = StartAck \/ f.ack = StartAck
      /\ Holds(r) => Holds(rd[a]) \/ f.index \in DataIndices
  BY <1>1 DEF ArrivalStep, Takes, TypeOK
<1>3. /\ chan[a] \in Seq(Frames) /\ chan[a] # <<>>
      /\ chan'[a] = Tail(chan[a])
  BY <1>1 DEF ArrivalStep, TypeOK
<1>4. /\ f = chan[a][1] /\ 1 \in 1 .. Len(chan[a])
      /\ Len(chan'[a]) = Len(chan[a]) - 1
      /\ Len(chan[a]) \in Nat
      /\ \A i \in 1 .. Len(chan'[a]) :
           chan'[a][i] = chan[a][i + 1] /\ i + 1 \in 1 .. Len(chan[a])
  BY <1>3
<1>5. \A e \in Devices : HoldsData(e)' <=> Holds(rd'[e])
  BY DEF HoldsData, Holds, IsData
<1>6. \A e \in Devices : StartAcksAreEarned(e) /\ WriterOpensOrSends(e) /\ LineOpensThenSends(e)
  BY DEF HandshakeInv
<1> HIDE DEF p, f
<1>7. StartAcksAreEarned(a)'
  BY <1>1, <1>2, <1>4, <1>6 DEF StartAcksAreEarned, p
<1>8. StartAcksAreEarned(p)'
  BY <1>1, <1>2, <1>6 DEF StartAcksAreEarned, p
<1>9. \A e \in Devices : WriterOpensOrSends(e)'
  BY <1>2, <1>6 DEF WriterOpensOrSends
<1>10. LineOpensThenSends(a)'
  <2>1. /\ ~wr[p].started => ~HoldsData(a)
        /\ \A i \in 1 .. Len(chan[a]) :
             /\ chan[a][i].index \in DataIndices => wr[p].started
             /\ chan[a][i].index = StartIndex =>
                  /\ ~HoldsData(a)
                  /\ \A j \in 1 .. i - 1 : chan[a][j].index \notin DataIndices
    BY <1>6 DEF LineOpensThenSends, p
  <2>2. HoldsData(a)' => HoldsData(a) \/ chan[a][1].index \in DataIndices
    BY <1>2, <1>4, <1>5, HoldsDataIs
  <2>3. ~wr'[p].started => ~HoldsData(a)'
    BY <1>2, <1>4, <2>1, <2>2
  <2>4. ASSUME NEW i \in 1 .. Len(chan'[a])
        PROVE  /\ chan'[a][i].index \in DataIndices => wr'[p].started
               /\ chan'[a][i].index = StartIndex =>
                    /\ ~HoldsData(a)'
                    /\ \A j \in 1 .. i - 1 : chan'[a][j].index \notin DataIndices
    <3>1. chan'[a][i] = chan[a][i + 1] /\ i + 1 \in 1 .. Len(chan[a])
      BY <1>4
    <3>2. chan'[a][i].index \in DataIndices => wr'[p].started
      BY <1>2, <2>1, <3>1
    <3>3. ASSUME chan'[a][i].index = StartIndex
          PROVE  ~HoldsData(a)'
      <4>1. ~HoldsData(a) /\ \A j \in 1 .. (i + 1) - 1 : chan[a][j].index \notin DataIndices
        BY <2>1, <3>1, <3>3
      <4>2. 1 \in 1 .. (i + 1) - 1
        BY <1>4
      <4> QED
        BY <2>2, <4>1, <4>2
    <3>4. ASSUME chan'[a][i].index = StartIndex, NEW j \in 1 .. i - 1
          PROVE  chan'[a][j].index \notin DataIndices
      <4>1. \A k \in 1 .. (i + 1) - 1 : chan[a][k].index \notin DataIndices
        BY <2>1, <3>1, <3>4
      <4>2. /\ j + 1 \in 1 .. (i + 1) - 1
            /\ j \in 1 .. Len(chan'[a])
        BY <1>4
      <4> QED
        BY <1>4, <4>1, <4>2
    <3> QED
      BY <3>2, <3>3, <3>4
  <2> QED
    BY <2>3, <2>4 DEF LineOpensThenSends, p
<1>11. LineOpensThenSends(p)'
  <2>1. HoldsData(p)' <=> HoldsData(p)
    BY <1>1, <1>2, <1>5, HoldsDataIs
  <2> QED
    BY <1>1, <1>2, <1>6, <2>1 DEF LineOpensThenSends
<1> QED
  BY <1>1, <1>7, <1>8, <1>9, <1>10, <1>11 DEF HandshakeInv

LEMMA WriteKeepsHandshake ==
  ASSUME TypeOK, HandshakeInv, NEW a \in Devices,
         NEW w, NEW q, NEW r, NEW f, WriteStep(a, w, q, r, f)
  PROVE  HandshakeInv'
<1> DEFINE p == Peer(a)
<1>1. p \in Devices /\ p # a /\ Peer(p) = a /\ \A e \in Devices : e = a \/ e = p
  BY PeerFacts
<1>2. /\ rd'[a] = r /\ rd'[p] = rd[p]
      /\ wr'[a] = q /\ wr'[p] = wr[p]
      /\ chan'[a] = chan[a]
      /\ chan'[p] \in {chan[p], Append(chan[p], f)}
  BY <1>1 DEF WriteStep, TypeOK
<1>3. \A e \in Devices : HoldsData(e)' <=> HoldsData(e)
  <2>1. \A e \in Devices : rd'[e].slot = rd[e].slot /\ rd'[e].last = rd[e].last
    BY <1>1, <1>2 DEF WriteStep
  <2> QED
    BY <2>1 DEF HoldsData
<1>4. \A e \in Devices : StartAcksAreEarned(e) /\ WriterOpensOrSends(e) /\ LineOpensThenSends(e)
  BY DEF HandshakeInv
<1>5. /\ q.started <=> (wr[a].started \/ rd[a].outAck = StartAck)
      /\ \A t \in Slots : w.slot[t].index \in {0, wr[a].slot[t].index}
      /\ \A t \in Slots : w.slot[t].ack \in {NoAck, wr[a].slot[t].ack}
      /\ \A t \in Slots : q.slot[t].index \in {0, w.slot[t].index}
      /\ \A t \in Slots : q.slot[t].ack \in {NoAck, w.slot[t].ack, rd[a].inAck}
      /\ rd[a].outAck = StartAck => \A t \in Slots : w.slot[t].index # StartIndex
      /\ r.started = rd[a].started
      /\ r.inAck \in {NoAck, rd[a].inAck} /\ r.outAck = NoAck
  BY DEF WriteStep, Follows, KeepsSlots
(* The packets of w, and f among them, open the sequence or are of it. *)
<1>6. ASSUME NEW t \in Slots
      PROVE  IF q.started THEN w.slot[t].index # StartIndex
                          ELSE w.slot[t].index \notin DataIndices
  <2>1. IF wr[a].started THEN wr[a].slot[t].index # StartIndex
                         ELSE wr[a].slot[t].index \notin DataIndices
    BY <1>4 DEF WriterOpensOrSends
  <2> QED
    BY <1>5, <2>1, IndexFacts DEF DataIndices, StartIndex
<1>7. /\ f.index = StartIndex => ~q.started
      /\ f.index \in DataIndices => q.started
      /\ f.ack = StartAck => rd[a].started
  <2>1. f.index = 0 \/ \E t \in Slots : f.index = w.slot[t].index
    BY DEF WriteStep
  <2>2. 0 # StartIndex /\ 0 \notin DataIndices
    BY IndexFacts DEF StartIndex
  <2>3. f.ack = rd[a].inAck \/ \E t \in Slots : f.ack = w.slot[t].ack
    BY DEF WriteStep
  <2> QED
    BY <1>4, <1>5, <1>6, <2>1, <2>2, <2>3, AckFacts DEF StartAcksAreEarned
<1>8. chan[p] \in Seq(Frames) /\ f \in Frames /\ Len(chan[p]) \in Nat
  BY <1>1 DEF TypeOK, WriteStep
<1>9. \A i \in 1 .. Len(chan'[p]) :
        \/ i \in 1 .. Len(chan[p]) /\ chan'[p][i] = chan[p][i]
        \/ i = Len(chan[p]) + 1 /\ chan'[p][i] = f
  BY <1>2, <1>8
<1> HIDE DEF p
<1>10. StartAcksAreEarned(a)'
  BY <1>1, <1>2, <1>4, <1>5, AckFacts DEF StartAcksAreEarned, p
<1>11. StartAcksAreEarned(p)'
  BY <1>1, <1>2, <1>4, <1>5, <1>7, <1>9 DEF StartAcksAreEarned
<1>12. WriterOpensOrSends(a)'
  BY <1>2, <1>5, <1>6, IndexFacts, SMTT(30) DEF WriterOpensOrSends, DataIndices, StartIndex
<1>13. WriterOpensOrSends(p)'
  BY <1>1, <1>2, <1>4 DEF WriterOpensOrSends
<1>14. LineOpensThenSends(a)'
  BY <1>2, <1>3, <1>4 DEF LineOpensThenSends, p
<1>15. LineOpensThenSends(p)'
  <2>1. /\ ~wr[a].started => ~HoldsData(p)
        /\ \A i \in 1 .. Len(chan[p]) :
             /\ chan[p][i].index \in DataIndices => wr[a].started
             /\ chan[p][i].index = StartIndex =>
                  /\ ~HoldsData(p)
                  /\ \A j \in 1 .. i - 1 : chan[p][j].index \notin DataIndices
    BY <1>1, <1>4 DEF LineOpensThenSends
  <2>2. ~q.started => ~HoldsData(p)'
    BY <1>1, <1>3, <1>5, <2>1
  <2>3. ASSUME NEW i \in 1 .. Len(chan'[p])
        PROVE  /\ chan'[p][i].index \in DataIndices => q.started
               /\ chan'[p][i].index = StartIndex =>
                    /\ ~HoldsData(p)'
                    /\ \A j \in 1 .. i - 1 : chan'[p][j].index \notin DataIndices
    <3>1. CASE i \in 1 .. Len(chan[p]) /\ chan'[p][i] = chan[p][i]
      <4>1. \A j \in 1 .. i - 1 : chan'[p][j] = chan[p][j]
        BY <1>2, <1>8, <3>1, SMTT(30)
      <4> QED
        BY <1>1, <1>3, <1>5, <2>1, <3>1, <4>1
    <3>2. CASE i = Len(chan[p]) + 1 /\ chan'[p][i] = f
      <4>1. \A j \in 1 .. i - 1 : chan'[p][j] = chan[p][j] /\ j \in 1 .. Len(chan[p])
        BY <1>2, <1>8, <3>2
      <4> QED
        BY <1>1, <1>3, <1>5, <1>7, <2>1, <3>2, <4>1
    <3> QED
      BY <1>9, <3>1, <3>2
  <2> QED
    BY <1>1, <1>2, <2>2, <2>3 DEF LineOpensThenSends
<1> QED
  BY <1>1, <1>10, <1>11, <1>12, <1>13, <1>14, <1>15 DEF HandshakeInv

LEMMA TransmitKeepsHandshake ==
  ASSUME TypeOK, HandshakeInv, NEW a \in Devices, NEW q, TransmitStep(a, q)
  PROVE  HandshakeInv'
<1> DEFINE p == Peer(a)
<1>1. p \in Devices /\ p # a /\ Peer(p) = a /\ \A e \in Devices : e = a \/ e = p
  BY PeerFacts
<1>2. /\ wr'[a] = q /\ wr'[p] = wr[p] /\ rd' = rd /\ chan' = chan
      /\ wr[a].started /\ q.started
      /\ \A t \in Slots : q.slot[t].index \in DataIndices \cup {wr[a].slot[t].index}
      /\ \A t \in Slots : q.slot[t].ack \in {NoAck, wr[a].slot[t].ack}
  BY <1>1 DEF TransmitStep, TypeOK
<1>3. \A e \in Devices : /\ wr'[e].started <=> wr[e].started
                        /\ HoldsData(e)' <=> HoldsData(e)
  BY <1>1, <1>2 DEF HoldsData
<1>4. \A e \in Devices : StartAcksAreEarned(e) /\ WriterOpensOrSends(e) /\ LineOpensThenSends(e)
  BY DEF HandshakeInv
<1> HIDE DEF p
<1>5. StartAcksAreEarned(a)' /\ StartAcksAreEarned(p)'
  BY <1>1, <1>2, <1>4, AckFacts DEF StartAcksAreEarned
<1>6. WriterOpensOrSends(a)'
  BY <1>2, <1>4, IndexFacts DEF WriterOpensOrSends
<1>7. WriterOpensOrSends(p)'
  BY <1>1, <1>2, <1>4 DEF WriterOpensOrSends
<1>8. LineOpensThenSends(a)'
  BY <1>1, <1>2, <1>3, <1>4 DEF LineOpensThenSends, p
<1>9. LineOpensThenSends(p)'
  BY <1>1, <1>2, <1>3, <1>4 DEF LineOpensThenSends
<1> QED
  BY <1>1, <1>5, <1>6, <1>7, <1>8, <1>9 DEF HandshakeInv

LEMMA NextHandshake == TypeOK /\ HandshakeInv /\ [Next]_vars => HandshakeInv'
<1> SUFFICES ASSUME TypeOK, HandshakeInv, [Next]_vars PROVE HandshakeInv'
  OBVIOUS
<1>1. CASE UNCHANGED <<rd, wr, chan>>
  BY <1>1 DEF HandshakeInv, StartAcksAreEarned, WriterOpensOrSends, LineOpensThenSends, HoldsData
<1>2. ASSUME NEW d \in Devices, SoundRead(d) \/ FaultyRead(d)
      PROVE  HandshakeInv'
  BY <1>2, SoundOrFaultyReadStep, ReaderKeepsHandshake, ArrivalKeepsHandshake
<1>3. ASSUME NEW d \in Devices, NEW timedOut \in BOOLEAN, Write(d, timedOut)
      PROVE  HandshakeInv'
  BY <1>3, AnyWriteStep, WriteKeepsHandshake
<1>4. ASSUME NEW d \in Devices, Receive(d)
      PROVE  HandshakeInv'
  BY <1>4, ReceiveStep, ReaderKeepsHandshake
<1>5. ASSUME NEW d \in Devices, ReceiveNothing(d)
      PROVE  HandshakeInv'
  BY <1>1, <1>5 DEF ReceiveNothing
<1>6. ASSUME NEW d \in Devices, Transmit(d)
      PROVE  HandshakeInv'
  BY <1>6, AnyTransmitStep, TransmitKeepsHandshake
<1> QED
  BY <1>1, <1>2, <1>3, <1>4, <1>5, <1>6 DEF Next, Tick, Program, vars

(* The handshake is sound whatever the line does to its packets: start     *)
(* acks come from started readers, and no data precedes an opening packet. *)
THEOREM HandshakeCorrect == Spec => []HandshakeInv
<1>1. Init => HandshakeInv
  BY InitHandshake
<1>2. TypeOK /\ HandshakeInv /\ [Next]_vars => HandshakeInv'
  BY NextHandshake
<1> QED
  BY <1>1, <1>2, TypeCorrect, PTL DEF Spec

(* A Clear never throws away a message or forgets an index.                *)
THEOREM NothingDiscarded == Spec => []ClearDiscardsNothing
<1>1. TypeOK /\ HandshakeInv => ClearDiscardsNothing
  <2> SUFFICES ASSUME TypeOK, HandshakeInv, NEW d \in Devices, HoldsData(d)
               PROVE  rd[d].started /\ ~\E f \in InTransit(d) : f.index = StartIndex
    BY DEF ClearDiscardsNothing
  <2>1. LineOpensThenSends(d) /\ StartAcksAreEarned(Peer(d)) /\ Peer(Peer(d)) = d
    BY PeerFacts DEF HandshakeInv
  <2>2. rd[d].started
    BY <2>1 DEF LineOpensThenSends, StartAcksAreEarned
  <2>3. DOMAIN chan[d] = 1 .. Len(chan[d])
    BY DEF TypeOK
  <2>4. ~\E f \in InTransit(d) : f.index = StartIndex
    BY <2>1, <2>3 DEF LineOpensThenSends, InTransit
  <2> QED
    BY <2>2, <2>4
<1> QED
  BY <1>1, TypeCorrect, HandshakeCorrect, PTL

(* No data packet is ever on its way to a reader that would discard it.    *)
THEOREM DataIsAwaited == Spec => []DataMeetsStartedReader
<1>1. TypeOK /\ HandshakeInv => DataMeetsStartedReader
  <2> SUFFICES ASSUME TypeOK, HandshakeInv, NEW d \in Devices,
                      wr[Peer(d)].started \/ \E f \in InTransit(d) : f.index \in DataIndices
               PROVE  rd[d].started
    BY DEF DataMeetsStartedReader
  <2>1. LineOpensThenSends(d) /\ StartAcksAreEarned(Peer(d)) /\ Peer(Peer(d)) = d
    BY PeerFacts DEF HandshakeInv
  <2>2. DOMAIN chan[d] = 1 .. Len(chan[d])
    BY DEF TypeOK
  <2>3. wr[Peer(d)].started
    BY <2>1, <2>2 DEF LineOpensThenSends, InTransit
  <2> QED
    BY <2>1, <2>3 DEF StartAcksAreEarned
<1> QED
  BY <1>1, TypeCorrect, HandshakeCorrect, PTL
=============================================================================
