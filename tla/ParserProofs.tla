---------------------------- MODULE ParserProofs ----------------------------
(***************************************************************************)
(* Proofs that the parser stays within its arrays and bytes, whatever is   *)
(* on the line, and however often it parses again what it has received,    *)
(* that it reads every packet that reaches it whole as it was sent, and    *)
(* that it notices a byte that was changed, which costs one packet where no*)
(* packet can begin in the rest of it.                                     *)
(*                                                                         *)
(* What a fold computes takes induction over the sequence: of FoldLeft the *)
(* lemmas say that it keeps a set that every step keeps.  A step is a      *)
(* function there, as the provers instantiate no operators.                *)
(***************************************************************************)
EXTENDS ByteStream, FiniteSetsExt, SequenceTheorems, TLAPS

Natural == INSTANCE FileProofs

LEMMA MaxIs ==
  ASSUME NEW n \in Nat, NEW s \in SUBSET (1 .. n), s # {}
  PROVE  Max(s) \in s /\ \A y \in s : y <= Max(s)
<1> DEFINE below == {n - x : x \in s}
<1>1. below \subseteq Nat /\ below # {}
  <2>1. PICK x \in s : TRUE
    OBVIOUS
  <2>2. n - x \in below
    BY <2>1
  <2>3. below \subseteq Nat
    OBVIOUS
  <2> QED
    BY <2>2, <2>3
<1>2. PICK b \in below : \A y \in below : b <= y
  <2> HIDE DEF below
  <2> QED
    BY <1>1, Natural!LeastNatural
<1>3. PICK m \in s : b = n - m
  BY <1>2
<1>4. \A y \in s : y <= m
  <2> TAKE y \in s
  <2>1. n - y \in below /\ y \in Nat /\ m \in Nat
    OBVIOUS
  <2> HIDE DEF below
  <2>2. n - m <= n - y
    BY <1>2, <1>3, <2>1
  <2> QED
    BY <2>1, <2>2
<1>5. \A y \in s : m >= y
  <2> TAKE y \in s
  <2> QED
    BY <1>4
<1>6. Max(s) \in s /\ \A y \in s : Max(s) >= y
  BY <1>5 DEF Max
<1> QED
  BY <1>6

LEMMA MaxOfFirst ==
  ASSUME NEW n \in Nat, NEW s \in SUBSET (1 .. n + 1), n + 1 \in s
  PROVE  Max(s) = n + 1
<1>1. Max(s) \in s /\ \A y \in s : y <= Max(s)
  <2>1. n + 1 \in Nat /\ s # {}
    OBVIOUS
  <2> QED
    BY <2>1, MaxIs
<1>2. Max(s) \in 1 .. n + 1 /\ n + 1 <= Max(s)
  BY <1>1
<1> QED
  BY <1>2

(* The recursion of FoldLeft, over the sets of the first positions. *)
Folds(f, base, step, seq, n) ==
  \A s \in SUBSET (1 .. n) :
    f[s] = IF s = {} THEN base ELSE step[f[s \ {Max(s)}], seq[Max(s)]]

FoldsFirst(T, base, step, seq, n) ==
  \E f \in [SUBSET (1 .. n) -> T] : Folds(f, base, step, seq, n)

LEMMA FoldsNothing ==
  ASSUME NEW T, NEW base \in T, NEW step, NEW seq
  PROVE  FoldsFirst(T, base, step, seq, 0)
<1> DEFINE f == [s \in SUBSET (1 .. 0) |-> base]
<1>1. f \in [SUBSET (1 .. 0) -> T]
  OBVIOUS
<1>2. \A s \in SUBSET (1 .. 0) : s = {} /\ f[s] = base
  OBVIOUS
<1> HIDE DEF f
<1>3. Folds(f, base, step, seq, 0)
  BY <1>2 DEF Folds
<1> QED
  BY <1>1, <1>3 DEF FoldsFirst

LEMMA FoldsNext ==
  ASSUME NEW T, NEW E, NEW base \in T, NEW step \in [T \X E -> T], NEW seq,
         NEW n \in Nat, seq[n + 1] \in E, FoldsFirst(T, base, step, seq, n)
  PROVE  FoldsFirst(T, base, step, seq, n + 1)
<1>1. PICK f \in [SUBSET (1 .. n) -> T] : Folds(f, base, step, seq, n)
  BY DEF FoldsFirst
<1> DEFINE k == n + 1
           g == [s \in SUBSET (1 .. k) |->
                   IF k \in s THEN step[f[s \ {k}], seq[k]] ELSE f[s]]
<1>2. ASSUME NEW s \in SUBSET (1 .. k), k \notin s
      PROVE  s \in SUBSET (1 .. n)
  BY <1>2
<1>3. g \in [SUBSET (1 .. k) -> T]
  <2>1. ASSUME NEW s \in SUBSET (1 .. k)
        PROVE  (IF k \in s THEN step[f[s \ {k}], seq[k]] ELSE f[s]) \in T
    <3>1. s \ {k} \in SUBSET (1 .. n)
      OBVIOUS
    <3>2. f[s \ {k}] \in T
      BY <3>1
    <3>3. step[f[s \ {k}], seq[k]] \in T
      BY <3>2
    <3>4. k \notin s => f[s] \in T
      BY <1>2
    <3> HIDE DEF k
    <3> QED
      BY <3>3, <3>4
  <2> QED
    BY <2>1
<1>4. ASSUME NEW s \in SUBSET (1 .. k)
      PROVE  g[s] = IF s = {} THEN base ELSE step[g[s \ {Max(s)}], seq[Max(s)]]
  <2>1. CASE k \in s
    <3>1. Max(s) = k
      BY <2>1, MaxOfFirst
    <3>2. s \ {k} \in SUBSET (1 .. k) /\ k \notin s \ {k}
      OBVIOUS
    <3>3. g[s \ {k}] = f[s \ {k}] /\ g[s] = step[f[s \ {k}], seq[k]]
      BY <2>1, <3>2
    <3> HIDE DEF g, k
    <3> QED
      BY <2>1, <3>1, <3>3
  <2>2. CASE k \notin s
    <3>1. s \in SUBSET (1 .. n) /\ g[s] = f[s]
      BY <1>2, <2>2
    <3>2. f[s] = IF s = {} THEN base ELSE step[f[s \ {Max(s)}], seq[Max(s)]]
      BY <1>1, <3>1 DEF Folds
    <3>3. g[s \ {Max(s)}] = f[s \ {Max(s)}]
      BY <2>2
    <3> HIDE DEF g, k
    <3> QED
      BY <3>1, <3>2, <3>3
  <2> QED
    BY <2>1, <2>2
<1> HIDE DEF g
<1>5. Folds(g, base, step, seq, k)
  BY <1>4 DEF Folds
<1> QED
  BY <1>3, <1>5 DEF FoldsFirst

LEMMA FoldExists ==
  ASSUME NEW T, NEW E, NEW seq \in Seq(E), NEW base \in T, NEW step \in [T \X E -> T]
  PROVE  FoldsFirst(T, base, step, seq, Len(seq))
<1> DEFINE firsts == {n \in Nat : n <= Len(seq) => FoldsFirst(T, base, step, seq, n)}
<1>0. Len(seq) \in Nat /\ \A i \in 1 .. Len(seq) : seq[i] \in E
  BY LenProperties, ElementOfSeq
<1>1. 0 \in firsts
  BY FoldsNothing
<1>2. ASSUME NEW n \in Nat, n \in firsts
      PROVE  n + 1 \in firsts
  <2>1. ASSUME n + 1 <= Len(seq)
        PROVE  FoldsFirst(T, base, step, seq, n + 1)
    <3>1. seq[n + 1] \in E /\ n <= Len(seq)
      BY <1>0, <2>1
    <3>2. FoldsFirst(T, base, step, seq, n)
      BY <1>2, <3>1
    <3> HIDE DEF firsts
    <3> QED
      BY <3>1, <3>2, FoldsNext
  <2> QED
    BY <2>1
<1> HIDE DEF firsts
<1>3. Nat \subseteq firsts
  BY <1>1, <1>2, Natural!NaturalInduction
<1> QED
  BY <1>0, <1>3 DEF firsts

(* The sets that FoldLeft goes through. *)
LEMMA FoldSteps ==
  ASSUME NEW n \in Nat, NEW k \in Nat, k + 1 <= n
  PROVE  /\ 1 .. k + 1 \in SUBSET (1 .. n)
         /\ 1 .. k + 1 # {}
         /\ Max(1 .. k + 1) = k + 1
         /\ (1 .. k + 1) \ {k + 1} = 1 .. k
<1> DEFINE s == 1 .. k + 1
<1>1. s \in SUBSET (1 .. k + 1) /\ k + 1 \in s
  OBVIOUS
<1>2. Max(s) = k + 1
  <2> HIDE DEF s
  <2> QED
    BY <1>1, MaxOfFirst
<1>3. s \in SUBSET (1 .. n) /\ s # {}
  BY <1>1
<1>4. s \ {k + 1} = 1 .. k
  OBVIOUS
<1> QED
  BY <1>2, <1>3, <1>4

-----------------------------------------------------------------------------
(* Checksums *)

LEMMA UpdateType ==
  ASSUME NEW c \in Bytes, NEW sums \in Bytes \X Bytes
  PROVE  UpdateChecksum(c, sums) \in Bytes \X Bytes
<1>1. PICK a \in Bytes, b \in Bytes : sums = <<a, b>>
  OBVIOUS
<1>2. (a + c) % 256 \in Bytes /\ (b + ((a + c) % 256)) % 256 \in Bytes
  BY DEF Bytes
<1>3. UpdateChecksum(c, sums) = <<(a + c) % 256, (b + ((a + c) % 256)) % 256>>
  BY <1>1 DEF UpdateChecksum
<1> QED
  BY <1>2, <1>3

LEMMA ChecksumsAre ==
  ASSUME NEW bytes \in Seq(Bytes)
  PROVE  \E f : /\ Checksums(bytes) = f[1 .. Len(bytes)]
                /\ \A s \in SUBSET (1 .. Len(bytes)) :
                     f[s] = IF s = {} THEN <<0, 0>>
                            ELSE UpdateChecksum(bytes[Max(s)], f[s \ {Max(s)}])
<1> DEFINE T == Bytes \X Bytes
           n == Len(bytes)
           Next1(g, s) == IF s = {} THEN <<0, 0>>
                          ELSE UpdateChecksum(bytes[Max(s)], g[s \ {Max(s)}])
           Is(g) == g = [s \in SUBSET (1 .. n) |-> Next1(g, s)]
           step == [x \in T \X Bytes |-> UpdateChecksum(x[2], x[1])]
<1>1. n \in Nat /\ DOMAIN bytes = 1 .. n /\ \A i \in 1 .. n : bytes[i] \in Bytes
  BY LenProperties, ElementOfSeq
<1>2. step \in [T \X Bytes -> T]
  BY UpdateType
<1>3. PICK f \in [SUBSET (1 .. n) -> T] : Folds(f, <<0, 0>>, step, bytes, n)
  <2>1. <<0, 0>> \in T
    BY DEF Bytes
  <2> HIDE DEF step, T
  <2> QED
    BY <1>2, <2>1, FoldExists DEF FoldsFirst
<1>4. Is(f)
  <2>1. ASSUME NEW s \in SUBSET (1 .. n)
        PROVE  f[s] = Next1(f, s)
    <3>1. CASE s = {}
      BY <1>3, <3>1 DEF Folds
    <3>2. CASE s # {}
      <4>1. Max(s) \in 1 .. n
        BY <1>1, <3>2, MaxIs
      <4>2. bytes[Max(s)] \in Bytes /\ f[s \ {Max(s)}] \in T
        BY <1>1, <4>1
      <4>3. f[s] = step[f[s \ {Max(s)}], bytes[Max(s)]]
        BY <1>3, <3>2 DEF Folds
      <4>4. step[f[s \ {Max(s)}], bytes[Max(s)]] = UpdateChecksum(bytes[Max(s)], f[s \ {Max(s)}])
        <5> HIDE DEF T
        <5> QED
          BY <4>2
      <4> QED
        BY <3>2, <4>3, <4>4
    <3> QED
      BY <3>1, <3>2
  <2> HIDE DEF Next1
  <2> QED
    BY <2>1
<1> DEFINE chosen == CHOOSE g : Is(g)
<1>5. Is(chosen)
  <2> HIDE DEF Is
  <2> QED
    BY <1>4
<1>6. Checksums(bytes) = chosen[1 .. n]
  BY <1>1 DEF Checksums, FoldLeft, MapThenFoldSet
<1>7. \A s \in SUBSET (1 .. n) : chosen[s] = Next1(chosen, s)
  <2> HIDE DEF chosen, Next1
  <2> QED
    BY <1>5
<1> HIDE DEF chosen
<1> QED
  BY <1>6, <1>7

LEMMA ChecksumsOfNothing == Checksums(<<>>) = <<0, 0>>
<1>1. <<>> \in Seq(Bytes) /\ Len(<<>>) = 0 /\ 1 .. 0 = {}
  OBVIOUS
<1>2. PICK f : /\ Checksums(<<>>) = f[1 .. 0]
               /\ \A s \in SUBSET (1 .. 0) : s = {} => f[s] = <<0, 0>>
  BY <1>1, ChecksumsAre
<1> QED
  BY <1>1, <1>2

(* The checksums go on from byte to byte. *)
LEMMA ChecksumsGoOn ==
  ASSUME NEW bytes \in Seq(Bytes), NEW c \in Bytes
  PROVE  Checksums(Append(bytes, c)) = UpdateChecksum(c, Checksums(bytes))
<1> DEFINE n == Len(bytes)
           longer == Append(bytes, c)
<1>1. /\ n \in Nat /\ longer \in Seq(Bytes) /\ Len(longer) = n + 1
      /\ longer[n + 1] = c /\ \A k \in Nat : k + 1 <= n => longer[k + 1] = bytes[k + 1]
  BY AppendProperties, LenProperties
<1> HIDE DEF longer
<1>2. PICK f : /\ Checksums(bytes) = f[1 .. n]
               /\ \A s \in SUBSET (1 .. n) :
                    f[s] = IF s = {} THEN <<0, 0>>
                           ELSE UpdateChecksum(bytes[Max(s)], f[s \ {Max(s)}])
  BY ChecksumsAre
<1>3. PICK g : /\ Checksums(longer) = g[1 .. n + 1]
               /\ \A s \in SUBSET (1 .. n + 1) :
                    g[s] = IF s = {} THEN <<0, 0>>
                           ELSE UpdateChecksum(longer[Max(s)], g[s \ {Max(s)}])
  <2>1. \E g : /\ Checksums(longer) = g[1 .. Len(longer)]
               /\ \A s \in SUBSET (1 .. Len(longer)) :
                    g[s] = IF s = {} THEN <<0, 0>>
                           ELSE UpdateChecksum(longer[Max(s)], g[s \ {Max(s)}])
    <3>1. longer \in Seq(Bytes)
      BY <1>1
    <3> QED
      BY <3>1, ChecksumsAre
  <2>2. Len(longer) = n + 1
    BY <1>1
  <2> QED
    BY <2>1, <2>2, Zenon
<1>4. \A k \in Nat : k + 1 <= n => f[1 .. k + 1] = UpdateChecksum(bytes[k + 1], f[1 .. k])
  <2> TAKE k \in Nat
  <2> HAVE k + 1 <= n
  <2>1. /\ 1 .. k + 1 \in SUBSET (1 .. n) /\ 1 .. k + 1 # {}
        /\ Max(1 .. k + 1) = k + 1 /\ (1 .. k + 1) \ {k + 1} = 1 .. k
    BY <1>1, FoldSteps
  <2>2. f[1 .. k + 1] = UpdateChecksum(bytes[Max(1 .. k + 1)], f[(1 .. k + 1) \ {Max(1 .. k + 1)}])
    BY <1>2, <2>1
  <2> QED
    BY <2>1, <2>2
<1>5. \A k \in Nat : k <= n => g[1 .. k + 1] = UpdateChecksum(longer[k + 1], g[1 .. k])
  <2> TAKE k \in Nat
  <2> HAVE k <= n
  <2>1. /\ 1 .. k + 1 \in SUBSET (1 .. n + 1) /\ 1 .. k + 1 # {}
        /\ Max(1 .. k + 1) = k + 1 /\ (1 .. k + 1) \ {k + 1} = 1 .. k
    <3>1. n + 1 \in Nat /\ k + 1 <= n + 1
      BY <1>1
    <3> QED
      BY <3>1, FoldSteps
  <2>2. g[1 .. k + 1] = UpdateChecksum(longer[Max(1 .. k + 1)], g[(1 .. k + 1) \ {Max(1 .. k + 1)}])
    BY <1>3, <2>1
  <2> QED
    BY <2>1, <2>2
<1> DEFINE same == {k \in Nat : k <= n => f[1 .. k] = g[1 .. k]}
<1>6. 0 \in same
  <2>1. 1 .. 0 = {} /\ {} \in SUBSET (1 .. n) /\ {} \in SUBSET (1 .. n + 1)
    OBVIOUS
  <2>2. f[{}] = <<0, 0>> /\ g[{}] = <<0, 0>>
    BY <1>2, <1>3, <2>1
  <2> QED
    BY <2>1, <2>2
<1>7. ASSUME NEW k \in Nat, k \in same
      PROVE  k + 1 \in same
  <2> SUFFICES ASSUME k + 1 <= n
               PROVE  f[1 .. k + 1] = g[1 .. k + 1]
    OBVIOUS
  <2>1. k <= n
    BY <1>1
  <2>0. longer[k + 1] = bytes[k + 1]
    <3> HIDE DEF n
    <3> QED
      BY <1>1, Zenon
  <2>2. f[1 .. k] = g[1 .. k]
    BY <1>7, <2>1
  <2> QED
    BY <1>4, <1>5, <2>0, <2>1, <2>2
<1> HIDE DEF same
<1>8. Nat \subseteq same
  BY <1>6, <1>7, Natural!NaturalInduction
<1>9. f[1 .. n] = g[1 .. n]
  BY <1>1, <1>8 DEF same
<1>10. g[1 .. n + 1] = UpdateChecksum(longer[n + 1], g[1 .. n])
  BY <1>1, <1>5
<1>11. Checksums(longer) = UpdateChecksum(c, Checksums(bytes))
  BY <1>1, <1>2, <1>3, <1>9, <1>10
<1> QED
  BY <1>11 DEF longer

LEMMA ChecksumsType ==
  ASSUME NEW bytes \in Seq(Bytes)
  PROVE  Checksums(bytes) \in Bytes \X Bytes
<1> DEFINE T == {b \in Seq(Bytes) : Checksums(b) \in Bytes \X Bytes}
<1>1. <<>> \in T
  BY ChecksumsOfNothing DEF Bytes
<1>2. \A b \in Seq(Bytes), c \in Bytes : b \in T => Append(b, c) \in T
  <2> TAKE b \in Seq(Bytes), c \in Bytes
  <2> HAVE b \in T
  <2>1. Checksums(Append(b, c)) = UpdateChecksum(c, Checksums(b)) /\ Checksums(b) \in Bytes \X Bytes
    BY ChecksumsGoOn
  <2>2. UpdateChecksum(c, Checksums(b)) \in Bytes \X Bytes
    BY <2>1, UpdateType
  <2>3. Append(b, c) \in Seq(Bytes)
    BY AppendProperties
  <2> QED
    BY <2>1, <2>2, <2>3
<1> HIDE DEF T
<1>3. Seq(Bytes) \subseteq T
  BY <1>1, <1>2, Natural!SequenceInduction
<1> QED
  BY <1>3 DEF T

-----------------------------------------------------------------------------
(* The parser *)

LEMMA Numbers ==
  /\ \A b \in Bytes : b \in Nat /\ b <= 255
  /\ \A k \in Nat : k <= 255 => k \in Bytes
BY DEF Bytes

LEMMA FieldsOf ==
  ASSUME NEW p \in Parsers
  PROVE  /\ p.status \in Statuses
         /\ p.header_next \in Nat /\ p.header_next <= 7
         /\ p.data_next \in Nat /\ p.data_next <= 256
         /\ p.ack \in Bytes /\ p.index \in Bytes
         /\ p.length \in Bytes /\ p.length \in Nat /\ p.length <= 255
         /\ p.data \in Seq(Bytes) /\ Len(p.data) \in Nat
         /\ p.header_sums \in Bytes \X Bytes /\ p.data_sums \in Bytes \X Bytes
<1>1. p.header_next \in 0 .. NUM_HEADER_BYTES /\ p.data_next \in 0 .. 256
  BY DEF Parsers
<1>2. p.status \in Statuses /\ p.ack \in Bytes /\ p.index \in Bytes /\ p.length \in Bytes
  BY DEF Parsers
<1>3. /\ p.data \in Seq(Bytes)
      /\ p.header_sums \in Bytes \X Bytes /\ p.data_sums \in Bytes \X Bytes
  BY DEF Parsers
<1>4. p.header_next \in Nat /\ p.header_next <= 7 /\ p.data_next \in Nat /\ p.data_next <= 256
  BY <1>1 DEF NUM_HEADER_BYTES
<1>5. p.length \in Nat /\ p.length <= 255
  BY <1>2, Numbers
<1>6. Len(p.data) \in Nat
  BY <1>3, LenProperties
<1> QED
  BY <1>2, <1>3, <1>4, <1>5, <1>6

(* The data fills data_ as the counter says, and begins with the header    *)
(* complete.                                                               *)
Filled(p) ==
  /\ p.data_next <= p.length + 1
  /\ Len(p.data) = IF p.data_next <= p.length THEN p.data_next ELSE p.length
  /\ p.header_next < 7 => p.data_next = 0

Sound == {p \in Parsers : Filled(p)}

LEMMA EmptySound ==
  ASSUME NEW p \in Parsers, p.data_next = 0, Len(p.data) = 0
  PROVE  p \in Sound
<1>1. p.length \in Nat
  BY FieldsOf
<1> QED
  BY <1>1 DEF Sound, Filled

(* A record that stores values of its fields' types is still of its type.  *)
LEMMA FieldsStay ==
  ASSUME NEW S, NEW H, NEW N, NEW A, NEW I, NEW L, NEW D, NEW U, NEW V,
         NEW p \in [status: S, header_next: H, data_next: N, ack: A, index: I,
                    length: L, data: D, header_sums: U, data_sums: V],
         NEW a \in A, NEW i \in I, NEW l \in L, NEW u \in U
  PROVE  [p EXCEPT !.ack = a, !.index = i, !.length = l, !.header_sums = u]
           \in [status: S, header_next: H, data_next: N, ack: A, index: I,
                length: L, data: D, header_sums: U, data_sums: V]
OBVIOUS

(* A parser that stores the header's fields is still one.                  *)
LEMMA FieldsSet ==
  ASSUME NEW p \in Parsers, NEW a \in Bytes, NEW i \in Bytes, NEW l \in Bytes,
         NEW u \in Bytes \X Bytes
  PROVE  [p EXCEPT !.ack = a, !.index = i, !.length = l, !.header_sums = u] \in Parsers
<1> DEFINE H == 0 .. NUM_HEADER_BYTES
           N == 0 .. 256
           D == Seq(Bytes)
           U == Bytes \X Bytes
           P == [status: Statuses, header_next: H, data_next: N, ack: Bytes, index: Bytes,
                 length: Bytes, data: D, header_sums: U, data_sums: U]
<1>1. Parsers = P
  BY DEF Parsers
<1>2. p \in P /\ u \in U
  BY <1>1
<1> HIDE DEF H, N, D, U
<1>3. [p EXCEPT !.ack = a, !.index = i, !.length = l, !.header_sums = u] \in P
  BY <1>2, FieldsStay
<1> QED
  BY <1>1, <1>3

LEMMA HeaderCharSound ==
  ASSUME NEW p \in Sound, NEW c \in Bytes, p.header_next < 7
  PROVE  ParseHeaderChar(p, c) \in Sound
<1> DEFINE n == p.header_next
           next == [p EXCEPT !.header_next = n + 1]
<1>1. p \in Parsers /\ Filled(p)
  BY DEF Sound
<1>2. p.data_next = 0 /\ Len(p.data) = 0 /\ n + 1 \in 0 .. NUM_HEADER_BYTES
  <2>1. p.length \in Nat /\ n \in Nat
    BY <1>1, FieldsOf
  <2> QED
    BY <1>1, <2>1, SMTT(30) DEF Filled, NUM_HEADER_BYTES
<1>3. next \in Parsers
  <2> HIDE DEF n
  <2> QED
    BY <1>1, <1>2 DEF Parsers
<1>4. next.data_next = 0 /\ Len(next.data) = 0
  <2> HIDE DEF n
  <2> QED
    BY <1>1, <1>2 DEF Parsers
<1>5. CASE ~Expected(p, c)
  <2> DEFINE q == [next EXCEPT !.status = "HEADER_ERROR"]
  <2>1. ParseHeaderChar(p, c) = q
    BY <1>5 DEF ParseHeaderChar
  <2>2. q \in Parsers /\ q.data_next = 0 /\ Len(q.data) = 0
    <3> HIDE DEF next
    <3> QED
      BY <1>3, <1>4, ZenonT(60) DEF Parsers, Statuses
  <2> HIDE DEF q
  <2> QED
    BY <2>1, <2>2, EmptySound
<1>6. CASE Expected(p, c)
  <2> DEFINE ack == IF n = 2 THEN c ELSE next.ack
             index == IF n = 3 THEN c ELSE next.index
             length == IF n = 4 THEN c ELSE next.length
             sums == IF n < 5 THEN UpdateChecksum(c, next.header_sums)
                              ELSE next.header_sums
             q == [next EXCEPT !.ack = ack, !.index = index, !.length = length,
                               !.header_sums = sums]
  <2>1. ParseHeaderChar(p, c) = q
    BY <1>6 DEF ParseHeaderChar
  <2>2. ack \in Bytes /\ index \in Bytes /\ length \in Bytes /\ sums \in Bytes \X Bytes
    <3> HIDE DEF next, n
    <3> QED
      BY <1>3, FieldsOf, UpdateType
  <2> HIDE DEF next, n, ack, index, length, sums
  <2>3. q.data_next = next.data_next /\ q.data = next.data
    BY <1>3 DEF Parsers
  <2>4. q \in Parsers
    BY <1>3, <2>2, FieldsSet
  <2> HIDE DEF q
  <2> QED
    BY <1>4, <2>1, <2>3, <2>4, EmptySound
<1> QED
  BY <1>5, <1>6

LEMMA DataCharSound ==
  ASSUME NEW p \in Sound, NEW c \in Bytes, p.header_next >= 7
  PROVE  ParseDataChar(p, c) \in Sound
<1>1. p \in Parsers /\ Filled(p)
  BY DEF Sound
<1>2. p.length \in Nat /\ p.length <= 255 /\ p.data_next \in Nat /\ p.data_next <= 256
  BY <1>1, FieldsOf
<1>7. p.header_next \in Nat /\ p.data \in Seq(Bytes) /\ p.data_sums \in Bytes \X Bytes
  BY <1>1, FieldsOf
<1>3. /\ p.data_next <= p.length + 1
      /\ Len(p.data) = IF p.data_next <= p.length THEN p.data_next ELSE p.length
  BY <1>1 DEF Filled
<1>4. CASE p.data_next < p.length
  <2> DEFINE next == p.data_next + 1
             data == Append(p.data, c)
             sums == UpdateChecksum(c, p.data_sums)
             q == [p EXCEPT !.data_next = next, !.data = data, !.data_sums = sums]
  <2>1. ParseDataChar(p, c) = q
    <3>1. ~ (p.data_next = p.length) /\ ~ (p.data_next > p.length)
      BY <1>2, <1>4
    <3> QED
      BY <1>4, <3>1, Zenon DEF ParseDataChar
  <2>2. sums \in Bytes \X Bytes
    BY <1>7, UpdateType
  <2>3. data \in Seq(Bytes) /\ Len(data) = Len(p.data) + 1
    BY <1>7, AppendProperties
  <2>4. next \in 0 .. 256 /\ next <= p.length /\ Len(p.data) + 1 = next
    <3>1. p.data_next <= p.length /\ p.data_next + 1 <= p.length
      BY <1>2, <1>4
    <3>2. Len(p.data) = p.data_next
      BY <1>3, <3>1
    <3>3. p.data_next + 1 \in 0 .. 256
      BY <1>2, <3>1
    <3>4. Len(p.data) + 1 = p.data_next + 1
      BY <3>2
    <3> QED
      BY <3>1, <3>3, <3>4
  <2> HIDE DEF next, data, sums
  <2>5. q \in Parsers
    BY <1>1, <2>2, <2>3, <2>4, ZenonT(60) DEF Parsers
  <2>6. /\ q.data_next = next /\ q.length = p.length
        /\ q.header_next = p.header_next /\ q.data = data
    BY <1>1 DEF Parsers
  <2> HIDE DEF q
  <2>7. Filled(q)
    <3>1. next \in Nat
      BY <2>4
    <3> QED
      BY <1>2, <1>7, <2>3, <2>4, <2>6, <3>1 DEF Filled
  <2> QED
    BY <2>1, <2>5, <2>7 DEF Sound
<1>5. CASE p.data_next = p.length /\ c = p.data_sums[1]
  <2> DEFINE next == p.data_next + 1
             q == [p EXCEPT !.data_next = next]
  <2>1. ParseDataChar(p, c) = q
    <3>1. ~ (p.data_next < p.length)
      BY <1>2, <1>5
    <3>2. ~ (p.data_next > p.length)
      BY <1>2, <1>5
    <3> QED
      BY <1>5, <3>1, <3>2, Zenon DEF ParseDataChar
  <2>2. next \in 0 .. 256 /\ next = p.length + 1
    <3>1. p.data_next = p.length
      BY <1>5
    <3> HIDE <1>5
    <3> QED
      BY <1>2, <3>1
  <2> HIDE DEF next
  <2>3. q \in Parsers
    BY <1>1, <2>2, SMTT(30) DEF Parsers
  <2>4. /\ q.data_next = next /\ q.length = p.length
        /\ q.header_next = p.header_next /\ q.data = p.data
    BY <1>1 DEF Parsers
  <2> HIDE DEF q
  <2>5. Filled(q)
    BY <1>2, <1>3, <1>5, <1>7, <2>2, <2>4 DEF Filled
  <2> QED
    BY <2>1, <2>3, <2>5 DEF Sound
<1>6. CASE ~ (p.data_next < p.length) /\ ~ (p.data_next = p.length /\ c = p.data_sums[1])
  <2>1. PICK status \in Statuses : ParseDataChar(p, c) = [p EXCEPT !.status = status]
    <3>1. CASE p.data_next > p.length /\ c = p.data_sums[2]
      BY <1>6, <3>1, Zenon DEF ParseDataChar, Statuses
    <3>2. CASE ~ (p.data_next > p.length /\ c = p.data_sums[2])
      BY <1>6, <3>2, Zenon DEF ParseDataChar, Statuses
    <3> QED
      BY <3>1, <3>2
  <2> DEFINE q == [p EXCEPT !.status = status]
  <2>2. q \in Parsers
    BY <1>1, ZenonT(60) DEF Parsers
  <2>3. /\ q.data_next = p.data_next /\ q.length = p.length
        /\ q.header_next = p.header_next /\ q.data = p.data
    BY <1>1 DEF Parsers
  <2> HIDE DEF q
  <2>4. Filled(q)
    BY <1>1, <2>3 DEF Filled
  <2> QED
    BY <2>1, <2>2, <2>4 DEF Sound, q
<1> QED
  BY <1>4, <1>5, <1>6

LEMMA CharSound ==
  ASSUME NEW p \in Sound, NEW c \in Bytes
  PROVE  ParseCharInternal(p, c) \in Sound
<1>1. p.header_next \in Nat
  BY FieldsOf DEF Sound
<1>2. CASE p.header_next < 7
  BY <1>2, HeaderCharSound DEF ParseCharInternal, NUM_HEADER_BYTES
<1>3. CASE ~ (p.header_next < 7)
  BY <1>1, <1>3, DataCharSound DEF ParseCharInternal, NUM_HEADER_BYTES
<1> QED
  BY <1>2, <1>3

LEMMA ResetSound ==
  ASSUME NEW p \in Sound
  PROVE  Reset(p) \in Sound
<1> DEFINE q == Reset(p)
<1>1. p \in Parsers
  BY DEF Sound
<1>2. <<0, 0>> \in Bytes \X Bytes /\ 0 \in Bytes /\ <<>> \in Seq(Bytes)
  BY DEF Bytes
<1>3. 0 \in 0 .. NUM_HEADER_BYTES /\ 0 \in 0 .. 256 /\ "INCOMPLETE" \in Statuses
  BY DEF NUM_HEADER_BYTES, Statuses
<1>4. q \in Parsers
  BY <1>1, <1>2, <1>3 DEF Reset, Parsers
<1>5. q.data_next = 0 /\ q.data = <<>>
  BY <1>1 DEF Reset, Parsers
<1>6. Len(q.data) = 0
  BY <1>5
<1> HIDE DEF q
<1>7. q \in Sound
  BY <1>4, <1>5, <1>6, EmptySound
<1> QED
  BY <1>7 DEF q

(* What a fold goes through stays in a set when each of its steps does. *)
LEMMA FoldStays ==
  ASSUME NEW n \in Nat, NEW T, NEW f, f[{}] \in T,
         \A s \in SUBSET (1 .. n) : s # {} /\ f[s \ {Max(s)}] \in T => f[s] \in T
  PROVE  \A k \in 0 .. n : f[1 .. k] \in T
<1> DEFINE firsts == {k \in Nat : k <= n => f[1 .. k] \in T}
<1>1. 0 \in firsts
  <2>1. 1 .. 0 = {}
    OBVIOUS
  <2> QED
    BY <2>1
<1>2. ASSUME NEW k \in Nat, k \in firsts
      PROVE  k + 1 \in firsts
  <2> SUFFICES ASSUME k + 1 <= n
               PROVE  f[1 .. k + 1] \in T
    OBVIOUS
  <2>1. /\ 1 .. k + 1 \in SUBSET (1 .. n) /\ 1 .. k + 1 # {}
        /\ Max(1 .. k + 1) = k + 1 /\ (1 .. k + 1) \ {k + 1} = 1 .. k
    BY FoldSteps
  <2>2. f[1 .. k] \in T
    BY <1>2
  <2> DEFINE s == 1 .. k + 1
  <2>3. s # {} /\ f[s \ {Max(s)}] \in T
    BY <2>1, <2>2
  <2> HIDE DEF s
  <2>4. f[s] \in T
    BY <2>1, <2>3 DEF s
  <2> QED
    BY <2>4 DEF s
<1> HIDE DEF firsts
<1>3. \A k \in Nat : k \in firsts
  BY <1>1, <1>2, Natural!NaturalInduction
<1> QED
  BY <1>3 DEF firsts

(* A byte of an attempt: an error ends it. *)
OneMore(q, c) == IF Failed(q) THEN q ELSE ParseCharInternal(q, c)

LEMMA ParseAllIs ==
  ASSUME NEW p \in Sound, NEW bytes \in Seq(Bytes)
  PROVE  \E f : /\ ParseAll(p, bytes) = f[1 .. Len(bytes)]
                /\ \A s \in SUBSET (1 .. Len(bytes)) :
                     f[s] = IF s = {} THEN p ELSE OneMore(f[s \ {Max(s)}], bytes[Max(s)])
<1> DEFINE n == Len(bytes)
           Next1(g, s) == IF s = {} THEN p ELSE OneMore(g[s \ {Max(s)}], bytes[Max(s)])
           Is(g) == g = [s \in SUBSET (1 .. n) |-> Next1(g, s)]
           step == [x \in Sound \X Bytes |-> OneMore(x[1], x[2])]
<1>1. n \in Nat /\ DOMAIN bytes = 1 .. n /\ \A i \in 1 .. n : bytes[i] \in Bytes
  BY LenProperties, ElementOfSeq
<1>2. \A q \in Sound, c \in Bytes : OneMore(q, c) \in Sound
  BY CharSound DEF OneMore
<1>3. step \in [Sound \X Bytes -> Sound]
  BY <1>2
<1>4. PICK f \in [SUBSET (1 .. n) -> Sound] : Folds(f, p, step, bytes, n)
  <2> HIDE DEF step
  <2> QED
    BY <1>3, FoldExists DEF FoldsFirst
<1>5. Is(f)
  <2>1. ASSUME NEW s \in SUBSET (1 .. n)
        PROVE  f[s] = Next1(f, s)
    <3>1. CASE s = {}
      BY <1>4, <3>1 DEF Folds
    <3>2. CASE s # {}
      <4>1. Max(s) \in 1 .. n
        BY <1>1, <3>2, MaxIs
      <4>2. bytes[Max(s)] \in Bytes /\ f[s \ {Max(s)}] \in Sound
        BY <1>1, <4>1
      <4>3. f[s] = step[f[s \ {Max(s)}], bytes[Max(s)]]
        BY <1>4, <3>2 DEF Folds
      <4>4. step[f[s \ {Max(s)}], bytes[Max(s)]] = OneMore(f[s \ {Max(s)}], bytes[Max(s)])
        BY <4>2
      <4> HIDE DEF step
      <4> QED
        BY <3>2, <4>3, <4>4
    <3> QED
      BY <3>1, <3>2
  <2> HIDE DEF Next1
  <2> QED
    BY <2>1
<1> DEFINE chosen == CHOOSE g : Is(g)
<1>6. Is(chosen)
  <2> HIDE DEF Is
  <2> QED
    BY <1>5
<1>7. ParseAll(p, bytes) = chosen[1 .. n]
  BY <1>1 DEF ParseAll, FoldLeft, MapThenFoldSet, OneMore
<1>8. \A s \in SUBSET (1 .. n) : chosen[s] = Next1(chosen, s)
  <2> HIDE DEF chosen, Next1
  <2> QED
    BY <1>6
<1> HIDE DEF chosen
<1> QED
  BY <1>7, <1>8

(* An attempt, byte by byte. *)
LEMMA ParseAllSteps ==
  ASSUME NEW p \in Sound, NEW bytes \in Seq(Bytes)
  PROVE  \E h \in [0 .. Len(bytes) -> Sound] :
           /\ h[0] = p /\ ParseAll(p, bytes) = h[Len(bytes)]
           /\ \A k \in 0 .. Len(bytes) - 1 : h[k + 1] = OneMore(h[k], bytes[k + 1])
<1> DEFINE n == Len(bytes)
<1>1. n \in Nat /\ \A i \in 1 .. n : bytes[i] \in Bytes
  BY LenProperties, ElementOfSeq
<1>2. PICK f : /\ ParseAll(p, bytes) = f[1 .. n]
               /\ \A s \in SUBSET (1 .. n) :
                    f[s] = IF s = {} THEN p ELSE OneMore(f[s \ {Max(s)}], bytes[Max(s)])
  BY ParseAllIs
<1> HIDE DEF n
<1>3. f[{}] = p
  BY <1>2
<1>4. \A s \in SUBSET (1 .. n) : s # {} /\ f[s \ {Max(s)}] \in Sound => f[s] \in Sound
  <2> TAKE s \in SUBSET (1 .. n)
  <2> HAVE s # {} /\ f[s \ {Max(s)}] \in Sound
  <2>1. bytes[Max(s)] \in Bytes
    BY <1>1, MaxIs
  <2>2. f[s] = OneMore(f[s \ {Max(s)}], bytes[Max(s)])
    BY <1>2
  <2> QED
    BY <2>1, <2>2, CharSound DEF OneMore
<1>5. \A k \in 0 .. n : f[1 .. k] \in Sound
  BY <1>1, <1>3, <1>4, FoldStays
<1> DEFINE h == [k \in 0 .. n |-> f[1 .. k]]
<1>6. h \in [0 .. n -> Sound] /\ h[n] = f[1 .. n]
  BY <1>1, <1>5
<1>7. h[0] = p
  <2>1. 1 .. 0 = {} /\ 0 \in 0 .. n
    BY <1>1
  <2> QED
    BY <1>3, <2>1
<1>8. ASSUME NEW k \in 0 .. n - 1
      PROVE  h[k + 1] = OneMore(h[k], bytes[k + 1])
  <2>1. k \in Nat /\ k + 1 <= n /\ k \in 0 .. n /\ k + 1 \in 0 .. n
    BY <1>1
  <2>2. /\ 1 .. k + 1 \in SUBSET (1 .. n) /\ 1 .. k + 1 # {}
        /\ Max(1 .. k + 1) = k + 1 /\ (1 .. k + 1) \ {k + 1} = 1 .. k
    BY <1>1, <2>1, FoldSteps
  <2>3. h[k] = f[1 .. k] /\ h[k + 1] = f[1 .. k + 1]
    BY <2>1
  <2> DEFINE s == 1 .. k + 1
  <2> HIDE DEF s, h
  <2>4. f[s] = OneMore(f[s \ {Max(s)}], bytes[Max(s)])
    BY <1>2, <2>2 DEF s
  <2> QED
    BY <2>2, <2>3, <2>4 DEF s
<1> HIDE DEF h
<1> QED
  BY <1>2, <1>6, <1>7, <1>8 DEF n

LEMMA ParseAllSound ==
  ASSUME NEW p \in Sound, NEW bytes \in Seq(Bytes)
  PROVE  ParseAll(p, bytes) \in Sound
<1>1. Len(bytes) \in 0 .. Len(bytes)
  BY LenProperties
<1> QED
  BY <1>1, ParseAllSteps

LEMMA WithChecksumsType ==
  ASSUME NEW bytes \in Seq(Bytes)
  PROVE  WithChecksums(bytes) \in Seq(Bytes) /\ Len(WithChecksums(bytes)) = Len(bytes) + 2
<1>1. PICK a \in Bytes, b \in Bytes : Checksums(bytes) = <<a, b>>
  BY ChecksumsType
<1>2. <<a, b>> \in Seq(Bytes) /\ Len(<<a, b>>) = 2
  OBVIOUS
<1> QED
  BY <1>1, <1>2, ConcatProperties DEF WithChecksums

LEMMA HeaderType ==
  ASSUME NEW ack \in Bytes, NEW index \in Bytes, NEW length \in Bytes
  PROVE  Header(ack, index, length) \in Seq(Bytes) /\ Len(Header(ack, index, length)) = 7
<1>1. 10 \in Bytes /\ 60 \in Bytes
  BY DEF Bytes
<1> DEFINE fields == <<10, 60, ack, index, length>>
<1>2. fields \in Seq(Bytes) /\ Len(fields) = 5
  BY <1>1
<1>3. Header(ack, index, length) = WithChecksums(fields)
  BY DEF Header
<1> HIDE DEF fields
<1>4. /\ WithChecksums(fields) \in Seq(Bytes)
      /\ Len(WithChecksums(fields)) = Len(fields) + 2
  BY <1>2, WithChecksumsType
<1>5. Len(WithChecksums(fields)) = 7
  BY <1>2, <1>4
<1> QED
  BY <1>3, <1>4, <1>5

LEMMA ReceivedType ==
  ASSUME NEW p \in Sound
  PROVE  Received(p) \in Seq(Bytes)
<1> DEFINE all == Header(p.ack, p.index, p.length) \o p.data
           n == IF p.header_next < NUM_HEADER_BYTES THEN p.header_next ELSE p.data_next
<1>1. p \in Parsers /\ Filled(p)
  BY DEF Sound
<1>2. /\ p.header_next \in Nat /\ p.data_next \in Nat /\ p.length \in Nat
      /\ p.ack \in Bytes /\ p.index \in Bytes /\ p.length \in Bytes
      /\ p.data \in Seq(Bytes) /\ Len(p.data) \in Nat
  BY <1>1, FieldsOf
<1>3. all \in Seq(Bytes) /\ Len(all) = 7 + Len(p.data)
  <2> DEFINE header == Header(p.ack, p.index, p.length)
  <2>1. header \in Seq(Bytes) /\ Len(header) = 7
    BY <1>2, HeaderType
  <2> HIDE DEF header
  <2>2. /\ header \o p.data \in Seq(Bytes)
        /\ Len(header \o p.data) = Len(header) + Len(p.data)
    BY <1>2, <2>1, ConcatProperties
  <2> QED
    BY <2>1, <2>2 DEF header
<1>4. n \in Nat /\ n <= 7 + Len(p.data)
  <2>1. p.data_next <= Len(p.data) + 1
    BY <1>1, <1>2 DEF Filled
  <2> QED
    BY <1>2, <2>1 DEF NUM_HEADER_BYTES
<1> HIDE DEF all, n
<1>5. SubSeq(all, 1, n) \in Seq(Bytes)
  BY <1>3, <1>4, SubSeqProperties
<1> QED
  BY <1>5 DEF Received, all, n

(* An attempt of a re-parse, at the byte start of those received.          *)
Attempt(bytes, q, start) ==
  IF Failed(q) THEN ParseAll(Reset(q), SubSeq(bytes, start, Len(bytes))) ELSE q

LEMMA AttemptSound ==
  ASSUME NEW bytes \in Seq(Bytes), NEW q \in Sound, NEW start \in Nat, start >= 1
  PROVE  Attempt(bytes, q, start) \in Sound
<1> DEFINE m == Len(bytes)
<1>0. m \in Nat /\ \A i \in 1 .. m : bytes[i] \in Bytes
  BY LenProperties, ElementOfSeq
<1>1. SubSeq(bytes, start, m) \in Seq(Bytes)
  <2> HIDE DEF m
  <2>1. \A i \in start .. m : bytes[i] \in Bytes
    BY <1>0
  <2> QED
    BY <1>0, <2>1, SubSeqProperties
<1> QED
  BY <1>1, ResetSound, ParseAllSound DEF Attempt

(* A re-parse, attempt by attempt. *)
LEMMA ReProcessSteps ==
  ASSUME NEW p \in Sound, NEW n \in Nat,
         n = IF Len(Received(p)) = 0 THEN 0 ELSE Len(Received(p)) - 1
  PROVE  \E r \in [0 .. n -> Sound] :
           /\ r[0] = p /\ ReProcessPacket(p) = r[n]
           /\ \A i \in 0 .. n - 1 : r[i + 1] = Attempt(Received(p), r[i], i + 2)
<1> DEFINE bytes == Received(p)
           m == Len(bytes)
           Starts == {k \in Nat : k >= 1}
           starts == [i \in 1 .. m - 1 |-> i + 1]
           Next1(g, s) == IF s = {} THEN p ELSE Attempt(bytes, g[s \ {Max(s)}], starts[Max(s)])
           Is(g) == g = [s \in SUBSET (1 .. n) |-> Next1(g, s)]
           step == [x \in Sound \X Starts |-> Attempt(bytes, x[1], x[2])]
<1>0. bytes \in Seq(Bytes) /\ m \in Nat /\ n = IF m = 0 THEN 0 ELSE m - 1
  BY ReceivedType, LenProperties
<1> HIDE DEF bytes, m
<1>1. /\ 1 .. m - 1 = 1 .. n
      /\ starts \in Seq(Starts) /\ Len(starts) = n
      /\ \A i \in 1 .. n : starts[i] \in Starts /\ starts[i] = i + 1
  <2>1. 1 .. m - 1 = 1 .. n
    BY <1>0
  <2>2. \A i \in 1 .. n : i + 1 \in Starts
    BY <2>1
  <2>3. starts = [i \in 1 .. n |-> i + 1]
    BY <2>1
  <2> HIDE DEF Starts
  <2> HIDE DEF starts
  <2>5. starts \in [1 .. n -> Starts] /\ \A i \in 1 .. n : starts[i] \in Starts /\ starts[i] = i + 1
    BY <2>2, <2>3
  <2>6. starts \in Seq(Starts)
    BY <2>1, <2>5
  <2>4. starts \in Seq(Starts) /\ Len(starts) = n
    BY <2>1, <2>5, <2>6, LenProperties
  <2> QED
    BY <2>1, <2>4, <2>5
<1>2. \A q \in Sound, start \in Starts : Attempt(bytes, q, start) \in Sound
  BY <1>0, AttemptSound
<1>3. step \in [Sound \X Starts -> Sound]
  <2> HIDE DEF Starts
  <2> QED
    BY <1>2
<1>4. PICK f \in [SUBSET (1 .. n) -> Sound] : Folds(f, p, step, starts, n)
  <2>1. FoldsFirst(Sound, p, step, starts, Len(starts))
    <3> HIDE DEF step, starts, Starts
    <3> QED
      BY <1>1, <1>3, FoldExists
  <2> HIDE DEF step, starts
  <2> QED
    BY <1>1, <2>1 DEF FoldsFirst
<1> HIDE DEF Starts
<1>5. Is(f)
  <2>1. ASSUME NEW s \in SUBSET (1 .. n)
        PROVE  f[s] = Next1(f, s)
    <3>1. CASE s = {}
      BY <1>4, <3>1 DEF Folds
    <3>2. CASE s # {}
      <4>1. Max(s) \in 1 .. n
        BY <3>2, MaxIs
      <4> HIDE DEF starts
      <4>2. starts[Max(s)] \in Starts /\ f[s \ {Max(s)}] \in Sound
        BY <1>1, <4>1
      <4>3. f[s] = step[f[s \ {Max(s)}], starts[Max(s)]]
        BY <1>4, <3>2 DEF Folds
      <4>4. step[f[s \ {Max(s)}], starts[Max(s)]] = Attempt(bytes, f[s \ {Max(s)}], starts[Max(s)])
        BY <4>2
      <4> HIDE DEF step
      <4> QED
        BY <3>2, <4>3, <4>4
    <3> QED
      BY <3>1, <3>2
  <2> HIDE DEF Next1
  <2> QED
    BY <2>1
<1> DEFINE chosen == CHOOSE g : Is(g)
<1>6. Is(chosen)
  <2> HIDE DEF Is
  <2> QED
    BY <1>5
<1>7. ReProcessPacket(p) = chosen[1 .. n]
  <2>1. DOMAIN starts = 1 .. n
    BY <1>1
  <2> QED
    BY <1>1, <2>1 DEF ReProcessPacket, FoldLeft, MapThenFoldSet, Attempt, bytes, m
<1>8. \A s \in SUBSET (1 .. n) : chosen[s] = Next1(chosen, s)
  <2> HIDE DEF chosen, Next1
  <2> QED
    BY <1>6
<1> HIDE DEF chosen, starts
<1>9. chosen[{}] = p
  BY <1>8
<1>10. \A s \in SUBSET (1 .. n) :
         s # {} /\ chosen[s \ {Max(s)}] \in Sound => chosen[s] \in Sound
  <2> TAKE s \in SUBSET (1 .. n)
  <2> HAVE s # {} /\ chosen[s \ {Max(s)}] \in Sound
  <2>1. starts[Max(s)] \in Starts
    BY <1>1, MaxIs
  <2>2. chosen[s] = Attempt(bytes, chosen[s \ {Max(s)}], starts[Max(s)])
    BY <1>8
  <2> QED
    BY <1>2, <2>1, <2>2
<1>11. \A k \in 0 .. n : chosen[1 .. k] \in Sound
  BY <1>9, <1>10, FoldStays
<1> DEFINE r == [k \in 0 .. n |-> chosen[1 .. k]]
<1>12. r \in [0 .. n -> Sound] /\ r[n] = chosen[1 .. n]
  BY <1>11
<1>13. r[0] = p
  <2>1. 1 .. 0 = {} /\ 0 \in 0 .. n
    OBVIOUS
  <2> QED
    BY <1>9, <2>1
<1>14. ASSUME NEW i \in 0 .. n - 1
       PROVE  r[i + 1] = Attempt(bytes, r[i], i + 2)
  <2>1. i \in Nat /\ i + 1 <= n /\ i \in 0 .. n /\ i + 1 \in 0 .. n /\ i + 1 \in 1 .. n
    OBVIOUS
  <2>2. /\ 1 .. i + 1 \in SUBSET (1 .. n) /\ 1 .. i + 1 # {}
        /\ Max(1 .. i + 1) = i + 1 /\ (1 .. i + 1) \ {i + 1} = 1 .. i
    BY <2>1, FoldSteps, SMTT(30)
  <2>3. r[i] = chosen[1 .. i] /\ r[i + 1] = chosen[1 .. i + 1]
    BY <2>1, SMTT(30)
  <2>4. starts[i + 1] = i + 2
    BY <1>1, <2>1
  <2> DEFINE s == 1 .. i + 1
  <2> HIDE DEF s, r
  <2>5. chosen[s] = Attempt(bytes, chosen[s \ {Max(s)}], starts[Max(s)])
    BY <1>8, <2>2 DEF s
  <2> QED
    BY <2>2, <2>3, <2>4, <2>5 DEF s
<1> HIDE DEF r
<1> QED
  BY <1>7, <1>12, <1>13, <1>14 DEF bytes

LEMMA ReProcessSound ==
  ASSUME NEW p \in Sound
  PROVE  ReProcessPacket(p) \in Sound
<1> DEFINE n == IF Len(Received(p)) = 0 THEN 0 ELSE Len(Received(p)) - 1
<1>1. Len(Received(p)) \in Nat
  BY ReceivedType, LenProperties
<1>2. /\ n \in Nat /\ n \in 0 .. n
      /\ n = IF Len(Received(p)) = 0 THEN 0 ELSE Len(Received(p)) - 1
  BY <1>1
<1> HIDE DEF n
<1>3. PICK r \in [0 .. n -> Sound] :
             /\ r[0] = p /\ ReProcessPacket(p) = r[n]
             /\ \A i \in 0 .. n - 1 : r[i + 1] = Attempt(Received(p), r[i], i + 2)
  BY <1>2, ReProcessSteps
<1> QED
  BY <1>2, <1>3

(* Whatever a packet has received, the next byte leaves its fields and its *)
(* data within bounds, the bytes that are parsed again included.           *)
LEMMA ParseCharSound ==
  ASSUME NEW p \in Sound, NEW c \in Bytes
  PROVE  ParseChar(p, c) \in Sound
<1> DEFINE q == ParseCharInternal(p, c)
           r == ReProcessPacket(q)
<1>1. q \in Sound
  BY CharSound
<1>2. r \in Sound
  BY <1>1, ReProcessSound
<1>3. [Reset(r) EXCEPT !.status = q.status] \in Sound
  <2> DEFINE fresh == Reset(r)
             status == q.status
             last == [fresh EXCEPT !.status = status]
  <2> HIDE DEF q, r
  <2>0. fresh \in Parsers
    BY <1>2, ResetSound DEF Sound
  <2>1. fresh.data_next = 0 /\ fresh.data = <<>>
    <3>1. r \in Parsers
      BY <1>2 DEF Sound
    <3> QED
      BY <3>1 DEF Reset, Parsers
  <2>2. status \in Statuses
    BY <1>1, FieldsOf DEF Sound
  <2> HIDE DEF fresh, status
  <2>3. last \in Parsers
    BY <2>0, <2>2, SMTT(30) DEF Parsers
  <2>6. last.data_next = 0 /\ last.data = <<>>
    BY <2>0, <2>1 DEF Parsers
  <2> HIDE DEF last
  <2>4. Len(last.data) = 0
    BY <2>6
  <2>5. last \in Sound
    BY <2>3, <2>4, <2>6, EmptySound
  <2> QED
    BY <2>5 DEF last, fresh, status
<1> DEFINE bad == [Reset(r) EXCEPT !.status = q.status]
<1>4. ParseChar(p, c) \in {q, r, bad}
  <2>1. ParseChar(p, c) = CASE ~Failed(q) -> q
                            [] Failed(q) /\ ~Failed(r) -> r
                            [] Failed(q) /\ Failed(r) -> bad
    BY DEF ParseChar
  <2> HIDE DEF q, r, bad
  <2> QED
    BY <2>1
<1> QED
  BY <1>1, <1>2, <1>3, <1>4

-----------------------------------------------------------------------------
(* A packet that arrives whole *)

PacketsOf == [ack : Bytes, index : Bytes, data : {s \in Seq(Bytes) : Len(s) \in Bytes}]

Fields(f) == <<10, 60, f.ack, f.index, Len(f.data)>>

(* What the parser holds after k bytes of the header of f, ...             *)
AfterHeader(p, f, k) ==
  /\ p.status = "INCOMPLETE" /\ p.header_next = k
  /\ p.data_next = 0 /\ p.data = <<>> /\ p.data_sums = <<0, 0>>
  /\ p.header_sums = Checksums(SubSeq(Fields(f), 1, IF k <= 5 THEN k ELSE 5))
  /\ k > 2 => p.ack = f.ack
  /\ k > 3 => p.index = f.index
  /\ k > 4 => p.length = Len(f.data)

(* ... after j bytes of its data and the checksums of it, and at the end.  *)
AfterData(p, f, j) ==
  /\ p.status = "INCOMPLETE" /\ p.header_next = 7 /\ p.data_next = j
  /\ p.ack = f.ack /\ p.index = f.index /\ p.length = Len(f.data)
  /\ p.data = SubSeq(f.data, 1, IF j <= Len(f.data) THEN j ELSE Len(f.data))
  /\ p.data_sums = Checksums(p.data)

Complete(p, f) ==
  /\ p.status = "PARSED"
  /\ p.ack = f.ack /\ p.index = f.index /\ p.data = f.data

LEMMA PrefixGoesOn ==
  ASSUME NEW S, NEW s \in Seq(S), NEW k \in Nat, k < Len(s)
  PROVE  /\ SubSeq(s, 1, k) \in Seq(S) /\ s[k + 1] \in S
         /\ SubSeq(s, 1, k + 1) = Append(SubSeq(s, 1, k), s[k + 1])
<1>1. Len(s) \in Nat /\ \A i \in 1 .. Len(s) : s[i] \in S
  BY LenProperties, ElementOfSeq
<1>2. s[k + 1] \in S
  BY <1>1
<1> DEFINE less == SubSeq(s, 1, k)
           more == SubSeq(s, 1, k + 1)
<1>3. /\ less \in Seq(S) /\ Len(less) = k
      /\ \A i \in 1 .. k : less[i] = s[i]
  <2>1. \A i \in 1 .. k : s[i] \in S
    BY <1>1
  <2>2. /\ less \in Seq(S) /\ Len(less) = IF 1 <= k THEN k - 1 + 1 ELSE 0
        /\ \A i \in 1 .. k - 1 + 1 : less[i] = s[1 + i - 1]
    BY <2>1, SubSeqProperties
  <2> QED
    BY <2>2
<1>4. /\ more \in Seq(S) /\ Len(more) = k + 1
      /\ \A i \in 1 .. k + 1 : more[i] = s[i]
  <2>1. \A i \in 1 .. k + 1 : s[i] \in S
    BY <1>1
  <2>2. /\ more \in Seq(S) /\ Len(more) = IF 1 <= k + 1 THEN (k + 1) - 1 + 1 ELSE 0
        /\ \A i \in 1 .. (k + 1) - 1 + 1 : more[i] = s[1 + i - 1]
    BY <2>1, SubSeqProperties
  <2> QED
    BY <2>2
<1> HIDE DEF less, more
<1> DEFINE longer == Append(less, s[k + 1])
<1>5. /\ longer \in Seq(S) /\ Len(longer) = k + 1 /\ longer[k + 1] = s[k + 1]
      /\ \A i \in 1 .. k : longer[i] = less[i]
  BY <1>2, <1>3, AppendProperties
<1> HIDE DEF longer
<1>6. \A i \in 1 .. k + 1 : more[i] = longer[i]
  <2> TAKE i \in 1 .. k + 1
  <2>1. CASE i = k + 1
    BY <1>4, <1>5, <2>1
  <2>2. CASE i # k + 1
    <3>1. i \in 1 .. k
      BY <2>2
    <3> QED
      BY <1>3, <1>4, <1>5, <3>1
  <2> QED
    BY <2>1, <2>2
<1>7. more = longer
  BY <1>4, <1>5, <1>6, SeqEqual
<1> QED
  BY <1>2, <1>3, <1>7 DEF less, more, longer

LEMMA ChecksumsOfPrefix ==
  ASSUME NEW s \in Seq(Bytes), NEW k \in Nat, k < Len(s)
  PROVE  Checksums(SubSeq(s, 1, k + 1)) = UpdateChecksum(s[k + 1], Checksums(SubSeq(s, 1, k)))
<1> DEFINE less == SubSeq(s, 1, k)
           c == s[k + 1]
<1>1. less \in Seq(Bytes) /\ c \in Bytes /\ SubSeq(s, 1, k + 1) = Append(less, c)
  BY PrefixGoesOn
<1> HIDE DEF less, c
<1>2. Checksums(Append(less, c)) = UpdateChecksum(c, Checksums(less))
  BY <1>1, ChecksumsGoOn
<1> QED
  BY <1>1, <1>2 DEF less, c

LEMMA PacketIs ==
  ASSUME NEW f \in PacketsOf
  PROVE  /\ f.ack \in Bytes /\ f.index \in Bytes /\ f.data \in Seq(Bytes)
         /\ Len(f.data) \in Nat /\ Len(f.data) <= 255 /\ Len(f.data) \in Bytes
         /\ Fields(f) \in Seq(Bytes) /\ Len(Fields(f)) = 5
<1>1. f.ack \in Bytes /\ f.index \in Bytes /\ f.data \in Seq(Bytes) /\ Len(f.data) <= 255
  <2>1. f.ack \in Bytes /\ f.index \in Bytes /\ f.data \in Seq(Bytes) /\ Len(f.data) \in Bytes
    BY DEF PacketsOf
  <2> QED
    BY <2>1, Numbers
<1>2. Len(f.data) \in Nat
  BY <1>1, LenProperties
<1> DEFINE length == Len(f.data)
<1>3. length \in Bytes /\ 10 \in Bytes /\ 60 \in Bytes
  <2>1. length \in Nat /\ length <= 255
    BY <1>1, <1>2
  <2> HIDE DEF length
  <2> QED
    BY <2>1 DEF Bytes
<1>4. <<10, 60, f.ack, f.index, length>> \in Seq(Bytes)
  <2> HIDE DEF length
  <2> QED
    BY <1>1, <1>3 DEF length
<1>5. Len(<<10, 60, f.ack, f.index, length>>) = 5
  OBVIOUS
<1> QED
  BY <1>1, <1>2, <1>3, <1>4, <1>5 DEF Fields

(* The bytes of a packet, by their place on the line. *)
LEMMA SerializeIs ==
  ASSUME NEW f \in PacketsOf
  PROVE  /\ Serialize(f) \in Seq(Bytes) /\ Len(Serialize(f)) = Len(f.data) + 9
         /\ \A k \in 0 .. 4 : Serialize(f)[k + 1] = Fields(f)[k + 1]
         /\ \A i \in 1 .. 2 : Serialize(f)[i + 5] = Checksums(Fields(f))[i]
         /\ \A j \in Nat : j < Len(f.data) => Serialize(f)[j + 8] = f.data[j + 1]
         /\ \A i \in 1 .. 2 : Serialize(f)[i + Len(f.data) + 7] = Checksums(f.data)[i]
<1> DEFINE fields == Fields(f)
           length == Len(f.data)
           ends == Checksums(fields)
           sums == Checksums(f.data)
           header == fields \o ends
           rest == f.data \o sums
<1>1. /\ fields \in Seq(Bytes) /\ Len(fields) = 5
      /\ f.data \in Seq(Bytes) /\ length \in Nat
  BY PacketIs
<1> HIDE DEF fields
<1>2. \A s \in Bytes \X Bytes : s \in Seq(Bytes) /\ Len(s) = 2
  <2> TAKE s \in Bytes \X Bytes
  <2>1. PICK a \in Bytes, b \in Bytes : s = <<a, b>>
    OBVIOUS
  <2>2. <<a, b>> \in Seq(Bytes) /\ Len(<<a, b>>) = 2
    OBVIOUS
  <2> QED
    BY <2>1, <2>2
<1>3. ends \in Seq(Bytes) /\ Len(ends) = 2 /\ sums \in Seq(Bytes) /\ Len(sums) = 2
  BY <1>1, <1>2, ChecksumsType
<1> HIDE DEF ends, sums
<1>4. /\ header \in Seq(Bytes) /\ Len(header) = 7
      /\ \A i \in 1 .. 7 : header[i] = IF i <= 5 THEN fields[i] ELSE ends[i - 5]
  <2>1. /\ header \in Seq(Bytes) /\ Len(header) = Len(fields) + Len(ends)
        /\ \A i \in 1 .. Len(fields) + Len(ends) :
             header[i] = IF i <= Len(fields) THEN fields[i] ELSE ends[i - Len(fields)]
    BY <1>1, <1>3, ConcatProperties
  <2> HIDE DEF header
  <2> QED
    BY <1>1, <1>3, <2>1
<1>5. /\ rest \in Seq(Bytes) /\ Len(rest) = length + 2
      /\ \A i \in 1 .. length + 2 :
           rest[i] = IF i <= length THEN f.data[i] ELSE sums[i - length]
  <2>1. /\ rest \in Seq(Bytes) /\ Len(rest) = Len(f.data) + Len(sums)
        /\ \A i \in 1 .. Len(f.data) + Len(sums) :
             rest[i] = IF i <= Len(f.data) THEN f.data[i] ELSE sums[i - Len(f.data)]
    BY <1>1, <1>3, ConcatProperties
  <2> HIDE DEF rest
  <2> QED
    BY <1>1, <1>3, <2>1
<1>6. Serialize(f) = header \o rest
  BY DEF Serialize, Header, WithChecksums, Fields, fields, ends, sums
<1> HIDE DEF header, rest
<1>7. /\ Serialize(f) \in Seq(Bytes) /\ Len(Serialize(f)) = length + 9
      /\ \A i \in 1 .. length + 9 :
           Serialize(f)[i] = IF i <= 7 THEN header[i] ELSE rest[i - 7]
  <2>1. /\ header \o rest \in Seq(Bytes) /\ Len(header \o rest) = Len(header) + Len(rest)
        /\ \A i \in 1 .. Len(header) + Len(rest) :
             (header \o rest)[i] = IF i <= Len(header) THEN header[i] ELSE rest[i - Len(header)]
    <3>1. header \in Seq(Bytes) /\ rest \in Seq(Bytes)
      BY <1>4, <1>5
    <3> QED
      BY <3>1, ConcatProperties
  <2>2. Len(header) + Len(rest) = length + 9
    BY <1>1, <1>4, <1>5
  <2> HIDE DEF length
  <2> QED
    BY <1>4, <1>6, <2>1, <2>2
<1> HIDE DEF length
<1>8. \A k \in 0 .. 4 : Serialize(f)[k + 1] = fields[k + 1]
  BY <1>1, <1>4, <1>7
<1>9. \A i \in 1 .. 2 : Serialize(f)[i + 5] = ends[i]
  <2> TAKE i \in 1 .. 2
  <2>1. /\ i + 5 \in 1 .. length + 9 /\ i + 5 \in 1 .. 7 /\ i + 5 <= 7
        /\ ~ (i + 5 <= 5) /\ (i + 5) - 5 = i
    BY <1>1
  <2> QED
    BY <1>4, <1>7, <2>1
<1>10. \A j \in Nat : j < length => Serialize(f)[j + 8] = f.data[j + 1]
  <2> TAKE j \in Nat
  <2> HAVE j < length
  <2>1. /\ j + 8 \in 1 .. length + 9 /\ ~ (j + 8 <= 7) /\ (j + 8) - 7 = j + 1
        /\ j + 1 \in 1 .. length + 2 /\ j + 1 <= length
    BY <1>1
  <2> QED
    BY <1>5, <1>7, <2>1
<1>11. \A i \in 1 .. 2 : Serialize(f)[i + length + 7] = sums[i]
  <2> TAKE i \in 1 .. 2
  <2>1. /\ i + length + 7 \in 1 .. length + 9 /\ ~ (i + length + 7 <= 7)
        /\ (i + length + 7) - 7 = i + length /\ i + length \in 1 .. length + 2
        /\ ~ (i + length <= length) /\ (i + length) - length = i
    BY <1>1
  <2> QED
    BY <1>5, <1>7, <2>1
<1> QED
  BY <1>7, <1>8, <1>9, <1>10, <1>11 DEF fields, ends, sums, length

LEMMA HeaderGoesOn ==
  ASSUME NEW f \in PacketsOf, NEW p \in Parsers, NEW k \in 0 .. 6, AfterHeader(p, f, k)
  PROVE  AfterHeader(ParseChar(p, Serialize(f)[k + 1]), f, k + 1)
<1> DEFINE c == Serialize(f)[k + 1]
           length == Len(f.data)
           fields == Fields(f)
           sums == Checksums(fields)
           header_sums == IF k < 5 THEN UpdateChecksum(c, p.header_sums) ELSE p.header_sums
           next == [p EXCEPT !.header_next = k + 1]
           q == [next EXCEPT !.ack = IF k = 2 THEN c ELSE @,
                             !.index = IF k = 3 THEN c ELSE @,
                             !.length = IF k = 4 THEN c ELSE @,
                             !.header_sums = IF k < 5 THEN UpdateChecksum(c, @) ELSE @]
<1>1. p.header_next = k /\ p.status = "INCOMPLETE" /\ k \in Nat
  BY DEF AfterHeader
<1>2. fields \in Seq(Bytes) /\ Len(fields) = 5 /\ SubSeq(fields, 1, 5) = fields
  <2>1. fields \in Seq(Bytes) /\ Len(fields) = 5
    BY PacketIs
  <2> HIDE DEF fields
  <2>2. SubSeq(fields, 1, Len(fields)) = fields
    BY <2>1, SubSeqFull
  <2> QED
    BY <2>1, <2>2
<1>3. k < 5 => c = fields[k + 1]
  BY SerializeIs
<1>4. (k = 5 => c = sums[1]) /\ (k = 6 => c = sums[2])
  BY SerializeIs
<1>5. p.header_sums = Checksums(SubSeq(fields, 1, IF k <= 5 THEN k ELSE 5))
  BY DEF AfterHeader
<1>6. k >= 5 => p.header_sums = sums
  <2> HAVE k >= 5
  <2>1. (IF k <= 5 THEN k ELSE 5) = 5
    BY <1>1
  <2> HIDE DEF fields
  <2> QED
    BY <1>2, <1>5, <2>1
<1>7. header_sums = Checksums(SubSeq(fields, 1, IF k + 1 <= 5 THEN k + 1 ELSE 5))
  <2>1. CASE k < 5
    <3> HIDE DEF fields, c
    <3>1. Checksums(SubSeq(fields, 1, k + 1)) =
            UpdateChecksum(fields[k + 1], Checksums(SubSeq(fields, 1, k)))
      BY <1>1, <1>2, <2>1, ChecksumsOfPrefix
    <3> QED
      BY <1>1, <1>3, <1>5, <2>1, <3>1
  <2>2. CASE ~ (k < 5)
    <3>1. k >= 5 /\ (IF k + 1 <= 5 THEN k + 1 ELSE 5) = 5
      BY <1>1, <2>2
    <3> HIDE DEF fields, c
    <3> QED
      BY <1>2, <1>6, <2>2, <3>1
  <2> QED
    BY <2>1, <2>2
<1>8. /\ fields[1] = 10 /\ fields[2] = 60
      /\ fields[3] = f.ack /\ fields[4] = f.index /\ fields[5] = length
  BY DEF Fields
<1> HIDE DEF c, fields, sums, length
<1>9. Expected(p, c)
  <2>1. /\ k = 0 => c = 10
        /\ k = 1 => c = 60
        /\ k = 5 => c = p.header_sums[1]
        /\ k = 6 => c = p.header_sums[2]
    BY <1>3, <1>4, <1>6, <1>8
  <2> QED
    BY <1>1, <2>1 DEF Expected
<1>10. ParseCharInternal(p, c) = q
  BY <1>1, <1>9 DEF ParseCharInternal, ParseHeaderChar, NUM_HEADER_BYTES
<1>11. q.status = "INCOMPLETE"
  BY <1>1 DEF Parsers
<1>12. ParseChar(p, c) = q
  <2> HIDE DEF q
  <2> QED
    BY <1>10, <1>11 DEF ParseChar, Failed
<1>13. /\ q.header_next = k + 1 /\ q.data_next = p.data_next /\ q.data = p.data
       /\ q.data_sums = p.data_sums
  BY DEF Parsers
<1>14. q.header_sums = header_sums
  BY DEF Parsers
<1>15. /\ q.ack = IF k = 2 THEN c ELSE p.ack
       /\ q.index = IF k = 3 THEN c ELSE p.index
       /\ q.length = IF k = 4 THEN c ELSE p.length
  BY DEF Parsers
<1> HIDE DEF q, header_sums
<1>16. /\ k + 1 > 2 => q.ack = f.ack
       /\ k + 1 > 3 => q.index = f.index
       /\ k + 1 > 4 => q.length = Len(f.data)
  <2>1. /\ k > 2 => p.ack = f.ack
        /\ k > 3 => p.index = f.index
        /\ k > 4 => p.length = Len(f.data)
    BY DEF AfterHeader
  <2>2. /\ k = 2 => c = f.ack
        /\ k = 3 => c = f.index
        /\ k = 4 => c = Len(f.data)
    BY <1>3, <1>8 DEF length
  <2>3. k + 1 > 2 => k = 2 \/ k > 2
    BY <1>1
  <2>4. k + 1 > 3 => k = 3 \/ k > 3
    BY <1>1
  <2>5. k + 1 > 4 => k = 4 \/ k > 4
    BY <1>1
  <2> QED
    BY <1>1, <1>15, <2>1, <2>2, <2>3, <2>4, <2>5
<1>17. p.data_next = 0 /\ p.data = <<>> /\ p.data_sums = <<0, 0>>
  BY DEF AfterHeader
<1>18. AfterHeader(q, f, k + 1)
  BY <1>7, <1>11, <1>13, <1>14, <1>16, <1>17 DEF AfterHeader, fields
<1> QED
  BY <1>12, <1>18 DEF c

LEMMA DataBegins ==
  ASSUME NEW f \in PacketsOf, NEW p, AfterHeader(p, f, 7)
  PROVE  AfterData(p, f, 0)
<1>1. /\ p.status = "INCOMPLETE" /\ p.header_next = 7
      /\ p.data_next = 0 /\ p.data = <<>> /\ p.data_sums = <<0, 0>>
      /\ p.ack = f.ack /\ p.index = f.index /\ p.length = Len(f.data)
  BY DEF AfterHeader
<1>2. Len(f.data) \in Nat
  BY PacketIs
<1>3. SubSeq(f.data, 1, IF 0 <= Len(f.data) THEN 0 ELSE Len(f.data)) = <<>>
  BY <1>2, SubSeqEmpty
<1> QED
  BY <1>1, <1>3, ChecksumsOfNothing DEF AfterData

LEMMA DataGoesOn ==
  ASSUME NEW f \in PacketsOf, NEW p \in Parsers, NEW j \in Nat, j <= Len(f.data),
         AfterData(p, f, j)
  PROVE  AfterData(ParseChar(p, Serialize(f)[j + 8]), f, j + 1)
<1> DEFINE c == Serialize(f)[j + 8]
           length == Len(f.data)
           data == Append(p.data, c)
           sums == UpdateChecksum(c, p.data_sums)
           q == IF j < length
                  THEN [p EXCEPT !.data_next = @ + 1, !.data = data, !.data_sums = sums]
                  ELSE [p EXCEPT !.data_next = @ + 1]
<1>1. /\ p.status = "INCOMPLETE" /\ p.header_next = 7 /\ p.data_next = j
      /\ p.ack = f.ack /\ p.index = f.index /\ p.length = length
      /\ p.data = SubSeq(f.data, 1, IF j <= length THEN j ELSE length)
      /\ p.data_sums = Checksums(p.data)
  BY DEF AfterData
<1>2. length \in Nat /\ f.data \in Seq(Bytes)
  BY PacketIs
<1>3. j < length => c = f.data[j + 1]
  BY SerializeIs
<1>4. j = length => c = Checksums(f.data)[1]
  <2>1. Serialize(f)[1 + Len(f.data) + 7] = Checksums(f.data)[1]
    BY SerializeIs
  <2>2. j = Len(f.data) => j + 8 = 1 + Len(f.data) + 7
    BY <1>2
  <2> QED
    BY <2>1, <2>2
<1>5. p.data = SubSeq(f.data, 1, j)
  BY <1>1
<1>6. j = length => p.data = f.data
  <2>1. SubSeq(f.data, 1, Len(f.data)) = f.data
    BY <1>2, SubSeqFull
  <2> QED
    BY <1>5, <2>1
<1> HIDE DEF c
<1>7. ParseCharInternal(p, c) = q
  <2>1. ParseCharInternal(p, c) = ParseDataChar(p, c)
    BY <1>1 DEF ParseCharInternal, NUM_HEADER_BYTES
  <2>2. CASE j < length
    <3>1. p.data_next < p.length /\ ~ (p.data_next = p.length) /\ ~ (p.data_next > p.length)
      BY <1>1, <1>2, <2>2
    <3> QED
      BY <2>1, <2>2, <3>1, Zenon DEF ParseDataChar
  <2>3. CASE ~ (j < length)
    <3>1. /\ p.data_next = p.length /\ ~ (p.data_next < p.length)
          /\ ~ (p.data_next > p.length) /\ j = length
      BY <1>1, <1>2, <2>3
    <3>2. c = p.data_sums[1]
      BY <1>1, <1>4, <1>6, <3>1
    <3> QED
      BY <2>1, <2>3, <3>1, <3>2, Zenon DEF ParseDataChar
  <2> QED
    BY <2>2, <2>3
<1>8. /\ q.status = p.status /\ q.header_next = p.header_next /\ q.data_next = j + 1
      /\ q.ack = p.ack /\ q.index = p.index /\ q.length = p.length
  <2> HIDE DEF data, sums
  <2> QED
    BY <1>1 DEF Parsers
<1>9. /\ j < length => q.data = data /\ q.data_sums = sums
      /\ ~ (j < length) => q.data = p.data /\ q.data_sums = p.data_sums
  <2> HIDE DEF data, sums
  <2> QED
    BY DEF Parsers
<1> HIDE DEF q
<1>10. ParseChar(p, c) = q
  BY <1>1, <1>7, <1>8 DEF ParseChar, Failed
<1>11. /\ q.data = SubSeq(f.data, 1, IF j + 1 <= length THEN j + 1 ELSE length)
       /\ q.data_sums = Checksums(q.data)
  <2>1. CASE j < length
    <3>1. SubSeq(f.data, 1, j + 1) = data
      BY <1>2, <1>3, <1>5, <2>1, PrefixGoesOn
    <3>2. Checksums(SubSeq(f.data, 1, j + 1)) = sums
      BY <1>1, <1>2, <1>3, <1>5, <2>1, ChecksumsOfPrefix
    <3>3. (IF j + 1 <= length THEN j + 1 ELSE length) = j + 1
      BY <1>2, <2>1
    <3> HIDE DEF data, sums
    <3> QED
      BY <1>9, <2>1, <3>1, <3>2, <3>3
  <2>2. CASE ~ (j < length)
    <3>1. (IF j + 1 <= length THEN j + 1 ELSE length) = j
      BY <1>2, <2>2
    <3> QED
      BY <1>1, <1>5, <1>9, <2>2, <3>1
  <2> QED
    BY <2>1, <2>2
<1>12. AfterData(q, f, j + 1)
  BY <1>1, <1>8, <1>11 DEF AfterData
<1> QED
  BY <1>10, <1>12 DEF c

LEMMA DataEnds ==
  ASSUME NEW f \in PacketsOf, NEW p \in Parsers, AfterData(p, f, Len(f.data) + 1)
  PROVE  Complete(ParseChar(p, Serialize(f)[Len(f.data) + 9]), f)
<1> DEFINE length == Len(f.data)
           c == Serialize(f)[length + 9]
           q == [p EXCEPT !.status = "PARSED"]
<1>1. length \in Nat /\ f.data \in Seq(Bytes)
  BY PacketIs
<1>2. /\ p.header_next = 7 /\ p.data_next = length + 1
      /\ p.ack = f.ack /\ p.index = f.index /\ p.length = length
      /\ p.data = SubSeq(f.data, 1, IF length + 1 <= length THEN length + 1 ELSE length)
      /\ p.data_sums = Checksums(p.data)
  BY DEF AfterData
<1>3. p.data = f.data
  <2>1. (IF length + 1 <= length THEN length + 1 ELSE length) = length
    BY <1>1
  <2>2. SubSeq(f.data, 1, Len(f.data)) = f.data
    BY <1>1, SubSeqFull
  <2> QED
    BY <1>2, <2>1, <2>2
<1>4. c = p.data_sums[2]
  <2>1. Serialize(f)[2 + Len(f.data) + 7] = Checksums(f.data)[2]
    BY SerializeIs
  <2>2. length + 9 = 2 + Len(f.data) + 7
    BY <1>1
  <2> QED
    BY <1>2, <1>3, <2>1, <2>2
<1> HIDE DEF c
<1>5. ParseCharInternal(p, c) = q
  <2>1. /\ ~ (p.data_next < p.length) /\ ~ (p.data_next = p.length)
        /\ p.data_next > p.length
    BY <1>1, <1>2
  <2>2. ParseCharInternal(p, c) = ParseDataChar(p, c)
    BY <1>2 DEF ParseCharInternal, NUM_HEADER_BYTES
  <2> QED
    BY <1>4, <2>1, <2>2, Zenon DEF ParseDataChar
<1>6. /\ q.status = "PARSED" /\ q.ack = p.ack /\ q.index = p.index
      /\ q.data = p.data
  BY DEF Parsers
<1> HIDE DEF q
<1>7. ParseChar(p, c) = q
  BY <1>5, <1>6 DEF ParseChar, Failed
<1>8. Complete(q, f)
  BY <1>2, <1>3, <1>6 DEF Complete
<1> QED
  BY <1>7, <1>8 DEF c

LEMMA NewParserSound == NewParser \in Sound
<1> DEFINE p == NewParser
<1>1. <<0, 0>> \in Bytes \X Bytes /\ 0 \in Bytes /\ <<>> \in Seq(Bytes)
  BY DEF Bytes
<1>2. 0 \in 0 .. NUM_HEADER_BYTES /\ 0 \in 0 .. 256 /\ "INCOMPLETE" \in Statuses
  BY DEF NUM_HEADER_BYTES, Statuses
<1>3. p \in Parsers
  BY <1>1, <1>2 DEF NewParser, Parsers
<1>4. p.data_next = 0 /\ p.data = <<>>
  BY DEF NewParser
<1>5. Len(p.data) = 0
  BY <1>4
<1> HIDE DEF p
<1>6. p \in Sound
  BY <1>3, <1>4, <1>5, EmptySound
<1> QED
  BY <1>6 DEF p

LEMMA CurrentSound ==
  ASSUME NEW p \in Sound
  PROVE  Current(p) \in Sound
BY ResetSound DEF Current

LEMMA WaitsForHeader ==
  ASSUME NEW p \in Parsers, Waits(p), NEW f
  PROVE  AfterHeader(Current(p), f, 0)
<1> DEFINE q == Current(p)
<1>1. /\ q.status = "INCOMPLETE" /\ q.header_next = 0 /\ q.data_next = 0
      /\ q.data = <<>> /\ q.data_sums = <<0, 0>> /\ q.header_sums = <<0, 0>>
  <2>1. CASE p = NewParser
    <3>1. q = NewParser
      BY <2>1 DEF Current, NewParser
    <3> QED
      BY <3>1 DEF NewParser
  <2>2. CASE p.status # "INCOMPLETE"
    <3>1. q = Reset(p)
      BY <2>2 DEF Current
    <3> QED
      BY <3>1 DEF Reset, Parsers
  <2> QED
    BY <2>1, <2>2 DEF Waits
<1> HIDE DEF q
<1>2. SubSeq(Fields(f), 1, IF 0 <= 5 THEN 0 ELSE 5) = <<>>
  BY SubSeqEmpty
<1>3. q.header_sums = Checksums(SubSeq(Fields(f), 1, IF 0 <= 5 THEN 0 ELSE 5))
  BY <1>1, <1>2, ChecksumsOfNothing
<1>4. ~ (0 > 2) /\ ~ (0 > 3) /\ ~ (0 > 4)
  OBVIOUS
<1>5. AfterHeader(q, f, 0)
  BY <1>1, <1>3, <1>4, Zenon DEF AfterHeader
<1> QED
  BY <1>5 DEF q

(* What the parser holds after k bytes of f. *)
Holds(p, f, k) ==
  \/ k = 0 /\ Waits(p)
  \/ k \in 1 .. 7 /\ AfterHeader(p, f, k)
  \/ k \in 8 .. Len(f.data) + 8 /\ AfterData(p, f, k - 7)
  \/ k = Len(f.data) + 9 /\ Complete(p, f)

LEMMA ByteGoesOn ==
  ASSUME NEW f \in PacketsOf, NEW p \in Parsers,
         NEW k \in Nat, k < Len(f.data) + 9, Holds(p, f, k)
  PROVE  Holds(ParseChar(Current(p), Serialize(f)[k + 1]), f, k + 1)
<1> DEFINE length == Len(f.data)
           q == ParseChar(Current(p), Serialize(f)[k + 1])
<1>1. length \in Nat
  BY PacketIs
<1>2. ASSUME NEW h \in Parsers, AfterHeader(h, f, k), k <= 6, q = ParseChar(h, Serialize(f)[k + 1])
      PROVE  Holds(q, f, k + 1)
  <2>1. k \in 0 .. 6
    BY <1>2
  <2>2. AfterHeader(q, f, k + 1)
    BY <1>2, <2>1, HeaderGoesOn
  <2>3. k + 1 \in 1 .. 7
    BY <2>1
  <2> HIDE DEF q
  <2> QED
    BY <2>2, <2>3 DEF Holds
<1>3. CASE k = 0 /\ Waits(p)
  <2>1. AfterHeader(Current(p), f, k)
    BY <1>3, WaitsForHeader
  <2>2. Current(p) \in Parsers
    <3>1. CASE p.status = "INCOMPLETE"
      BY <3>1 DEF Current
    <3>2. CASE p.status # "INCOMPLETE"
      <4>1. /\ <<0, 0>> \in Bytes \X Bytes /\ 0 \in Bytes /\ <<>> \in Seq(Bytes)
            /\ 0 \in 0 .. NUM_HEADER_BYTES /\ 0 \in 0 .. 256 /\ "INCOMPLETE" \in Statuses
        BY DEF Bytes, NUM_HEADER_BYTES, Statuses
      <4>2. Current(p) = Reset(p)
        BY <3>2 DEF Current
      <4>3. Reset(p) \in Parsers
        BY <4>1 DEF Reset, Parsers
      <4> QED
        BY <4>2, <4>3
    <3> QED
      BY <3>1, <3>2
  <2> QED
    BY <1>2, <1>3, <2>1, <2>2
<1>4. CASE k \in 1 .. 7 /\ AfterHeader(p, f, k)
  <2>1. Current(p) = p
    BY <1>4 DEF Current, AfterHeader
  <2>2. CASE k <= 6
    BY <1>2, <1>4, <2>1, <2>2
  <2>3. CASE ~ (k <= 6)
    <3>1. k = 7 /\ 0 <= Len(f.data) /\ 0 + 8 = k + 1 /\ 0 + 1 = k + 1 - 7
      BY <1>1, <2>3, <1>4
    <3>2. AfterData(p, f, 0)
      BY <1>4, <3>1, DataBegins
    <3>3. AfterData(ParseChar(p, Serialize(f)[0 + 8]), f, 0 + 1)
      BY <3>1, <3>2, DataGoesOn
    <3>4. AfterData(q, f, k + 1 - 7)
      BY <2>1, <3>1, <3>3
    <3>5. k + 1 \in 8 .. Len(f.data) + 8
      BY <1>1, <3>1
    <3> HIDE DEF q
    <3>6. Holds(q, f, k + 1)
      BY <3>4, <3>5 DEF Holds
    <3> QED
      BY <3>6 DEF q
  <2> QED
    BY <2>2, <2>3
<1>5. CASE k \in 8 .. Len(f.data) + 8 /\ AfterData(p, f, k - 7)
  <2>1. Current(p) = p
    BY <1>5 DEF Current, AfterData
  <2>2. k - 7 \in Nat /\ (k - 7) + 8 = k + 1 /\ (k - 7) + 1 = k + 1 - 7
    BY <1>5
  <2>3. CASE k - 7 <= Len(f.data)
    <3>1. AfterData(ParseChar(p, Serialize(f)[(k - 7) + 8]), f, (k - 7) + 1)
      BY <1>5, <2>2, <2>3, DataGoesOn
    <3>2. AfterData(q, f, k + 1 - 7)
      BY <2>1, <2>2, <3>1
    <3>3. k + 1 \in 8 .. Len(f.data) + 8
      BY <1>1, <1>5, <2>3
    <3> HIDE DEF q
    <3>4. Holds(q, f, k + 1)
      BY <3>2, <3>3 DEF Holds
    <3> QED
      BY <3>4 DEF q
  <2>4. CASE ~ (k - 7 <= Len(f.data))
    <3>1. k - 7 = Len(f.data) + 1 /\ k + 1 = Len(f.data) + 9
      BY <1>1, <1>5, <2>4
    <3>2. Complete(ParseChar(p, Serialize(f)[Len(f.data) + 9]), f)
      BY <1>5, <3>1, DataEnds
    <3>3. Complete(q, f)
      BY <2>1, <3>1, <3>2
    <3> HIDE DEF q
    <3>4. Holds(q, f, k + 1)
      BY <3>1, <3>3 DEF Holds
    <3> QED
      BY <3>4 DEF q
  <2> QED
    BY <2>3, <2>4
<1>6. ~ (k = Len(f.data) + 9)
  BY <1>1
<1> QED
  BY <1>3, <1>4, <1>5, <1>6 DEF Holds

(* The parser reads the bytes of b after the first m, up to the n-th.      *)
Reads(fed, b, m, n) ==
  \A k \in m .. n - 1 : fed[k + 1] = ParseChar(Current(fed[k]), b[k + 1])

(* As long as the bytes read are those of a packet, the parser is in it.   *)
LEMMA TraceHolds ==
  ASSUME NEW f \in PacketsOf, NEW n \in Nat, n <= Len(f.data) + 9, NEW b,
         \A i \in 1 .. n : b[i] = Serialize(f)[i],
         NEW fed, fed[0] \in Sound, Waits(fed[0]), Reads(fed, b, 0, n)
  PROVE  \A k \in 0 .. n : fed[k] \in Sound /\ Holds(fed[k], f, k)
<1> DEFINE good == {k \in Nat : k <= n => fed[k] \in Sound /\ Holds(fed[k], f, k)}
<1>1. /\ Len(f.data) \in Nat
      /\ \A i \in 1 .. Len(f.data) + 9 : Serialize(f)[i] \in Bytes
  BY PacketIs, SerializeIs, ElementOfSeq
<1>2. 0 \in good
  BY DEF Holds
<1>3. ASSUME NEW k \in Nat, k \in good
      PROVE  k + 1 \in good
  <2> SUFFICES ASSUME k + 1 <= n
               PROVE  fed[k + 1] \in Sound /\ Holds(fed[k + 1], f, k + 1)
    OBVIOUS
  <2>1. /\ k < Len(f.data) + 9 /\ k \in 0 .. n - 1 /\ k <= n
        /\ k + 1 \in 1 .. n /\ k + 1 \in 1 .. Len(f.data) + 9
    BY <1>1
  <2>2. fed[k] \in Sound /\ Holds(fed[k], f, k)
    BY <1>3, <2>1
  <2>3. fed[k + 1] = ParseChar(Current(fed[k]), Serialize(f)[k + 1])
    BY <2>1 DEF Reads
  <2>4. fed[k + 1] \in Sound
    BY <1>1, <2>1, <2>2, <2>3, CurrentSound, ParseCharSound
  <2>5. fed[k] \in Parsers
    BY <2>2 DEF Sound
  <2>6. Holds(fed[k + 1], f, k + 1)
    BY <2>1, <2>2, <2>3, <2>5, ByteGoesOn
  <2> QED
    BY <2>4, <2>6
<1> HIDE DEF good
<1>4. \A k \in Nat : k \in good
  BY <1>2, <1>3, Natural!NaturalInduction
<1> QED
  BY <1>4 DEF good

(* A packet that reaches a waiting parser whole is complete at its last    *)
(* byte, as it was sent, and not before: Packet::Serialize and             *)
(* Packet::ParseChar agree on every ack, index and up to 255 bytes of data.*)
THEOREM PacketIsRead ==
  ASSUME NEW f \in PacketsOf, NEW fed, fed[0] \in Sound, Waits(fed[0]),
         \A k \in 0 .. Len(Serialize(f)) - 1 :
           fed[k + 1] = ParseChar(Current(fed[k]), Serialize(f)[k + 1])
  PROVE  /\ Complete(fed[Len(Serialize(f))], f)
         /\ \A k \in 1 .. Len(Serialize(f)) - 1 : fed[k].status = "INCOMPLETE"
<1> DEFINE n == Len(Serialize(f))
<1>1. n = Len(f.data) + 9 /\ Len(f.data) \in Nat
  BY PacketIs, SerializeIs
<1>2. Reads(fed, Serialize(f), 0, n)
  BY DEF Reads
<1> HIDE DEF n
<1>5. \A k \in 0 .. n : Holds(fed[k], f, k)
  BY <1>1, <1>2, TraceHolds
<1>6. Complete(fed[n], f)
  <2>1. Holds(fed[n], f, n)
    BY <1>1, <1>5
  <2>2. ~ (n = 0) /\ ~ (n \in 1 .. 7) /\ ~ (n \in 8 .. Len(f.data) + 8)
    BY <1>1
  <2> QED
    BY <2>1, <2>2 DEF Holds
<1>7. \A k \in 1 .. n - 1 : fed[k].status = "INCOMPLETE"
  <2> TAKE k \in 1 .. n - 1
  <2>1. Holds(fed[k], f, k)
    BY <1>1, <1>5
  <2>2. ~ (k = 0) /\ ~ (k = Len(f.data) + 9)
    BY <1>1
  <2> QED
    BY <2>1, <2>2 DEF Holds, AfterHeader, AfterData
<1> QED
  BY <1>6, <1>7 DEF n

-----------------------------------------------------------------------------
(* A packet that is damaged *)

(* No packet can begin in the bytes first to last of s: each 10 among them *)
(* is followed by a byte of them that is not 60.                           *)
Startless(s, first, last) ==
  \A i \in first .. last : s[i] = 10 => i < last /\ s[i + 1] # 60

(* A byte of the header that is not the expected one. *)
LEMMA HeaderCharFails ==
  ASSUME NEW p \in Sound, NEW c \in Bytes, p.header_next < 7, ~Expected(p, c)
  PROVE  LET q == ParseCharInternal(p, c)
         IN /\ q \in Sound /\ q.status = "HEADER_ERROR"
            /\ q.header_next = p.header_next + 1
            /\ q.ack = p.ack /\ q.index = p.index /\ q.length = p.length
<1> DEFINE n == p.header_next
           next == [p EXCEPT !.header_next = n + 1]
           q == [next EXCEPT !.status = "HEADER_ERROR"]
<1>1. p \in Parsers /\ ParseCharInternal(p, c) \in Sound
  BY CharSound DEF Sound
<1>2. ParseCharInternal(p, c) = q
  BY DEF ParseCharInternal, ParseHeaderChar, NUM_HEADER_BYTES
<1>3. /\ q.status = "HEADER_ERROR" /\ q.header_next = n + 1
      /\ q.ack = p.ack /\ q.index = p.index /\ q.length = p.length
  <2> HIDE DEF n
  <2> QED
    BY <1>1 DEF Parsers
<1> HIDE DEF q
<1> QED
  BY <1>1, <1>2, <1>3

LEMMA FirstCharRead ==
  ASSUME NEW p \in Sound, p.header_next = 0
  PROVE  LET q == ParseCharInternal(p, 10)
         IN /\ q \in Sound /\ q.status = p.status
            /\ q.header_next = 1 /\ q.index = p.index
<1> DEFINE c == 10
           n == p.header_next
           next == [p EXCEPT !.header_next = n + 1]
           q == [next EXCEPT !.ack = IF n = 2 THEN c ELSE @,
                             !.index = IF n = 3 THEN c ELSE @,
                             !.length = IF n = 4 THEN c ELSE @,
                             !.header_sums = IF n < 5 THEN UpdateChecksum(c, @) ELSE @]
<1>1. p \in Parsers /\ ParseCharInternal(p, c) \in Sound
  BY CharSound DEF Sound, Bytes
<1>2. ParseCharInternal(p, c) = q
  BY DEF ParseCharInternal, ParseHeaderChar, NUM_HEADER_BYTES, Expected
<1>3. q.status = p.status /\ q.header_next = 1 /\ q.index = p.index
  BY <1>1 DEF Parsers
<1> HIDE DEF q
<1> QED
  BY <1>1, <1>2, <1>3

(* An attempt that has failed does not go on. *)
LEMMA FailureLasts ==
  ASSUME NEW n \in Nat, NEW h \in [0 .. n -> Sound], NEW k \in 0 .. n, Failed(h[k]),
         \A j \in 0 .. n - 1 : Failed(h[j]) => h[j + 1] = h[j]
  PROVE  h[n] = h[k]
<1> DEFINE same == {d \in Nat : k + d <= n => h[k + d] = h[k]}
<1>1. 0 \in same
  OBVIOUS
<1>2. ASSUME NEW d \in Nat, d \in same
      PROVE  d + 1 \in same
  <2> SUFFICES ASSUME k + (d + 1) <= n
               PROVE  h[k + (d + 1)] = h[k]
    OBVIOUS
  <2>1. k + d \in 0 .. n - 1 /\ k + d <= n /\ k + (d + 1) = (k + d) + 1
    OBVIOUS
  <2>2. h[k + d] = h[k]
    BY <1>2, <2>1
  <2>3. Failed(h[k + d]) => h[(k + d) + 1] = h[k + d]
    BY <2>1
  <2> QED
    BY <2>1, <2>2, <2>3
<1> HIDE DEF same
<1>3. n - k \in same
  <2>1. n - k \in Nat
    OBVIOUS
  <2> QED
    BY <1>1, <1>2, <2>1, Natural!NaturalInduction
<1>4. k + (n - k) = n
  OBVIOUS
<1> QED
  BY <1>3, <1>4 DEF same

(* An attempt where no packet can begin fails, and leaves the index alone. *)
LEMMA AttemptFails ==
  ASSUME NEW bytes \in Seq(Bytes), NEW q \in Sound, Failed(q), NEW start \in 1 .. Len(bytes),
         bytes[start] = 10 => start < Len(bytes) /\ bytes[start + 1] # 60
  PROVE  Failed(Attempt(bytes, q, start)) /\ Attempt(bytes, q, start).index = q.index
<1> DEFINE m == Len(bytes)
           s == SubSeq(bytes, start, m)
           n == Len(s)
           p == Reset(q)
<1>1. m \in Nat /\ start \in 1 .. m /\ \A i \in 1 .. m : bytes[i] \in Bytes
  BY LenProperties, ElementOfSeq
<1>2. /\ s \in Seq(Bytes) /\ n = m - start + 1
      /\ \A i \in 1 .. n : s[i] = bytes[start + i - 1]
  <2> HIDE DEF m
  <2>1. \A i \in start .. m : bytes[i] \in Bytes
    BY <1>1
  <2>2. /\ s \in Seq(Bytes) /\ Len(s) = IF start <= m THEN m - start + 1 ELSE 0
        /\ \A i \in 1 .. m - start + 1 : s[i] = bytes[start + i - 1]
    BY <1>1, <2>1, SubSeqProperties
  <2> QED
    BY <1>1, <2>2
<1>3. p \in Sound /\ p.header_next = 0 /\ p.index = q.index
  <2>1. q \in Parsers
    BY DEF Sound
  <2>2. p.header_next = 0 /\ p.index = q.index
    BY <2>1 DEF Reset, Parsers
  <2> QED
    BY <2>2, ResetSound
<1>4. Attempt(bytes, q, start) = ParseAll(p, s)
  BY DEF Attempt
<1> HIDE DEF m, s, p
<1>5. PICK h \in [0 .. n -> Sound] :
             /\ h[0] = p /\ ParseAll(p, s) = h[n]
             /\ \A k \in 0 .. n - 1 : h[k + 1] = OneMore(h[k], s[k + 1])
  BY <1>2, <1>3, ParseAllSteps
<1> HIDE DEF n
<1>6. n \in Nat /\ 0 \in 0 .. n - 1 /\ 1 \in 0 .. n /\ 1 \in 1 .. n
  BY <1>1, <1>2
<1>7. s[1] = bytes[start] /\ s[1] \in Bytes
  <2>1. start + 1 - 1 = start
    BY <1>1
  <2> QED
    BY <1>1, <1>2, <1>6, <2>1
<1>8. ~Failed(p)
  BY DEF p, Reset, Failed, Sound, Parsers
<1>9. h[1] = ParseCharInternal(p, s[1])
  <2>1. h[0 + 1] = OneMore(h[0], s[0 + 1])
    BY <1>5, <1>6
  <2> QED
    BY <1>5, <1>8, <2>1 DEF OneMore
<1>12. \A j \in 0 .. n - 1 : Failed(h[j]) => h[j + 1] = h[j]
  BY <1>5 DEF OneMore
<1>10. CASE bytes[start] # 10
  <2>1. ~Expected(p, s[1])
    BY <1>3, <1>7, <1>10 DEF Expected
  <2>2. Failed(h[1]) /\ h[1].index = q.index
    BY <1>3, <1>7, <1>9, <2>1, HeaderCharFails DEF Failed
  <2>3. h[n] = h[1]
    BY <1>6, <1>12, <2>2, FailureLasts
  <2> QED
    BY <1>4, <1>5, <2>2, <2>3
<1>11. CASE bytes[start] = 10
  <2>1. start < m /\ bytes[start + 1] # 60
    BY <1>11 DEF m
  <2>2. 1 \in 0 .. n - 1 /\ 2 \in 0 .. n /\ 2 \in 1 .. n /\ start + 2 - 1 = start + 1
        /\ start + 1 \in 1 .. m
    BY <1>1, <1>2, <2>1
  <2>3. s[2] # 60 /\ s[2] \in Bytes
    BY <1>1, <1>2, <2>1, <2>2
  <2>4. /\ h[1] \in Sound /\ h[1].header_next = 1 /\ h[1].index = q.index /\ ~Failed(h[1])
    BY <1>3, <1>7, <1>8, <1>9, <1>11, FirstCharRead DEF Failed
  <2>5. h[2] = ParseCharInternal(h[1], s[2])
    <3>1. h[1 + 1] = OneMore(h[1], s[1 + 1])
      BY <1>5, <2>2
    <3> QED
      BY <2>4, <3>1 DEF OneMore
  <2>6. ~Expected(h[1], s[2])
    BY <2>3, <2>4 DEF Expected
  <2>7. Failed(h[2]) /\ h[2].index = q.index
    BY <2>3, <2>4, <2>5, <2>6, HeaderCharFails DEF Failed
  <2>8. h[n] = h[2]
    BY <1>6, <1>12, <2>2, <2>7, FailureLasts
  <2> QED
    BY <1>4, <1>5, <2>7, <2>8
<1> QED
  BY <1>10, <1>11

(* A re-parse of bytes where no packet can begin fails at every attempt.   *)
LEMMA ReProcessFails ==
  ASSUME NEW p \in Sound, Failed(p), Startless(Received(p), 2, Len(Received(p)))
  PROVE  LET r == ReProcessPacket(p)
         IN r \in Sound /\ Failed(r) /\ r.index = p.index
<1> DEFINE bytes == Received(p)
           m == Len(bytes)
           n == IF m = 0 THEN 0 ELSE m - 1
<1>1. bytes \in Seq(Bytes) /\ m \in Nat /\ n \in Nat
  BY ReceivedType, LenProperties
<1>2. n = IF Len(Received(p)) = 0 THEN 0 ELSE Len(Received(p)) - 1
  OBVIOUS
<1>3. \A i \in 0 .. n - 1 : i + 2 \in 2 .. m
  BY <1>1
<1> HIDE DEF n
<1>4. PICK r \in [0 .. n -> Sound] :
             /\ r[0] = p /\ ReProcessPacket(p) = r[n]
             /\ \A i \in 0 .. n - 1 : r[i + 1] = Attempt(Received(p), r[i], i + 2)
  BY <1>1, <1>2, ReProcessSteps
<1> DEFINE failed == {i \in Nat : i <= n => Failed(r[i]) /\ r[i].index = p.index}
<1>5. 0 \in failed
  BY <1>4
<1>6. ASSUME NEW i \in Nat, i \in failed
      PROVE  i + 1 \in failed
  <2> SUFFICES ASSUME i + 1 <= n
               PROVE  Failed(r[i + 1]) /\ r[i + 1].index = p.index
    OBVIOUS
  <2>1. i \in 0 .. n - 1 /\ i \in 0 .. n /\ i <= n
    BY <1>1
  <2>2. Failed(r[i]) /\ r[i].index = p.index /\ r[i] \in Sound
    BY <1>4, <1>6, <2>1
  <2>3. r[i + 1] = Attempt(bytes, r[i], i + 2)
    BY <1>4, <2>1
  <2>4. i + 2 \in 2 .. m /\ i + 2 \in 1 .. m
    BY <1>1, <1>3, <2>1
  <2>5. bytes[i + 2] = 10 => i + 2 < m /\ bytes[(i + 2) + 1] # 60
    BY <2>4 DEF Startless
  <2> HIDE DEF bytes
  <2>6. Failed(Attempt(bytes, r[i], i + 2)) /\ Attempt(bytes, r[i], i + 2).index = r[i].index
    BY <1>1, <2>2, <2>4, <2>5, AttemptFails
  <2> QED
    BY <2>2, <2>3, <2>6
<1> HIDE DEF failed
<1>7. n \in failed
  BY <1>1, <1>5, <1>6, Natural!NaturalInduction
<1>8. n \in 0 .. n
  BY <1>1
<1> QED
  BY <1>4, <1>7, <1>8 DEF failed

(* An error after which the re-parse finds no packet is the end of it.     *)
LEMMA ParseCharFails ==
  ASSUME NEW p \in Sound, NEW c \in Bytes, Failed(ParseCharInternal(p, c)),
         LET bytes == Received(ParseCharInternal(p, c))
         IN Startless(bytes, 2, Len(bytes))
  PROVE  /\ ParseChar(p, c).status = ParseCharInternal(p, c).status
         /\ ParseChar(p, c).index = ParseCharInternal(p, c).index
<1> DEFINE q == ParseCharInternal(p, c)
           r == ReProcessPacket(q)
           bad == [Reset(r) EXCEPT !.status = q.status]
<1>1. q \in Sound /\ Failed(q) /\ Startless(Received(q), 2, Len(Received(q)))
  BY CharSound
<1> HIDE DEF q
<1>2. r \in Sound /\ Failed(r) /\ r.index = q.index
  BY <1>1, ReProcessFails
<1>3. ParseChar(p, c) = bad
  BY <1>1, <1>2 DEF ParseChar, q
<1>4. bad.status = q.status /\ bad.index = r.index
  <2>1. r \in Parsers
    BY <1>2 DEF Sound
  <2> HIDE DEF r
  <2> QED
    BY <2>1 DEF Reset, Parsers
<1> HIDE DEF bad
<1> QED
  BY <1>2, <1>3, <1>4 DEF q

(* The header as it should have been, and the data.                        *)
Whole(p) == Header(p.ack, p.index, p.length) \o p.data

LEMMA WholeIs ==
  ASSUME NEW p \in Parsers
  PROVE  LET fields == <<10, 60, p.ack, p.index, p.length>>
         IN /\ Whole(p) \in Seq(Bytes) /\ Len(Whole(p)) = Len(p.data) + 7
            /\ \A i \in 1 .. 5 : Whole(p)[i] = fields[i]
            /\ \A i \in 1 .. 2 : Whole(p)[i + 5] = Checksums(fields)[i]
            /\ \A j \in 1 .. Len(p.data) : Whole(p)[j + 7] = p.data[j]
<1> DEFINE fields == <<10, 60, p.ack, p.index, p.length>>
           ends == Checksums(fields)
           header == fields \o ends
           data == p.data
<1>1. data \in Seq(Bytes) /\ Len(data) \in Nat
  BY FieldsOf
<1>2. fields \in Seq(Bytes) /\ Len(fields) = 5
  <2>1. 10 \in Bytes /\ 60 \in Bytes /\ p.ack \in Bytes /\ p.index \in Bytes /\ p.length \in Bytes
    BY FieldsOf DEF Bytes
  <2> QED
    BY <2>1
<1>3. Whole(p) = header \o data
  BY DEF Whole, Header, WithChecksums
<1> HIDE DEF fields, data
<1>4. ends \in Seq(Bytes) /\ Len(ends) = 2
  <2>1. PICK u \in Bytes, v \in Bytes : ends = <<u, v>>
    BY <1>2, ChecksumsType
  <2> HIDE DEF ends
  <2> QED
    BY <2>1
<1> HIDE DEF ends
<1>5. /\ header \in Seq(Bytes) /\ Len(header) = 7
      /\ \A i \in 1 .. 7 : header[i] = IF i <= 5 THEN fields[i] ELSE ends[i - 5]
  <2>1. /\ header \in Seq(Bytes) /\ Len(header) = Len(fields) + Len(ends)
        /\ \A i \in 1 .. Len(fields) + Len(ends) :
             header[i] = IF i <= Len(fields) THEN fields[i] ELSE ends[i - Len(fields)]
    BY <1>2, <1>4, ConcatProperties
  <2> HIDE DEF header
  <2> QED
    BY <1>2, <1>4, <2>1
<1> HIDE DEF header
<1>6. /\ Whole(p) \in Seq(Bytes) /\ Len(Whole(p)) = Len(data) + 7
      /\ \A i \in 1 .. Len(data) + 7 :
           Whole(p)[i] = IF i <= 7 THEN header[i] ELSE data[i - 7]
  <2>1. /\ header \o data \in Seq(Bytes) /\ Len(header \o data) = Len(header) + Len(data)
        /\ \A i \in 1 .. Len(header) + Len(data) :
             (header \o data)[i] = IF i <= Len(header) THEN header[i] ELSE data[i - Len(header)]
    BY <1>1, <1>5, ConcatProperties
  <2>2. Len(header) + Len(data) = Len(data) + 7
    BY <1>1, <1>5
  <2> QED
    BY <1>3, <1>5, <2>1, <2>2
<1>7. \A i \in 1 .. 5 : Whole(p)[i] = fields[i]
  <2> TAKE i \in 1 .. 5
  <2>1. i \in 1 .. Len(data) + 7 /\ i <= 7 /\ i \in 1 .. 7 /\ i <= 5
    BY <1>1
  <2> QED
    BY <1>5, <1>6, <2>1
<1>8. \A i \in 1 .. 2 : Whole(p)[i + 5] = ends[i]
  <2> TAKE i \in 1 .. 2
  <2>1. /\ i + 5 \in 1 .. Len(data) + 7 /\ i + 5 <= 7 /\ i + 5 \in 1 .. 7
        /\ ~ (i + 5 <= 5) /\ (i + 5) - 5 = i
    BY <1>1
  <2> QED
    BY <1>5, <1>6, <2>1
<1>9. \A j \in 1 .. Len(data) : Whole(p)[j + 7] = data[j]
  <2> TAKE j \in 1 .. Len(data)
  <2>1. j + 7 \in 1 .. Len(data) + 7 /\ ~ (j + 7 <= 7) /\ (j + 7) - 7 = j
    BY <1>1
  <2> QED
    BY <1>6, <2>1
<1> QED
  BY <1>6, <1>7, <1>8, <1>9 DEF fields, ends, data

(* What is parsed again is as long as the counter of the part that failed. *)
LEMMA ReceivedIs ==
  ASSUME NEW p \in Sound
  PROVE  /\ Len(Received(p)) = IF p.header_next < 7 THEN p.header_next ELSE p.data_next
         /\ \A i \in 1 .. Len(Received(p)) : Received(p)[i] = Whole(p)[i]
<1> DEFINE all == Whole(p)
           n == IF p.header_next < NUM_HEADER_BYTES THEN p.header_next ELSE p.data_next
<1>1. p \in Parsers /\ Filled(p)
  BY DEF Sound
<1>2. /\ p.header_next \in Nat /\ p.data_next \in Nat /\ p.length \in Nat
      /\ Len(p.data) \in Nat
  BY <1>1, FieldsOf
<1>3. all \in Seq(Bytes) /\ Len(all) = Len(p.data) + 7
  BY <1>1, WholeIs
<1>4. n \in Nat /\ n <= Len(p.data) + 7
  <2>1. p.data_next <= Len(p.data) + 1
    BY <1>1, <1>2 DEF Filled
  <2> QED
    BY <1>2, <2>1 DEF NUM_HEADER_BYTES
<1>5. Received(p) = SubSeq(all, 1, n)
  BY DEF Received, Whole
<1> HIDE DEF all, n
<1>6. \A i \in 1 .. n : all[i] \in Bytes
  BY <1>2, <1>3, <1>4, ElementOfSeq
<1>7. /\ Len(SubSeq(all, 1, n)) = IF 1 <= n THEN n - 1 + 1 ELSE 0
      /\ \A i \in 1 .. n - 1 + 1 : SubSeq(all, 1, n)[i] = all[1 + i - 1]
  BY <1>4, <1>6, SubSeqProperties
<1> DEFINE part == SubSeq(all, 1, n)
<1> HIDE DEF part
<1>8. /\ Len(part) = IF 1 <= n THEN n - 1 + 1 ELSE 0
      /\ \A i \in 1 .. n - 1 + 1 : part[i] = all[1 + i - 1]
  BY <1>7 DEF part
<1>9. Len(part) = n /\ \A i \in 1 .. n : part[i] = all[i]
  BY <1>4, <1>8
<1> QED
  BY <1>5, <1>9 DEF all, part, n, NUM_HEADER_BYTES

(* In the two bytes that begin a header no other packet begins. *)
LEMMA FewReceived ==
  ASSUME NEW p \in Sound, p.header_next <= 2
  PROVE  Startless(Received(p), 2, Len(Received(p)))
<1>1. p \in Parsers
  BY DEF Sound
<1>2. /\ p.header_next \in Nat /\ p.data \in Seq(Bytes)
      /\ p.ack \in Bytes /\ p.index \in Bytes /\ p.length \in Bytes
  BY <1>1, FieldsOf
<1>3. Len(Received(p)) = p.header_next
  <2>1. p.header_next < 7
    BY <1>2
  <2>2. Len(Received(p)) = IF p.header_next < 7 THEN p.header_next ELSE p.data_next
    BY ReceivedIs
  <2> QED
    BY <2>1, <2>2
<1>4. ASSUME NEW i \in 2 .. Len(Received(p)) PROVE Received(p)[i] = 60
  <2>1. i = 2 /\ i \in 1 .. Len(Received(p))
    BY <1>2, <1>3
  <2>2. Received(p)[i] = Whole(p)[i]
    BY <2>1, ReceivedIs
  <2>3. Whole(p)[2] = 60
    <3> DEFINE fields == <<10, 60, p.ack, p.index, p.length>>
    <3>1. \A k \in 1 .. 5 : Whole(p)[k] = fields[k]
      BY <1>1, WholeIs
    <3>2. 2 \in 1 .. 5 /\ fields[2] = 60
      OBVIOUS
    <3> HIDE DEF fields
    <3> QED
      BY <3>1, <3>2
  <2> QED
    BY <2>1, <2>2, <2>3
<1> QED
  BY <1>4 DEF Startless

LEMMA CurrentWaits ==
  ASSUME NEW p \in Sound, Waits(p)
  PROVE  /\ Current(p) \in Sound
         /\ Current(p).status = "INCOMPLETE" /\ Current(p).header_next = 0
<1>1. AfterHeader(Current(p), p, 0)
  BY WaitsForHeader DEF Sound
<1> QED
  BY <1>1, CurrentSound DEF AfterHeader

(* A header that begins with something else is an error at once.           *)
LEMMA NoFirstByte ==
  ASSUME NEW p \in Sound, Waits(p), NEW c \in Bytes, c # 10
  PROVE  LET q == ParseCharInternal(Current(p), c)
         IN /\ q.status = "HEADER_ERROR"
            /\ ParseChar(Current(p), c).status = "HEADER_ERROR"
<1> DEFINE h == Current(p)
           q == ParseCharInternal(h, c)
<1>1. h \in Sound /\ h.status = "INCOMPLETE" /\ h.header_next = 0
  BY CurrentWaits
<1> HIDE DEF h
<1>2. q \in Sound /\ q.status = "HEADER_ERROR" /\ q.header_next = 1
  <2>1. ~Expected(h, c)
    BY <1>1 DEF Expected
  <2> QED
    BY <1>1, <2>1, HeaderCharFails
<1>3. Startless(Received(q), 2, Len(Received(q)))
  BY <1>2, FewReceived
<1>4. Failed(q)
  BY <1>2 DEF Failed
<1>5. ParseChar(h, c).status = q.status
  BY <1>1, <1>3, <1>4, ParseCharFails
<1> QED
  BY <1>2, <1>5 DEF h

LEMMA NoSecondByte ==
  ASSUME NEW p \in Sound, p.status = "INCOMPLETE", p.header_next = 1,
         NEW c \in Bytes, c # 60
  PROVE  LET q == ParseCharInternal(Current(p), c)
         IN /\ q.status = "HEADER_ERROR"
            /\ ParseChar(Current(p), c).status = "HEADER_ERROR"
<1> DEFINE q == ParseCharInternal(p, c)
<1>1. Current(p) = p
  BY DEF Current
<1>2. q \in Sound /\ q.status = "HEADER_ERROR" /\ q.header_next = 2
  <2>1. ~Expected(p, c)
    BY DEF Expected
  <2> QED
    BY <2>1, HeaderCharFails
<1>3. Startless(Received(q), 2, Len(Received(q)))
  BY <1>2, FewReceived
<1>4. Failed(q)
  BY <1>2 DEF Failed
<1>5. ParseChar(p, c).status = q.status
  BY <1>3, <1>4, ParseCharFails
<1> QED
  BY <1>1, <1>2, <1>5

LEMMA FirstByte ==
  ASSUME NEW p \in Sound, Waits(p)
  PROVE  /\ ParseChar(Current(p), 10).status = "INCOMPLETE"
         /\ ParseChar(Current(p), 10).header_next = 1
<1> DEFINE h == Current(p)
           q == ParseCharInternal(h, 10)
<1>1. h \in Sound /\ h.status = "INCOMPLETE" /\ h.header_next = 0
  BY CurrentWaits
<1> HIDE DEF h
<1>2. q.status = "INCOMPLETE" /\ q.header_next = 1
  BY <1>1, FirstCharRead
<1>3. ParseChar(h, 10) = q
  BY <1>2 DEF ParseChar, Failed
<1> QED
  BY <1>2, <1>3 DEF h

(* Bytes in which no packet can begin leave a waiting parser waiting, and  *)
(* nothing is parsed of them: what is between two packets on the line costs*)
(* neither of them (Packet::ParseChar, packet.cc).                         *)
THEOREM NoiseIsSkipped ==
  ASSUME NEW m \in Nat, NEW n \in Nat, m <= n, NEW b,
         \A i \in m + 1 .. n : b[i] \in Bytes, Startless(b, m + 1, n),
         NEW fed, fed[m] \in Sound, Waits(fed[m]), Reads(fed, b, m, n)
  PROVE  /\ fed[n] \in Sound /\ Waits(fed[n])
         /\ \A k \in m + 1 .. n : fed[k].status # "PARSED"
<1> DEFINE Started(k) == /\ k > m /\ b[k] = 10
                         /\ fed[k].status = "INCOMPLETE" /\ fed[k].header_next = 1
           Skips(k) == /\ fed[k] \in Sound /\ (Waits(fed[k]) \/ Started(k))
                       /\ k > m => fed[k].status # "PARSED"
           good == {d \in Nat : m + d <= n => Skips(m + d)}
<1>1. 0 \in good
  <2>1. m + 0 = m /\ ~ (m > m)
    OBVIOUS
  <2> QED
    BY <2>1
<1>2. ASSUME NEW d \in Nat, d \in good
      PROVE  d + 1 \in good
  <2> SUFFICES ASSUME m + (d + 1) <= n
               PROVE  Skips(m + (d + 1))
    OBVIOUS
  <2> DEFINE k == m + d
             c == b[k + 1]
  <2>1. /\ k \in Nat /\ k <= n /\ k \in m .. n - 1 /\ k + 1 \in m + 1 .. n
        /\ m + (d + 1) = k + 1 /\ k + 1 > m
    OBVIOUS
  <2>2. Skips(k)
    BY <1>2, <2>1
  <2> HIDE DEF k
  <2>3. fed[k + 1] = ParseChar(Current(fed[k]), c)
    BY <2>1 DEF Reads
  <2>4. c \in Bytes
    BY <2>1
  <2> HIDE DEF c
  <2>5. fed[k + 1] \in Sound
    BY <2>2, <2>3, <2>4, CurrentSound, ParseCharSound
  <2>6. CASE Waits(fed[k]) /\ c # 10
    <3>1. fed[k + 1].status = "HEADER_ERROR"
      BY <2>2, <2>3, <2>4, <2>6, NoFirstByte
    <3> QED
      BY <2>1, <2>5, <3>1 DEF Waits
  <2>7. CASE Waits(fed[k]) /\ c = 10
    <3>1. fed[k + 1].status = "INCOMPLETE" /\ fed[k + 1].header_next = 1
      BY <2>2, <2>3, <2>7, FirstByte
    <3> QED
      BY <2>1, <2>5, <2>7, <3>1 DEF c
  <2>8. CASE Started(k)
    <3>1. k \in m + 1 .. n
      BY <2>1, <2>8
    <3>2. c # 60
      BY <2>8, <3>1 DEF Startless, c
    <3>3. fed[k + 1].status = "HEADER_ERROR"
      BY <2>2, <2>3, <2>4, <2>8, <3>2, NoSecondByte
    <3> QED
      BY <2>1, <2>5, <3>3 DEF Waits
  <2> QED
    BY <2>2, <2>6, <2>7, <2>8
<1> HIDE DEF good
<1>3. \A d \in Nat : d \in good
  BY <1>1, <1>2, Natural!NaturalInduction
<1>4. ASSUME NEW k \in m .. n PROVE Skips(k)
  <2>1. k - m \in Nat /\ m + (k - m) = k /\ m + (k - m) <= n
    OBVIOUS
  <2>2. k - m \in good
    BY <1>3, <2>1
  <2> HIDE DEF Skips
  <2> QED
    BY <2>1, <2>2 DEF good
<1>5. ~Started(n)
  <2> SUFFICES ASSUME Started(n) PROVE FALSE
    OBVIOUS
  <2>1. n \in m + 1 .. n
    OBVIOUS
  <2> QED
    BY <2>1 DEF Startless
<1>6. n \in m .. n /\ \A k \in m + 1 .. n : k \in m .. n /\ k > m
  OBVIOUS
<1> QED
  BY <1>4, <1>5, <1>6

(* The first checksum is the sum of the bytes, and a sum modulo 256 tells  *)
(* any two bytes apart.                                                    *)
LEMMA SumsApart ==
  ASSUME NEW u \in Bytes, NEW v \in Bytes, NEW c \in Bytes
  PROVE  /\ (u + c) % 256 = (v + c) % 256 => u = v
         /\ (c + u) % 256 = (c + v) % 256 => u = v
<1>1. ASSUME NEW x \in Bytes
      PROVE  (x + c) % 256 = IF x + c < 256 THEN x + c ELSE x + c - 256
  <2>1. x \in Nat /\ x <= 255 /\ c \in Nat /\ c <= 255
    BY Numbers
  <2>2. CASE x + c < 256
    BY <2>1, <2>2
  <2>3. CASE ~ (x + c < 256)
    BY <2>1, <2>3
  <2> QED
    BY <2>2, <2>3
<1>2. u \in Nat /\ u <= 255 /\ v \in Nat /\ v <= 255 /\ c \in Nat /\ c <= 255
  BY Numbers
<1>3. (u + c) % 256 = (v + c) % 256 => u = v
  <2>1. (IF u + c < 256 THEN u + c ELSE u + c - 256)
          = (IF v + c < 256 THEN v + c ELSE v + c - 256) => u = v
    BY <1>2
  <2> QED
    BY <1>1, <2>1
<1>4. c + u = u + c /\ c + v = v + c
  BY <1>2
<1> QED
  BY <1>3, <1>4

(* Bytes that differ in one place differ in their first checksum.          *)
LEMMA SumsDiffer ==
  ASSUME NEW s \in Seq(Bytes), NEW t \in Seq(Bytes), Len(s) = Len(t),
         NEW x \in 1 .. Len(s), s[x] # t[x],
         \A i \in 1 .. Len(s) : i # x => s[i] = t[i]
  PROVE  Checksums(s)[1] # Checksums(t)[1]
<1> DEFINE n == Len(s)
           us == [k \in 0 .. n |-> Checksums(SubSeq(s, 1, k))[1]]
           vs == [k \in 0 .. n |-> Checksums(SubSeq(t, 1, k))[1]]
           apart == {k \in Nat : k <= n => (us[k] = vs[k] <=> k < x)}
<1>1. /\ n \in Nat /\ n = Len(t)
      /\ \A i \in 1 .. n : s[i] \in Bytes /\ t[i] \in Bytes
  BY LenProperties, ElementOfSeq
<1>2. SubSeq(s, 1, 0) = <<>> /\ SubSeq(t, 1, 0) = <<>>
  BY SubSeqEmpty
<1>3. us[0] = vs[0]
  <2>1. 0 \in 0 .. n
    BY <1>1
  <2>2. us[0] = Checksums(SubSeq(s, 1, 0))[1] /\ vs[0] = Checksums(SubSeq(t, 1, 0))[1]
    BY <2>1
  <2> HIDE DEF us, vs
  <2> QED
    BY <1>2, <2>2
<1>4. ASSUME NEW r \in Seq(Bytes), NEW k \in Nat, k < Len(r)
      PROVE  /\ Checksums(SubSeq(r, 1, k))[1] \in Bytes /\ r[k + 1] \in Bytes
             /\ Checksums(SubSeq(r, 1, k + 1))[1] =
                  (Checksums(SubSeq(r, 1, k))[1] + r[k + 1]) % 256
  <2>1. /\ SubSeq(r, 1, k) \in Seq(Bytes) /\ r[k + 1] \in Bytes
    BY <1>4, PrefixGoesOn
  <2>2. Checksums(SubSeq(r, 1, k)) \in Bytes \X Bytes
    BY <2>1, ChecksumsType
  <2>3. Checksums(SubSeq(r, 1, k + 1)) =
          UpdateChecksum(r[k + 1], Checksums(SubSeq(r, 1, k)))
    BY <1>4, ChecksumsOfPrefix
  <2> QED
    BY <2>1, <2>2, <2>3 DEF UpdateChecksum
<1>5. ASSUME NEW k \in Nat, k + 1 <= n
      PROVE  /\ us[k] \in Bytes /\ vs[k] \in Bytes
             /\ us[k + 1] = (us[k] + s[k + 1]) % 256
             /\ vs[k + 1] = (vs[k] + t[k + 1]) % 256
  <2>1. k < Len(s) /\ k < Len(t) /\ k \in 0 .. n /\ k + 1 \in 0 .. n
    BY <1>1, <1>5
  <2> QED
    BY <1>4, <2>1
<1> HIDE DEF us, vs
<1>6. 0 \in apart
  BY <1>1, <1>3
<1>7. ASSUME NEW k \in Nat, k \in apart
      PROVE  k + 1 \in apart
  <2> SUFFICES ASSUME k + 1 <= n
               PROVE  us[k + 1] = vs[k + 1] <=> k + 1 < x
    OBVIOUS
  <2> DEFINE u == us[k]
             v == vs[k]
             c == s[k + 1]
             d == t[k + 1]
  <2>1. k + 1 \in 1 .. n /\ k <= n /\ x \in Nat
    BY <1>1
  <2>2. c \in Bytes /\ d \in Bytes /\ (k + 1 # x => c = d) /\ (k + 1 = x => c # d)
    BY <1>1, <2>1
  <2>3. u = v <=> k < x
    BY <1>7, <2>1
  <2>4. /\ u \in Bytes /\ v \in Bytes
        /\ us[k + 1] = (u + c) % 256 /\ vs[k + 1] = (v + d) % 256
    BY <1>5
  <2> HIDE DEF u, v, c, d
  <2>5. CASE k + 1 < x
    <3>1. u = v /\ c = d
      BY <2>1, <2>2, <2>3, <2>5
    <3> QED
      BY <2>4, <2>5, <3>1
  <2>6. CASE k + 1 = x
    <3>1. u = v /\ c # d /\ ~ (k + 1 < x)
      BY <2>1, <2>2, <2>3, <2>6
    <3>2. (u + c) % 256 # (v + d) % 256
      BY <2>2, <2>4, <3>1, SumsApart
    <3> QED
      BY <2>4, <3>1, <3>2
  <2>7. CASE k + 1 > x
    <3>1. u # v /\ c = d /\ ~ (k + 1 < x)
      BY <2>1, <2>2, <2>3, <2>7
    <3>2. (u + c) % 256 # (v + d) % 256
      BY <2>2, <2>4, <3>1, SumsApart
    <3> QED
      BY <2>4, <3>1, <3>2
  <2> QED
    BY <2>1, <2>5, <2>6, <2>7
<1> HIDE DEF apart
<1>8. n \in apart
  BY <1>1, <1>6, <1>7, Natural!NaturalInduction
<1>9. us[n] # vs[n]
  <2>1. us[n] = vs[n] <=> n < x
    BY <1>1, <1>8 DEF apart
  <2> QED
    BY <1>1, <2>1
<1>10. us[n] = Checksums(s)[1] /\ vs[n] = Checksums(t)[1]
  <2>1. SubSeq(s, 1, Len(s)) = s /\ SubSeq(t, 1, Len(t)) = t
    BY SubSeqFull
  <2>2. n \in 0 .. n
    BY <1>1
  <2> QED
    BY <1>1, <2>1, <2>2 DEF us, vs
<1> QED
  BY <1>9, <1>10

(* The byte where a wrong checksum, or a wrong start of a header, is met.  *)
LEMMA WrongHeaderByte ==
  ASSUME NEW f \in PacketsOf, NEW p \in Sound, NEW k \in {0, 1, 5, 6}, Holds(p, f, k),
         NEW c \in Bytes, c # Serialize(f)[k + 1]
  PROVE  LET q == ParseCharInternal(Current(p), c)
         IN q \in Sound /\ q.status = "HEADER_ERROR" /\ q.header_next = k + 1
<1> DEFINE h == Current(p)
           fields == Fields(f)
<1>1. h \in Sound /\ AfterHeader(h, f, k)
  <2>1. CASE k = 0
    <3>1. Waits(p)
      BY <2>1, PacketIs DEF Holds
    <3> QED
      BY <2>1, <3>1, CurrentSound, WaitsForHeader DEF Sound
  <2>2. CASE k # 0
    <3>1. k \in 1 .. 7 /\ k \notin 8 .. Len(f.data) + 8 /\ k # Len(f.data) + 9
      BY <2>2, PacketIs
    <3>2. AfterHeader(p, f, k)
      BY <2>2, <3>1 DEF Holds
    <3>3. Current(p) = p
      BY <3>2 DEF Current, AfterHeader
    <3> QED
      BY <3>2, <3>3
  <2> QED
    BY <2>1, <2>2
<1> HIDE DEF h
<1>2. h.header_next = k /\ h.header_next < 7
  BY <1>1 DEF AfterHeader
<1>3. k = 0 => Serialize(f)[k + 1] = 10
  <2>1. 0 \in 0 .. 4 /\ Fields(f)[1] = 10
    BY DEF Fields
  <2>2. Serialize(f)[0 + 1] = Fields(f)[0 + 1]
    BY <2>1, SerializeIs
  <2> QED
    BY <2>1, <2>2
<1>4. k = 1 => Serialize(f)[k + 1] = 60
  <2>1. 1 \in 0 .. 4 /\ Fields(f)[2] = 60
    BY DEF Fields
  <2>2. Serialize(f)[1 + 1] = Fields(f)[1 + 1]
    BY <2>1, SerializeIs
  <2> QED
    BY <2>1, <2>2
<1>5. k \in {5, 6} => h.header_sums = Checksums(fields)
  <2> HAVE k \in {5, 6}
  <2>1. (IF k <= 5 THEN k ELSE 5) = 5
    OBVIOUS
  <2>2. h.header_sums = Checksums(SubSeq(fields, 1, IF k <= 5 THEN k ELSE 5))
    BY <1>1 DEF AfterHeader
  <2>3. fields \in Seq(Bytes) /\ Len(fields) = 5
    BY PacketIs
  <2> HIDE DEF fields
  <2>4. SubSeq(fields, 1, Len(fields)) = fields
    BY <2>3, SubSeqFull
  <2> QED
    BY <2>1, <2>2, <2>3, <2>4
<1>6. /\ k = 5 => Serialize(f)[k + 1] = Checksums(fields)[1]
      /\ k = 6 => Serialize(f)[k + 1] = Checksums(fields)[2]
  BY SerializeIs
<1> HIDE DEF fields
<1>7. ~Expected(h, c)
  BY <1>2, <1>3, <1>4, <1>5, <1>6 DEF Expected
<1> QED
  BY <1>1, <1>2, <1>7, HeaderCharFails DEF h

LEMMA WrongDataByte ==
  ASSUME NEW f \in PacketsOf, NEW p \in Sound, NEW j \in {0, 1},
         Holds(p, f, Len(f.data) + j + 7),
         NEW c \in Bytes, c # Serialize(f)[Len(f.data) + j + 8]
  PROVE  LET q == ParseCharInternal(Current(p), c)
         IN /\ q \in Sound /\ q.status = "DATA_ERROR"
            /\ q.header_next = 7 /\ q.data_next = Len(f.data) + j
            /\ q.ack = f.ack /\ q.index = f.index /\ q.length = Len(f.data)
            /\ q.data = f.data
<1> DEFINE n == Len(f.data)
           k == n + j + 7
           q == [p EXCEPT !.status = "DATA_ERROR"]
<1>1. n \in Nat /\ f.data \in Seq(Bytes) /\ j \in Nat
  BY PacketIs
<1>2. AfterData(p, f, n + j)
  <2>1. /\ k # 0 /\ k # n + 9 /\ k \in Nat /\ k - 7 = n + j
        /\ k \in 1 .. 7 <=> k = 7 /\ n + j = 0
    BY <1>1
  <2>2. CASE k \in 1 .. 7 /\ AfterHeader(p, f, k)
    <3>1. k = 7 /\ n + j = 0
      BY <2>1, <2>2
    <3>2. AfterHeader(p, f, 7)
      BY <2>2, <3>1
    <3> QED
      BY <3>1, <3>2, DataBegins
  <2>3. CASE AfterData(p, f, k - 7)
    BY <2>1, <2>3
  <2>4. Holds(p, f, k)
    OBVIOUS
  <2> HIDE DEF k
  <2> QED
    BY <2>1, <2>2, <2>3, <2>4 DEF Holds
<1>3. Current(p) = p /\ p.header_next = 7
  BY <1>2 DEF Current, AfterData
<1>4. /\ p.data_next = n + j /\ p.length = n /\ p.ack = f.ack /\ p.index = f.index
      /\ p.data = SubSeq(f.data, 1, IF n + j <= n THEN n + j ELSE n)
      /\ p.data_sums = Checksums(p.data)
  BY <1>2 DEF AfterData
<1>5. p.data = f.data
  <2>1. (IF n + j <= n THEN n + j ELSE n) = n
    BY <1>1
  <2>2. SubSeq(f.data, 1, Len(f.data)) = f.data
    BY <1>1, SubSeqFull
  <2> QED
    BY <1>4, <2>1, <2>2
<1>6. /\ j = 0 => c # Checksums(f.data)[1]
      /\ j = 1 => c # Checksums(f.data)[2]
  <2>1. /\ Serialize(f)[1 + Len(f.data) + 7] = Checksums(f.data)[1]
        /\ Serialize(f)[2 + Len(f.data) + 7] = Checksums(f.data)[2]
    BY SerializeIs
  <2>2. /\ j = 0 => Len(f.data) + j + 8 = 1 + Len(f.data) + 7
        /\ j = 1 => Len(f.data) + j + 8 = 2 + Len(f.data) + 7
    BY <1>1
  <2> QED
    BY <2>1, <2>2
<1>7. ParseCharInternal(p, c) = q
  <2>1. ParseCharInternal(p, c) = ParseDataChar(p, c)
    BY <1>3 DEF ParseCharInternal, NUM_HEADER_BYTES
  <2>2. ~ (p.data_next < p.length)
    BY <1>1, <1>4
  <2>5. p.data_sums = Checksums(f.data)
    BY <1>4, <1>5
  <2>6. (p.data_next = p.length => j = 0) /\ (p.data_next > p.length => j = 1)
    BY <1>1, <1>4
  <2>3. ~ (p.data_next = p.length /\ c = p.data_sums[1])
    BY <1>6, <2>5, <2>6
  <2>4. ~ (p.data_next > p.length /\ c = p.data_sums[2])
    BY <1>6, <2>5, <2>6
  <2> QED
    BY <2>1, <2>2, <2>3, <2>4, Zenon DEF ParseDataChar
<1>8. q \in Sound
  BY <1>7, CharSound
<1>9. /\ q.status = "DATA_ERROR" /\ q.header_next = p.header_next
      /\ q.data_next = p.data_next /\ q.ack = p.ack /\ q.index = p.index
      /\ q.length = p.length /\ q.data = p.data
  BY DEF Sound, Parsers
<1> HIDE DEF q
<1> QED
  BY <1>3, <1>4, <1>5, <1>7, <1>8, <1>9

(* Where the parser meets a change of the byte x of f: at a byte that it   *)
(* compares at once, and else at the first checksum of the part it is in.  *)
Seen(f, x) ==
  CASE x \in 3 .. 5 -> 6
    [] x \in 8 .. Len(f.data) + 7 -> Len(f.data) + 8
    [] OTHER -> x

(* The packet that the parser takes the bytes for, up to there.            *)
LEMMA TakenFor ==
  ASSUME NEW f \in PacketsOf, NEW x \in 1 .. Len(f.data) + 9,
         NEW b, b[x] \in Bytes, b[x] # Serialize(f)[x],
         \A i \in 1 .. Len(f.data) + 9 : i # x => b[i] = Serialize(f)[i]
  PROVE  \E g \in PacketsOf :
           /\ \A i \in 1 .. Seen(f, x) - 1 : b[i] = Serialize(g)[i]
           /\ b[Seen(f, x)] # Serialize(g)[Seen(f, x)]
           /\ x > 7 => g.index = f.index /\ Len(g.data) = Len(f.data)
<1> DEFINE n == Len(f.data)
<1>1. /\ f.ack \in Bytes /\ f.index \in Bytes /\ f.data \in Seq(Bytes)
      /\ n \in Nat /\ n \in Bytes /\ n <= 255
      /\ Fields(f) \in Seq(Bytes) /\ Len(Fields(f)) = 5
      /\ x \in Nat /\ x >= 1 /\ x <= n + 9
  BY PacketIs
<1>2. \A i \in 1 .. n + 9 : Serialize(f)[i] \in Bytes /\ b[i] \in Bytes
  <2>1. Serialize(f) \in Seq(Bytes) /\ Len(Serialize(f)) = n + 9
    BY SerializeIs
  <2>2. \A i \in 1 .. n + 9 : Serialize(f)[i] \in Bytes
    BY <2>1, ElementOfSeq
  <2> QED
    BY <2>2
<1>3. CASE x \notin 3 .. 5 /\ x \notin 8 .. n + 7
  <2>1. Seen(f, x) = x
    BY <1>3 DEF Seen
  <2>2. \A i \in 1 .. x - 1 : b[i] = Serialize(f)[i]
    BY <1>1
  <2> QED
    BY <2>1, <2>2
<1>4. CASE x \in 3 .. 5
  <2> DEFINE d == [i \in 1 .. b[5] |-> 0]
             g == [ack |-> b[3], index |-> b[4], data |-> d]
  <2>1. b[3] \in Bytes /\ b[4] \in Bytes /\ b[5] \in Bytes /\ b[5] \in Nat
    <3>1. 3 \in 1 .. n + 9 /\ 4 \in 1 .. n + 9 /\ 5 \in 1 .. n + 9
      BY <1>1
    <3> QED
      BY <1>2, <3>1, Numbers
  <2>2. d \in Seq(Bytes) /\ Len(d) = b[5]
    <3>1. 0 \in Bytes
      BY DEF Bytes
    <3> QED
      BY <2>1, <3>1
  <2> HIDE DEF d
  <2>3. g \in PacketsOf /\ g.ack = b[3] /\ g.index = b[4] /\ g.data = d
    BY <2>1, <2>2 DEF PacketsOf
  <2> HIDE DEF g
  <2>4. Fields(g) = <<10, 60, b[3], b[4], b[5]>>
    BY <2>2, <2>3 DEF Fields
  <2>5. /\ Serialize(f)[1] = 10 /\ Serialize(f)[2] = 60
        /\ Serialize(f)[3] = Fields(f)[3] /\ Serialize(f)[4] = Fields(f)[4]
        /\ Serialize(f)[5] = Fields(f)[5] /\ Serialize(f)[6] = Checksums(Fields(f))[1]
        /\ Fields(f)[1] = 10 /\ Fields(f)[2] = 60
    <3>1. \A k \in 0 .. 4 : Serialize(f)[k + 1] = Fields(f)[k + 1]
      BY SerializeIs
    <3>2. \A i \in 1 .. 2 : Serialize(f)[i + 5] = Checksums(Fields(f))[i]
      BY SerializeIs
    <3>3. Fields(f)[1] = 10 /\ Fields(f)[2] = 60
      BY DEF Fields
    <3>4. /\ 0 \in 0 .. 4 /\ 1 \in 0 .. 4 /\ 2 \in 0 .. 4 /\ 3 \in 0 .. 4 /\ 4 \in 0 .. 4
          /\ 0 + 1 = 1 /\ 1 + 1 = 2 /\ 2 + 1 = 3 /\ 3 + 1 = 4 /\ 4 + 1 = 5
          /\ 1 \in 1 .. 2 /\ 1 + 5 = 6
      OBVIOUS
    <3> QED
      BY <3>1, <3>2, <3>3, <3>4
  <2>6. /\ Serialize(g)[6] = Checksums(Fields(g))[1]
        /\ \A i \in 1 .. 5 : Serialize(g)[i] = Fields(g)[i]
    <3>1. \A k \in 0 .. 4 : Serialize(g)[k + 1] = Fields(g)[k + 1]
      BY <2>3, SerializeIs
    <3>2. \A i \in 1 .. 2 : Serialize(g)[i + 5] = Checksums(Fields(g))[i]
      BY <2>3, SerializeIs
    <3>3. \A i \in 1 .. 5 : i - 1 \in 0 .. 4 /\ (i - 1) + 1 = i
      OBVIOUS
    <3> QED
      BY <3>1, <3>2, <3>3
  <2>7. /\ b[1] = 10 /\ b[2] = 60 /\ b[6] = Checksums(Fields(f))[1]
        /\ 3 # x => b[3] = Fields(f)[3]
        /\ 4 # x => b[4] = Fields(f)[4]
        /\ 5 # x => b[5] = Fields(f)[5]
        /\ b[x] # Fields(f)[x]
    <3>1. /\ 1 \in 1 .. n + 9 /\ 2 \in 1 .. n + 9 /\ 3 \in 1 .. n + 9 /\ 4 \in 1 .. n + 9
          /\ 5 \in 1 .. n + 9 /\ 6 \in 1 .. n + 9
          /\ 1 # x /\ 2 # x /\ 6 # x /\ (x = 3 \/ x = 4 \/ x = 5)
      BY <1>1, <1>4
    <3> QED
      BY <2>5, <3>1
  <2>8. \A i \in 1 .. 5 : b[i] = Fields(g)[i]
    BY <2>4, <2>7
  <2>9. Fields(g) \in Seq(Bytes) /\ Len(Fields(g)) = 5
    BY <2>3, PacketIs
  <2>10. Checksums(Fields(g))[1] # Checksums(Fields(f))[1]
    <3> DEFINE s == Fields(g)
               t == Fields(f)
    <3>1. /\ x \in 1 .. 5 /\ s[x] # t[x]
          /\ \A i \in 1 .. 5 : i # x => s[i] = t[i]
      BY <1>4, <2>5, <2>7, <2>8
    <3>2. s \in Seq(Bytes) /\ t \in Seq(Bytes) /\ Len(s) = 5 /\ Len(t) = 5
      BY <1>1, <2>9
    <3> HIDE DEF s, t
    <3>4. /\ Len(s) = Len(t) /\ x \in 1 .. Len(s)
          /\ \A i \in 1 .. Len(s) : i # x => s[i] = t[i]
      BY <3>1, <3>2
    <3>3. Checksums(s)[1] # Checksums(t)[1]
      BY <3>1, <3>2, <3>4, SumsDiffer
    <3> QED
      BY <3>3 DEF s, t
  <2>11. Seen(f, x) = 6 /\ ~ (x > 7)
    BY <1>4 DEF Seen
  <2>12. \A i \in 1 .. 6 - 1 : b[i] = Serialize(g)[i]
    BY <2>6, <2>8
  <2> QED
    BY <2>3, <2>6, <2>7, <2>10, <2>11, <2>12
<1>5. CASE x \in 8 .. n + 7
  <2> DEFINE d == [i \in 1 .. n |-> b[i + 7]]
             g == [ack |-> f.ack, index |-> f.index, data |-> d]
  <2>1. d \in Seq(Bytes) /\ Len(d) = n /\ \A i \in 1 .. n : d[i] = b[i + 7]
    <3>1. \A i \in 1 .. n : b[i + 7] \in Bytes
      BY <1>1, <1>2
    <3>2. d \in Seq(Bytes)
      BY <1>1, <3>1, IsASeq
    <3> QED
      BY <1>1, <3>1, <3>2, LenProperties
  <2> HIDE DEF d
  <2>2. g \in PacketsOf /\ g.ack = f.ack /\ g.index = f.index /\ g.data = d
    BY <1>1, <2>1 DEF PacketsOf
  <2> HIDE DEF g
  <2>3. Fields(g) = Fields(f)
    BY <2>1, <2>2 DEF Fields
  <2>4. /\ \A k \in 0 .. 4 : Serialize(g)[k + 1] = Serialize(f)[k + 1]
        /\ \A i \in 1 .. 2 : Serialize(g)[i + 5] = Serialize(f)[i + 5]
        /\ \A j \in Nat : j < n => Serialize(g)[j + 8] = d[j + 1]
        /\ Serialize(g)[1 + n + 7] = Checksums(d)[1]
        /\ Serialize(f)[1 + n + 7] = Checksums(f.data)[1]
        /\ \A j \in Nat : j < n => Serialize(f)[j + 8] = f.data[j + 1]
    <3>1. /\ \A k \in 0 .. 4 : Serialize(g)[k + 1] = Fields(g)[k + 1]
          /\ \A i \in 1 .. 2 : Serialize(g)[i + 5] = Checksums(Fields(g))[i]
          /\ \A j \in Nat : j < Len(g.data) => Serialize(g)[j + 8] = g.data[j + 1]
          /\ \A i \in 1 .. 2 : Serialize(g)[i + Len(g.data) + 7] = Checksums(g.data)[i]
      BY <2>2, SerializeIs
    <3>2. /\ \A k \in 0 .. 4 : Serialize(f)[k + 1] = Fields(f)[k + 1]
          /\ \A i \in 1 .. 2 : Serialize(f)[i + 5] = Checksums(Fields(f))[i]
          /\ \A j \in Nat : j < Len(f.data) => Serialize(f)[j + 8] = f.data[j + 1]
          /\ \A i \in 1 .. 2 : Serialize(f)[i + Len(f.data) + 7] = Checksums(f.data)[i]
      BY SerializeIs
    <3>3. Len(f.data) = n /\ Len(g.data) = n /\ g.data = d
      BY <2>1, <2>2
    <3>4. /\ Serialize(g)[1 + n + 7] = Checksums(d)[1]
          /\ Serialize(f)[1 + n + 7] = Checksums(f.data)[1]
      <4>1. 1 \in 1 .. 2
        OBVIOUS
      <4> HIDE DEF n
      <4> QED
        BY <3>1, <3>2, <3>3, <4>1
    <3> HIDE DEF n
    <3> QED
      BY <2>3, <3>1, <3>2, <3>3, <3>4
  <2>5. ASSUME NEW i \in 1 .. n + 7
        PROVE  b[i] = Serialize(g)[i]
    <3>1. CASE i <= 5
      <4>1. i - 1 \in 0 .. 4 /\ (i - 1) + 1 = i /\ i \in 1 .. n + 9 /\ i # x
        BY <1>1, <1>5, <3>1
      <4> QED
        BY <2>4, <4>1
    <3>2. CASE i \in 6 .. 7
      <4>1. i - 5 \in 1 .. 2 /\ (i - 5) + 5 = i /\ i \in 1 .. n + 9 /\ i # x
        BY <1>1, <1>5, <3>2
      <4> QED
        BY <2>4, <4>1
    <3>3. CASE i >= 8
      <4>1. /\ i - 8 \in Nat /\ i - 8 < n /\ (i - 8) + 8 = i
            /\ (i - 8) + 1 = i - 7 /\ i - 7 \in 1 .. n /\ (i - 7) + 7 = i
        BY <1>1, <3>3
      <4>2. Serialize(g)[(i - 8) + 8] = d[(i - 8) + 1]
        BY <2>4, <4>1
      <4>3. d[i - 7] = b[(i - 7) + 7]
        BY <2>1, <4>1
      <4> QED
        BY <4>1, <4>2, <4>3
    <3> QED
      BY <1>1, <3>1, <3>2, <3>3
  <2>6. Checksums(d)[1] # Checksums(f.data)[1]
    <3>1. ASSUME NEW i \in 1 .. n
          PROVE  d[i] = b[i + 7] /\ f.data[i] = Serialize(f)[i + 7]
      <4>1. i - 1 \in Nat /\ i - 1 < n /\ (i - 1) + 8 = i + 7 /\ (i - 1) + 1 = i
        BY <1>1
      <4>2. Serialize(f)[(i - 1) + 8] = f.data[(i - 1) + 1]
        BY <2>4, <4>1
      <4> QED
        BY <2>1, <4>1, <4>2
    <3>2. x - 7 \in 1 .. n /\ (x - 7) + 7 = x
      BY <1>1, <1>5
    <3>3. d[x - 7] # f.data[x - 7]
      BY <3>1, <3>2
    <3>4. \A i \in 1 .. n : i # x - 7 => d[i] = f.data[i]
      <4> TAKE i \in 1 .. n
      <4> HAVE i # x - 7
      <4>1. i + 7 \in 1 .. n + 9 /\ i + 7 # x
        BY <1>1
      <4> QED
        BY <3>1, <4>1
    <3> QED
      BY <1>1, <2>1, <3>2, <3>3, <3>4, SumsDiffer
  <2>7. Seen(f, x) = n + 8 /\ (n + 8) - 1 = n + 7 /\ n + 8 = 1 + n + 7
    <3>1. ~ (x \in 3 .. 5)
      BY <1>5
    <3> QED
      BY <1>1, <1>5, <3>1 DEF Seen
  <2>8. b[n + 8] = Serialize(f)[n + 8]
    <3>1. n + 8 \in 1 .. n + 9 /\ n + 8 # x
      BY <1>1, <1>5
    <3> QED
      BY <3>1
  <2>9. b[n + 8] # Serialize(g)[n + 8]
    BY <2>4, <2>6, <2>7, <2>8
  <2>10. \A i \in 1 .. Seen(f, x) - 1 : b[i] = Serialize(g)[i]
    BY <2>5, <2>7
  <2> HIDE DEF n
  <2> QED
    BY <2>1, <2>2, <2>7, <2>9, <2>10 DEF n
<1> QED
  BY <1>3, <1>4, <1>5

LEMMA WholePrefix ==
  ASSUME NEW g \in PacketsOf, NEW q \in Parsers, q.ack = g.ack, q.index = g.index,
         q.length = Len(g.data), q.data = g.data
  PROVE  \A i \in 1 .. Len(g.data) + 7 : Whole(q)[i] = Serialize(g)[i]
<1> DEFINE n == Len(g.data)
           fields == Fields(g)
<1>1. n \in Nat
  BY PacketIs
<1>2. fields = <<10, 60, q.ack, q.index, q.length>> /\ q.data = g.data
  BY DEF Fields
<1>3. /\ \A i \in 1 .. 5 : Whole(q)[i] = fields[i]
      /\ \A i \in 1 .. 2 : Whole(q)[i + 5] = Checksums(fields)[i]
      /\ \A j \in 1 .. n : Whole(q)[j + 7] = g.data[j]
  <2> DEFINE own == <<10, 60, q.ack, q.index, q.length>>
             d == q.data
  <2>1. /\ \A i \in 1 .. 5 : Whole(q)[i] = own[i]
        /\ \A i \in 1 .. 2 : Whole(q)[i + 5] = Checksums(own)[i]
        /\ \A j \in 1 .. Len(d) : Whole(q)[j + 7] = d[j]
    BY WholeIs
  <2>2. own = fields /\ d = g.data
    BY <1>2
  <2> HIDE DEF own, d, fields
  <2> QED
    BY <2>1, <2>2
<1>4. /\ \A k \in 0 .. 4 : Serialize(g)[k + 1] = fields[k + 1]
      /\ \A i \in 1 .. 2 : Serialize(g)[i + 5] = Checksums(fields)[i]
      /\ \A j \in Nat : j < n => Serialize(g)[j + 8] = g.data[j + 1]
  BY SerializeIs
<1> HIDE DEF fields, n
<1>5. ASSUME NEW i \in 1 .. n + 7
      PROVE  Whole(q)[i] = Serialize(g)[i]
  <2>1. CASE i <= 5
    <3>1. i - 1 \in 0 .. 4 /\ (i - 1) + 1 = i /\ i \in 1 .. 5
      BY <1>1, <2>1
    <3> QED
      BY <1>3, <1>4, <3>1
  <2>2. CASE i \in 6 .. 7
    <3>1. i - 5 \in 1 .. 2 /\ (i - 5) + 5 = i
      BY <2>2
    <3> QED
      BY <1>3, <1>4, <3>1
  <2>3. CASE i >= 8
    <3>1. /\ i - 8 \in Nat /\ i - 8 < n /\ (i - 8) + 8 = i /\ (i - 8) + 1 = i - 7
          /\ i - 7 \in 1 .. n /\ (i - 7) + 7 = i
      BY <1>1, <2>3
    <3>2. Serialize(g)[(i - 8) + 8] = g.data[(i - 8) + 1]
      BY <1>4, <3>1
    <3>3. Whole(q)[(i - 7) + 7] = g.data[i - 7]
      BY <1>3, <3>1
    <3> QED
      BY <3>1, <3>2, <3>3
  <2> QED
    BY <1>1, <2>1, <2>2, <2>3
<1> QED
  BY <1>5 DEF n

(* The bytes b are those of f but for the x-th. *)
OneChange(b, f, x) ==
  /\ x \in 1 .. Len(f.data) + 9
  /\ b[x] \in Bytes /\ b[x] # Serialize(f)[x]
  /\ \A i \in 1 .. Len(f.data) + 9 : i # x => b[i] = Serialize(f)[i]

LEMMA ChangeMet ==
  ASSUME NEW f \in PacketsOf, NEW x, NEW b, OneChange(b, f, x),
         NEW fed, fed[0] \in Sound, Waits(fed[0]), Reads(fed, b, 0, Len(f.data) + 9),
         NEW n, n = Seen(f, x), NEW q, q = ParseCharInternal(Current(fed[n - 1]), b[n])
  PROVE  /\ n \in 1 .. Len(f.data) + 9 /\ b[n] \in Bytes
         /\ \A k \in 0 .. n - 1 : fed[k] \in Sound
         /\ \A k \in 1 .. n - 1 : fed[k].status = "INCOMPLETE"
         /\ q \in Sound
         /\ x <= 7 => q.status = "HEADER_ERROR"
         /\ x > 7 => /\ q.status = "DATA_ERROR" /\ q.index = f.index
                     /\ Len(Received(q)) = n - 8
                     /\ \A i \in 1 .. n - 8 : Received(q)[i] = b[i]
<1> DEFINE length == Len(f.data)
<1>1. length \in Nat /\ x \in 1 .. length + 9 /\ x \in Nat
  BY PacketIs DEF OneChange
<1>2. PICK g \in PacketsOf :
             /\ \A i \in 1 .. n - 1 : b[i] = Serialize(g)[i]
             /\ b[n] # Serialize(g)[n]
             /\ x > 7 => g.index = f.index /\ Len(g.data) = length
  BY TakenFor DEF OneChange
<1>3. \A i \in 1 .. length + 9 : b[i] \in Bytes
  <2>1. Serialize(f) \in Seq(Bytes) /\ Len(Serialize(f)) = length + 9
    BY SerializeIs
  <2>2. \A i \in 1 .. length + 9 : Serialize(f)[i] \in Bytes
    BY <2>1, ElementOfSeq
  <2> QED
    BY <2>2 DEF OneChange
<1>4. /\ x <= 7 => n \in {1, 2, 6, 7}
      /\ x > 7 => n \in {length + 8, length + 9}
  <2>1. CASE x \in 3 .. 5
    <3>1. n = 6 /\ x <= 7 /\ ~ (x > 7)
      BY <2>1 DEF Seen
    <3> QED
      BY <3>1
  <2>2. CASE x \in 8 .. length + 7
    <3>1. ~ (x \in 3 .. 5) /\ x > 7 /\ ~ (x <= 7)
      BY <1>1, <2>2
    <3>2. n = length + 8
      BY <2>2, <3>1 DEF Seen
    <3> QED
      BY <1>1, <3>1, <3>2
  <2>3. CASE x \notin 3 .. 5 /\ x \notin 8 .. length + 7
    <3>1. n = x
      BY <2>3 DEF Seen
    <3>2. x <= 7 => x \in {1, 2, 6, 7}
      BY <1>1, <2>3
    <3>3. x > 7 => x \in {length + 8, length + 9}
      BY <1>1, <2>3
    <3> QED
      BY <3>1, <3>2, <3>3
  <2> QED
    BY <2>1, <2>2, <2>3
<1>5. n \in 1 .. length + 9 /\ n \in Nat /\ n - 1 \in Nat /\ (n - 1) + 1 = n
  <2>1. n \in {1, 2, 6, 7} \/ n = length + 8 \/ n = length + 9
    BY <1>1, <1>4
  <2>2. length \in Nat
    BY <1>1
  <2> HIDE DEF length
  <2> QED
    BY <2>1, <2>2
<1>6. n - 1 <= Len(g.data) + 9
  <2>1. Len(g.data) \in Nat
    BY PacketIs
  <2> QED
    BY <1>1, <1>2, <1>4, <2>1
<1>7. Reads(fed, b, 0, n - 1)
  <2>1. \A k \in 0 .. (n - 1) - 1 : k \in 0 .. (length + 9) - 1
    BY <1>1, <1>5
  <2> QED
    BY <2>1 DEF Reads
<1> DEFINE m == n - 1
           p == fed[m]
<1>8. \A k \in 0 .. m : fed[k] \in Sound /\ Holds(fed[k], g, k)
  <2>1. m \in Nat /\ m <= Len(g.data) + 9 /\ Reads(fed, b, 0, m)
    BY <1>5, <1>6, <1>7
  <2>2. \A i \in 1 .. m : b[i] = Serialize(g)[i]
    BY <1>2
  <2> HIDE DEF m
  <2> QED
    BY <2>1, <2>2, TraceHolds
<1>9. \A k \in 1 .. n - 1 : fed[k].status = "INCOMPLETE"
  <2> TAKE k \in 1 .. n - 1
  <2>1. Holds(fed[k], g, k)
    BY <1>5, <1>8
  <2>2. k # 0 /\ k # Len(g.data) + 9
    <3>1. Len(g.data) \in Nat
      BY PacketIs
    <3> QED
      BY <1>1, <1>2, <1>4, <3>1
  <2> QED
    BY <2>1, <2>2 DEF Holds, AfterHeader, AfterData
<1>10. p \in Sound /\ Holds(p, g, m) /\ b[n] \in Bytes
  <2>1. m \in 0 .. m
    BY <1>5
  <2> QED
    BY <1>3, <1>5, <1>8, <2>1
<1>11. CASE x <= 7
  <2>1. m \in {0, 1, 5, 6} /\ m + 1 = n /\ ~ (x > 7)
    BY <1>1, <1>4, <1>11
  <2>2. b[n] # Serialize(g)[m + 1]
    BY <1>2, <2>1
  <2> HIDE DEF m, p
  <2>3. q \in Sound /\ q.status = "HEADER_ERROR"
    <3>1. LET r == ParseCharInternal(Current(p), b[n])
          IN r \in Sound /\ r.status = "HEADER_ERROR"
      BY <1>10, <2>1, <2>2, WrongHeaderByte
    <3> QED
      BY <3>1 DEF p, m
  <2> QED
    BY <1>5, <1>8, <1>9, <1>10, <2>1, <2>3 DEF m
<1>12. CASE x > 7
  <2> DEFINE j == m - length - 7
  <2>1. g.index = f.index /\ Len(g.data) = length /\ ~ (x <= 7)
    BY <1>1, <1>2, <1>12
  <2>2. /\ j \in {0, 1} /\ m = Len(g.data) + j + 7 /\ n = Len(g.data) + j + 8
        /\ length + j = n - 8
    <3>1. n = length + 8 \/ n = length + 9
      BY <1>4, <1>12
    <3>2. n \in Nat
      BY <1>5
    <3>3. length \in Nat /\ Len(g.data) = length
      BY <1>1, <2>1
    <3>4. CASE n = length + 8
      <4>1. m = length + 7 /\ j = 0
        BY <3>3, <3>4
      <4> HIDE DEF length, m, j, p
      <4> QED
        BY <3>3, <3>4, <4>1
    <3>5. CASE n = length + 9
      <4>1. m = length + 8 /\ j = 1
        BY <3>3, <3>5
      <4> HIDE DEF length, m, j, p
      <4> QED
        BY <3>3, <3>5, <4>1
    <3> QED
      BY <3>1, <3>4, <3>5
  <2>3. b[n] # Serialize(g)[Len(g.data) + j + 8] /\ Holds(p, g, Len(g.data) + j + 7)
    BY <1>2, <1>10, <2>2
  <2> HIDE DEF j, p, m
  <2>4. LET r == ParseCharInternal(Current(p), b[n])
        IN /\ r \in Sound /\ r.status = "DATA_ERROR"
           /\ r.header_next = 7 /\ r.data_next = Len(g.data) + j
           /\ r.ack = g.ack /\ r.index = g.index /\ r.length = Len(g.data)
           /\ r.data = g.data
    BY <1>10, <2>2, <2>3, WrongDataByte
  <2>5. /\ q \in Sound /\ q.status = "DATA_ERROR"
        /\ q.header_next = 7 /\ q.data_next = Len(g.data) + j
        /\ q.ack = g.ack /\ q.index = g.index /\ q.length = Len(g.data)
        /\ q.data = g.data
    BY <2>4 DEF p, m
  <2>6. /\ Len(Received(q)) = n - 8
        /\ \A i \in 1 .. Len(Received(q)) : Received(q)[i] = Whole(q)[i]
    <3>1. /\ Len(Received(q)) = IF q.header_next < 7 THEN q.header_next ELSE q.data_next
          /\ \A i \in 1 .. Len(Received(q)) : Received(q)[i] = Whole(q)[i]
      BY <2>5, ReceivedIs
    <3>2. q.data_next = n - 8 /\ ~ (q.header_next < 7)
      BY <2>1, <2>2, <2>5
    <3> QED
      BY <3>1, <3>2
  <2>7. \A i \in 1 .. Len(g.data) + 7 : Whole(q)[i] = Serialize(g)[i]
    BY <2>5, WholePrefix DEF Sound
  <2>8. ASSUME NEW i \in 1 .. n - 8
        PROVE  Received(q)[i] = b[i]
    <3>1. i \in 1 .. Len(g.data) + 7 /\ i \in 1 .. n - 1
      <4>1. n - 8 <= Len(g.data) + 1 /\ n \in Nat /\ Len(g.data) \in Nat
        BY <1>1, <1>5, <2>1, <2>2
      <4> QED
        BY <4>1
    <3>2. i \in 1 .. Len(Received(q))
      BY <2>6
    <3> QED
      BY <1>2, <2>6, <2>7, <3>1, <3>2
  <2> QED
    BY <1>5, <1>8, <1>9, <1>10, <2>1, <2>5, <2>6, <2>8 DEF m
<1> QED
  BY <1>1, <1>11, <1>12

(* A packet with one byte changed is never taken for a packet: the parser  *)
(* goes on to the byte where it meets the change and no further, and what  *)
(* it then makes of the bytes it has is the re-parse's.  If no packet can  *)
(* begin in them, the error is reported (Packet::ParseChar, packet.cc).    *)
THEOREM OneChangeIsSeen ==
  ASSUME NEW f \in PacketsOf, NEW x, NEW b, OneChange(b, f, x),
         NEW fed, fed[0] \in Sound, Waits(fed[0]), Reads(fed, b, 0, Len(f.data) + 9)
  PROVE  LET n == Seen(f, x)
             q == ParseCharInternal(Current(fed[n - 1]), b[n])
         IN /\ \A k \in 1 .. n - 1 : fed[k].status = "INCOMPLETE"
            /\ q.status = IF x <= 7 THEN "HEADER_ERROR" ELSE "DATA_ERROR"
            /\ Startless(Received(q), 2, Len(Received(q))) => fed[n].status = q.status
<1> DEFINE n == Seen(f, x)
           h == Current(fed[n - 1])
           q == ParseCharInternal(h, b[n])
<1>1. /\ n \in 1 .. Len(f.data) + 9 /\ b[n] \in Bytes
      /\ \A k \in 0 .. n - 1 : fed[k] \in Sound
      /\ \A k \in 1 .. n - 1 : fed[k].status = "INCOMPLETE"
      /\ q \in Sound
      /\ x <= 7 => q.status = "HEADER_ERROR"
      /\ x > 7 => q.status = "DATA_ERROR"
  BY ChangeMet
<1>2. x \in Nat /\ Len(f.data) \in Nat
  BY PacketIs DEF OneChange
<1>3. q.status = IF x <= 7 THEN "HEADER_ERROR" ELSE "DATA_ERROR"
  BY <1>1, <1>2
<1>4. ASSUME Startless(Received(q), 2, Len(Received(q)))
      PROVE  fed[n].status = q.status
  <2>1. n - 1 \in 0 .. n - 1 /\ n - 1 \in 0 .. Len(f.data) + 9 - 1 /\ (n - 1) + 1 = n
    BY <1>1, <1>2
  <2>2. fed[n] = ParseChar(h, b[n])
    BY <2>1 DEF Reads
  <2>3. h \in Sound
    BY <1>1, <2>1, CurrentSound
  <2>4. Failed(q)
    BY <1>3 DEF Failed
  <2> HIDE DEF h
  <2>5. ParseChar(h, b[n]).status = q.status
    BY <1>1, <1>4, <2>3, <2>4, ParseCharFails
  <2> QED
    BY <2>2, <2>5
<1> HIDE DEF q, h
<1> QED
  BY <1>1, <1>3, <1>4 DEF q, h

(* One byte changed in the data or in its checksums: if no packet can begin*)
(* in the bytes that are parsed again, what is reported is a data error    *)
(* with the packet's own index, for which Reader sends an error ack        *)
(* (commlink.cc:124).                                                      *)
THEOREM DamagedDataIsNamed ==
  ASSUME NEW f \in PacketsOf, NEW x, NEW b, OneChange(b, f, x), x > 7,
         NEW fed, fed[0] \in Sound, Waits(fed[0]), Reads(fed, b, 0, Len(f.data) + 9),
         Startless(b, 2, Seen(f, x) - 8)
  PROVE  LET n == Seen(f, x)
         IN fed[n].status = "DATA_ERROR" /\ fed[n].index = f.index
<1> DEFINE n == Seen(f, x)
           h == Current(fed[n - 1])
           q == ParseCharInternal(h, b[n])
<1>1. /\ n \in 1 .. Len(f.data) + 9 /\ b[n] \in Bytes
      /\ \A k \in 0 .. n - 1 : fed[k] \in Sound
      /\ q \in Sound /\ q.status = "DATA_ERROR" /\ q.index = f.index
      /\ Len(Received(q)) = n - 8
      /\ \A i \in 1 .. n - 8 : Received(q)[i] = b[i]
  BY ChangeMet
<1>2. Len(f.data) \in Nat
  BY PacketIs
<1>3. n - 1 \in 0 .. n - 1 /\ n - 1 \in 0 .. Len(f.data) + 9 - 1 /\ (n - 1) + 1 = n
  BY <1>1, <1>2
<1>4. fed[n] = ParseChar(h, b[n])
  BY <1>3 DEF Reads
<1>5. h \in Sound
  BY <1>1, <1>3, CurrentSound
<1> HIDE DEF h
<1>6. Startless(Received(q), 2, Len(Received(q)))
  <2> DEFINE m == n - 8
             r == Received(q)
  <2>1. \A i \in 2 .. m : i \in 1 .. m /\ (i < m => i + 1 \in 1 .. m)
    BY <1>1, <1>2
  <2>2. Startless(b, 2, m) /\ Len(r) = m /\ \A i \in 1 .. m : r[i] = b[i]
    BY <1>1
  <2> HIDE DEF m, r
  <2>3. Startless(r, 2, Len(r))
    BY <2>1, <2>2 DEF Startless
  <2> QED
    BY <2>3 DEF r
<1>7. Failed(q)
  BY <1>1 DEF Failed
<1>8. ParseChar(h, b[n]).status = q.status /\ ParseChar(h, b[n]).index = q.index
  BY <1>1, <1>5, <1>6, <1>7, ParseCharFails
<1> QED
  BY <1>1, <1>4, <1>8

(* A byte changed costs the packet it is in and no other, if no packet can *)
(* begin in what is parsed again nor in what is left of the packet: nothing*)
(* is parsed of it, and the parser waits at its end, so that the packet    *)
(* that follows is read.  That is what a retransmission needs (README:36). *)
THEOREM OneChangeCostsOnePacket ==
  ASSUME NEW f \in PacketsOf, NEW x, NEW b, OneChange(b, f, x),
         NEW fed, fed[0] \in Sound, Waits(fed[0]), Reads(fed, b, 0, Len(f.data) + 9),
         LET n == Seen(f, x)
             bytes == Received(ParseCharInternal(Current(fed[n - 1]), b[n]))
         IN Startless(bytes, 2, Len(bytes)) /\ Startless(b, n + 1, Len(f.data) + 9)
  PROVE  /\ fed[Len(f.data) + 9] \in Sound /\ Waits(fed[Len(f.data) + 9])
         /\ \A k \in 1 .. Len(f.data) + 9 : fed[k].status # "PARSED"
<1> DEFINE n == Seen(f, x)
           last == Len(f.data) + 9
           h == Current(fed[n - 1])
           q == ParseCharInternal(h, b[n])
<1>1. /\ n \in 1 .. last /\ b[n] \in Bytes
      /\ \A k \in 0 .. n - 1 : fed[k] \in Sound
      /\ \A k \in 1 .. n - 1 : fed[k].status = "INCOMPLETE"
  BY ChangeMet
<1>2. fed[n].status = IF x <= 7 THEN "HEADER_ERROR" ELSE "DATA_ERROR"
  BY OneChangeIsSeen
<1>3. Len(f.data) \in Nat /\ last \in Nat /\ n \in Nat /\ n <= last
  BY <1>1, PacketIs
<1>4. n - 1 \in 0 .. n - 1 /\ n - 1 \in 0 .. last - 1 /\ (n - 1) + 1 = n
  BY <1>1, <1>3
<1>5. fed[n] = ParseChar(h, b[n])
  BY <1>4 DEF Reads
<1>6. fed[n] \in Sound
  BY <1>1, <1>4, <1>5, CurrentSound, ParseCharSound
<1>7. Waits(fed[n])
  BY <1>2 DEF Waits
<1>8. Reads(fed, b, n, last)
  <2>1. \A k \in n .. last - 1 : k \in 0 .. last - 1
    BY <1>3
  <2> QED
    BY <2>1 DEF Reads
<1>9. \A i \in n + 1 .. last : b[i] \in Bytes
  <2>1. Serialize(f) \in Seq(Bytes) /\ Len(Serialize(f)) = last
    BY SerializeIs
  <2>2. \A i \in 1 .. last : Serialize(f)[i] \in Bytes
    BY <2>1, ElementOfSeq
  <2>3. \A i \in n + 1 .. last : i \in 1 .. last
    BY <1>3
  <2> QED
    BY <2>2, <2>3 DEF OneChange
<1>10. Startless(b, n + 1, last)
  OBVIOUS
<1> HIDE DEF n, last
<1>11. /\ fed[last] \in Sound /\ Waits(fed[last])
       /\ \A k \in n + 1 .. last : fed[k].status # "PARSED"
  BY <1>3, <1>6, <1>7, <1>8, <1>9, <1>10, NoiseIsSkipped
<1>12. \A k \in 1 .. last : fed[k].status # "PARSED"
  <2> TAKE k \in 1 .. last
  <2>1. k \in 1 .. n - 1 \/ k = n \/ k \in n + 1 .. last
    BY <1>3
  <2> QED
    BY <1>1, <1>2, <1>11, <2>1
<1> QED
  BY <1>11, <1>12 DEF last

(* So a packet sent after a damaged one is read, the same one again for    *)
(* instance.                                                               *)
THEOREM RetransmissionIsRead ==
  ASSUME NEW f \in PacketsOf, NEW x, NEW b, OneChange(b, f, x),
         NEW fed, fed[0] \in Sound, Waits(fed[0]), Reads(fed, b, 0, Len(f.data) + 9),
         LET n == Seen(f, x)
             bytes == Received(ParseCharInternal(Current(fed[n - 1]), b[n]))
         IN Startless(bytes, 2, Len(bytes)) /\ Startless(b, n + 1, Len(f.data) + 9),
         NEW g \in PacketsOf, NEW next, next[0] = fed[Len(f.data) + 9],
         Reads(next, Serialize(g), 0, Len(Serialize(g)))
  PROVE  Complete(next[Len(Serialize(g))], g)
<1>1. next[0] \in Sound /\ Waits(next[0])
  BY OneChangeCostsOnePacket
<1>2. \A k \in 0 .. Len(Serialize(g)) - 1 :
        next[k + 1] = ParseChar(Current(next[k]), Serialize(g)[k + 1])
  BY DEF Reads
<1> QED
  BY <1>1, <1>2, PacketIsRead

-----------------------------------------------------------------------------
(* The stream *)

(* Where the parser is in the packet sent last, if it was waiting for it. *)
UpTo(k) ==
  LET f == Last(sent)
  IN /\ line = SubSeq(Serialize(f), k + 1, Len(Serialize(f)))
     /\ Holds(packet, f, k)

StreamInv ==
  /\ packet \in Sound
  /\ line \in Seq(Bytes)
  /\ sent \in Seq(Packets) /\ Len(sent) <= 2
  /\ whole \in 0 .. Lag
  /\ heard \in BOOLEAN
  /\ faults \in 0 .. MaxFaults
  /\ heard => sent # <<>> /\ \E k \in 0 .. Len(Serialize(Last(sent))) : UpTo(k)
  /\ faults = 0 =>
       /\ ~Failed(packet)
       /\ IF sent = <<>> THEN line = <<>> /\ packet = NewParser ELSE heard

LEMMA AssumedPackets ==
  Packets \subseteq PacketsOf /\ Noise \subseteq Bytes /\ MaxFaults \in Nat /\ Lag \in Nat \ {0}
BY StreamAssumption DEF PacketsOf

LEMMA LastOf ==
  ASSUME NEW S, NEW s \in Seq(S), s # <<>>
  PROVE  Last(s) \in S
<1>1. Len(s) \in Nat \ {0}
  BY EmptySeq
<1> QED
  BY <1>1, ElementOfSeq DEF Last

LEMMA StreamInvInit == Init => StreamInv
<1> SUFFICES ASSUME Init PROVE StreamInv
  OBVIOUS
<1>1. packet = NewParser /\ line = <<>> /\ sent = <<>> /\ whole = 0 /\ faults = 0 /\ ~heard
      /\ heard \in BOOLEAN
  BY DEF Init
<1>2. <<>> \in Seq(Bytes) /\ <<>> \in Seq(Packets) /\ Len(<<>>) = 0
  OBVIOUS
<1>3. 0 \in 0 .. Lag /\ 0 \in 0 .. MaxFaults
  BY AssumedPackets
<1> QED
  BY <1>1, <1>2, <1>3, NewParserSound DEF StreamInv, NewParser, Failed

LEMMA LenOfSuffix ==
  ASSUME NEW S, NEW s \in Seq(S), NEW k \in 0 .. Len(s)
  PROVE  Len(SubSeq(s, k + 1, Len(s))) = Len(s) - k
<1>1. Len(s) \in Nat /\ \A i \in 1 .. Len(s) : s[i] \in S
  BY ElementOfSeq, LenProperties
<1> DEFINE m == k + 1
           n == Len(s)
<1>2. m \in Int /\ n \in Int /\ m \in 1 .. n + 1
  BY <1>1
<1>3. \A i \in m .. n : s[i] \in S
  BY <1>1
<1> HIDE DEF m, n
<1>4. Len(SubSeq(s, m, n)) = IF m <= n THEN n - m + 1 ELSE 0
  BY <1>2, <1>3, SubSeqProperties
<1> QED
  BY <1>1, <1>4 DEF m, n

(* When all of a packet has left the line, it is complete. *)
LEMMA LineIsOver ==
  ASSUME StreamInv, heard, line = <<>>
  PROVE  Complete(packet, Last(sent))
<1>0. sent \in Seq(Packets) /\ sent # <<>>
  BY DEF StreamInv
<1> DEFINE e == Last(sent)
<1>1. e \in PacketsOf
  BY <1>0, LastOf, AssumedPackets
<1>2. PICK k \in 0 .. Len(Serialize(e)) : UpTo(k)
  BY DEF StreamInv
<1>3. /\ line = SubSeq(Serialize(e), k + 1, Len(Serialize(e)))
      /\ Holds(packet, e, k)
  BY <1>2 DEF UpTo
<1> HIDE DEF e
<1>4. /\ Serialize(e) \in Seq(Bytes) /\ Len(Serialize(e)) = Len(e.data) + 9
      /\ Len(e.data) \in Nat /\ \A i \in 1 .. Len(Serialize(e)) : Serialize(e)[i] \in Bytes
  BY <1>1, SerializeIs, PacketIs, ElementOfSeq
<1>5. k = Len(e.data) + 9
  <2>1. Len(line) = Len(Serialize(e)) - k
    BY <1>3, <1>4, LenOfSuffix
  <2>2. Len(line) = 0
    OBVIOUS
  <2> QED
    BY <1>4, <2>1, <2>2
<1>6. Complete(packet, e)
  <2>1. ~ (k = 0) /\ ~ (k \in 1 .. 7) /\ ~ (k \in 8 .. Len(e.data) + 8)
    BY <1>4, <1>5
  <2> QED
    BY <1>3, <2>1 DEF Holds
<1> QED
  BY <1>6 DEF e

LEMMA StreamInvSend ==
  ASSUME StreamInv, NEW f \in Packets, Send(f)
  PROVE  StreamInv'
<1>1. /\ packet \in Sound /\ sent \in Seq(Packets) /\ whole \in 0 .. Lag
      /\ faults \in 0 .. MaxFaults
  BY DEF StreamInv
<1>2. /\ line = <<>> /\ line' = Serialize(f)
      /\ sent' = IF sent = <<>> THEN <<f>> ELSE <<Last(sent), f>>
      /\ whole' = IF whole < Lag THEN whole + 1 ELSE whole
      /\ packet' = packet /\ faults' = faults /\ heard' = Waits(packet)
      /\ heard' \in BOOLEAN
  BY DEF Send, Waits
<1>3. f \in PacketsOf
  BY AssumedPackets
<1>4. /\ Serialize(f) \in Seq(Bytes) /\ Len(Serialize(f)) = Len(f.data) + 9
      /\ Len(f.data) \in Nat
  BY <1>3, SerializeIs, PacketIs
<1>5. whole' \in 0 .. Lag
  BY <1>1, <1>2, AssumedPackets
<1>6. sent' \in Seq(Packets) /\ Len(sent') <= 2 /\ Last(sent') = f /\ sent' # <<>>
  <2>1. CASE sent = <<>>
    <3>1. sent' = <<f>>
      BY <1>2, <2>1
    <3> QED
      BY <3>1 DEF Last
  <2>2. CASE sent # <<>>
    <3> DEFINE e == Last(sent)
    <3>1. e \in Packets
      BY <1>1, <2>2, LastOf
    <3> HIDE DEF e
    <3>2. <<e, f>> \in Seq(Packets) /\ Len(<<e, f>>) = 2
      BY <3>1
    <3>3. sent' = <<e, f>>
      BY <1>2, <2>2 DEF e
    <3> QED
      BY <3>2, <3>3 DEF Last
  <2> QED
    BY <2>1, <2>2
<1>7. heard' => \E k \in 0 .. Len(Serialize(Last(sent'))) : UpTo(k)'
  <2> SUFFICES ASSUME heard' PROVE \E k \in 0 .. Len(Serialize(f)) : UpTo(k)'
    BY <1>6
  <2>1. Waits(packet)'
    BY <1>2 DEF Waits
  <2>2. line' = SubSeq(Serialize(f), 0 + 1, Len(Serialize(f)))
    BY <1>2, <1>4, SubSeqFull
  <2>3. UpTo(0)'
    BY <1>6, <2>1, <2>2 DEF UpTo, Holds
  <2> QED
    BY <1>4, <2>3
<1>8. ASSUME faults = 0 PROVE heard' /\ ~Failed(packet)
  <2>1. ~Failed(packet)
    BY <1>8 DEF StreamInv
  <2>2. CASE sent = <<>>
    BY <1>2, <1>8, <2>1, <2>2 DEF StreamInv, Waits
  <2>3. CASE sent # <<>>
    <3>1. Complete(packet, Last(sent))
      BY <1>2, <1>8, <2>3, LineIsOver DEF StreamInv
    <3> QED
      BY <1>2, <2>1, <3>1 DEF Complete, Waits
  <2> QED
    BY <2>2, <2>3
<1> QED
  BY <1>1, <1>2, <1>4, <1>5, <1>6, <1>7, <1>8 DEF StreamInv, Failed

LEMMA StreamInvRead ==
  ASSUME StreamInv, NEW c \in Bytes, line # <<>>, Read(c)
  PROVE  packet' \in Sound /\ line' \in Seq(Bytes) /\ sent' = sent
<1>1. packet \in Sound /\ line \in Seq(Bytes)
  BY DEF StreamInv
<1>2. packet' = ParseChar(Current(packet), c) /\ line' = Tail(line) /\ sent' = sent
  BY DEF Read
<1>3. packet' \in Sound
  BY <1>1, <1>2, CurrentSound, ParseCharSound
<1>4. Tail(line) \in Seq(Bytes)
  BY <1>1, HeadTailProperties
<1> QED
  BY <1>2, <1>3, <1>4

LEMMA StreamInvByte ==
  ASSUME StreamInv, ReadByte
  PROVE  StreamInv'
<1>1. /\ packet \in Sound /\ line \in Seq(Bytes) /\ sent \in Seq(Packets) /\ Len(sent) <= 2
      /\ whole \in 0 .. Lag /\ heard \in BOOLEAN /\ faults \in 0 .. MaxFaults
  BY DEF StreamInv
<1>2. /\ line # <<>> /\ Read(Head(line)) /\ whole' = whole /\ faults' = faults
      /\ heard' = heard
  BY DEF ReadByte
<1>3. Head(line) \in Bytes
  BY <1>1, <1>2, HeadTailProperties
<1>4. packet' \in Sound /\ line' \in Seq(Bytes) /\ sent' = sent
  BY <1>2, <1>3, StreamInvRead
<1>5. packet' = ParseChar(Current(packet), Head(line)) /\ line' = Tail(line)
  BY <1>2 DEF Read
<1>6. ASSUME heard
      PROVE  /\ sent # <<>> /\ ~Failed(packet)'
             /\ \E k \in 0 .. Len(Serialize(Last(sent))) : UpTo(k)'
  <2> DEFINE f == Last(sent)
  <2>1. sent # <<>>
    BY <1>6 DEF StreamInv
  <2>2. f \in PacketsOf
    BY <1>1, <2>1, LastOf, AssumedPackets
  <2>3. PICK k \in 0 .. Len(Serialize(f)) : UpTo(k)
    BY <1>6, <2>1 DEF StreamInv
  <2>4. line = SubSeq(Serialize(f), k + 1, Len(Serialize(f))) /\ Holds(packet, f, k)
    BY <2>3 DEF UpTo
  <2>5. f' = f
    BY <1>4
  <2> HIDE DEF f
  <2>6. /\ Serialize(f) \in Seq(Bytes) /\ Len(Serialize(f)) = Len(f.data) + 9
        /\ Len(f.data) \in Nat
    BY <2>2, SerializeIs, PacketIs
  <2>7. k < Len(Serialize(f))
    <3>1. ASSUME ~ (k < Len(Serialize(f)))
          PROVE  FALSE
      <4>1. k + 1 > Len(Serialize(f))
        BY <2>6, <3>1
      <4>2. line = <<>>
        BY <2>4, <2>6, <4>1, SubSeqEmpty
      <4> QED
        BY <1>2, <4>2
    <3> QED
      BY <3>1
  <2>8. /\ Head(line) = Serialize(f)[k + 1]
        /\ Tail(line) = SubSeq(Serialize(f), (k + 1) + 1, Len(Serialize(f)))
    <3>1. k + 1 \in 1 .. Len(Serialize(f)) /\ Len(Serialize(f)) \in k + 1 .. Len(Serialize(f))
      BY <2>6, <2>7
    <3> QED
      BY <2>4, <2>6, <3>1, HeadTailOfSubSeq
  <2>9. Holds(packet', f, k + 1)
    <3>1. packet \in Parsers /\ k \in Nat /\ k < Len(f.data) + 9
      BY <1>1, <2>6, <2>7 DEF Sound
    <3> QED
      BY <1>5, <2>2, <2>4, <2>8, <3>1, ByteGoesOn
  <2>10. UpTo(k + 1)'
    <3>1. Last(sent)' = f
      BY <2>5 DEF f
    <3>2. line' = SubSeq(Serialize(f), (k + 1) + 1, Len(Serialize(f)))
      BY <1>5, <2>8
    <3> QED
      BY <2>9, <3>1, <3>2 DEF UpTo
  <2>11. k + 1 \in 0 .. Len(Serialize(f))
    BY <2>6, <2>7
  <2>12. ~Failed(packet)'
    <3>1. ~ (k + 1 = 0)
      BY <2>6
    <3> QED
      BY <2>9, <3>1 DEF Holds, AfterHeader, AfterData, Complete, Failed
  <2> QED
    BY <2>1, <2>10, <2>11, <2>12 DEF f
<1>7. faults = 0 => heard
  BY <1>2 DEF StreamInv
<1> QED
  BY <1>1, <1>2, <1>4, <1>6, <1>7 DEF StreamInv

LEMMA StreamInvFault ==
  ASSUME StreamInv, Fault, packet' \in Sound, line' \in Seq(Bytes), sent' = sent
  PROVE  StreamInv'
<1>1. /\ sent \in Seq(Packets) /\ Len(sent) <= 2 /\ faults \in 0 .. MaxFaults
  BY DEF StreamInv
<1>2. faults < MaxFaults /\ faults' = faults + 1 /\ whole' = 0 /\ heard' = FALSE
  BY DEF Fault
<1>3. faults' \in 0 .. MaxFaults /\ faults' # 0 /\ whole' \in 0 .. Lag
  BY <1>1, <1>2, AssumedPackets
<1> QED
  BY <1>1, <1>2, <1>3 DEF StreamInv

LEMMA StreamInvNext == StreamInv /\ [Next]_vars => StreamInv'
<1> SUFFICES ASSUME StreamInv, [Next]_vars PROVE StreamInv'
  OBVIOUS
<1>1. ASSUME NEW f \in Packets, Send(f) PROVE StreamInv'
  BY <1>1, StreamInvSend
<1>2. CASE ReadByte
  BY <1>2, StreamInvByte
<1>3. ASSUME NEW c \in Noise, ChangeByte(c) PROVE StreamInv'
  <2>1. c \in Bytes /\ Fault /\ Read(c) /\ line # <<>>
    BY <1>3, AssumedPackets DEF ChangeByte, Fault
  <2> QED
    BY <2>1, StreamInvRead, StreamInvFault
<1>4. CASE LoseByte
  <2>1. Fault /\ line # <<>> /\ line' = Tail(line) /\ packet' = packet /\ sent' = sent
    BY <1>4 DEF LoseByte, Fault
  <2>2. packet \in Sound /\ line \in Seq(Bytes)
    BY DEF StreamInv
  <2>3. Tail(line) \in Seq(Bytes)
    BY <2>1, <2>2, HeadTailProperties
  <2> QED
    BY <2>1, <2>2, <2>3, StreamInvFault
<1>5. CASE UNCHANGED vars
  BY <1>5 DEF StreamInv, UpTo, Holds, Waits, Failed, vars
<1> QED
  BY <1>1, <1>2, <1>3, <1>4, <1>5 DEF Next

LEMMA StreamInvIsEnough == StreamInv => TypeOK /\ ReadAsSent
<1> SUFFICES ASSUME StreamInv PROVE TypeOK /\ ReadAsSent
  OBVIOUS
<1>1. /\ packet \in Parsers /\ Filled(packet) /\ line \in Seq(Bytes)
      /\ sent \in Seq(Packets) /\ Len(sent) <= 2
      /\ whole \in 0 .. Lag /\ heard \in BOOLEAN /\ faults \in 0 .. MaxFaults
  BY DEF StreamInv, Sound
<1>2. TypeOK
  <2>1. packet.data_next \in Nat /\ packet.length \in Nat
    BY <1>1, FieldsOf
  <2>2. packet.data_next <= packet.length + 1 /\ Len(packet.data) <= packet.length
    BY <1>1, <2>1 DEF Filled
  <2>3. Range(sent) \subseteq Packets
    BY <1>1, LenProperties, ElementOfSeq DEF Range
  <2> QED
    BY <1>1, <2>2, <2>3 DEF TypeOK
<1>3. faults = 0 => (sent # <<>> => heard) /\ ~Failed(packet)
  BY DEF StreamInv
<1>4. ASSUME heard, line = <<>>
      PROVE  /\ packet.status = "PARSED"
             /\ [ack |-> packet.ack, index |-> packet.index, data |-> packet.data]
                  = Last(sent)
  <2> DEFINE f == Last(sent)
  <2>1. f \in PacketsOf
    BY <1>1, <1>4, LastOf, AssumedPackets DEF StreamInv
  <2>2. Complete(packet, f)
    BY <1>4, LineIsOver
  <2> HIDE DEF f
  <2>3. f = [ack |-> f.ack, index |-> f.index, data |-> f.data]
    BY <2>1 DEF PacketsOf
  <2> QED
    BY <2>2, <2>3 DEF Complete, f
<1> QED
  BY <1>2, <1>3, <1>4 DEF ReadAsSent

(* Whatever bytes are lost or changed, the parser stays within its arrays  *)
(* and its bytes, through every re-parse (packet.h, packet.cc:104).        *)
THEOREM StreamTypeCorrect == Spec => []TypeOK
<1>1. Init => StreamInv
  BY StreamInvInit
<1>2. StreamInv /\ [Next]_vars => StreamInv'
  BY StreamInvNext
<1>3. StreamInv => TypeOK
  BY StreamInvIsEnough
<1> QED
  BY <1>1, <1>2, <1>3, PTL DEF Spec

(* A packet that finds the parser waiting is parsed as it was sent.        *)
THEOREM StreamIsRead == Spec => []ReadAsSent
<1>1. Init => StreamInv
  BY StreamInvInit
<1>2. StreamInv /\ [Next]_vars => StreamInv'
  BY StreamInvNext
<1>3. StreamInv => ReadAsSent
  BY StreamInvIsEnough
<1> QED
  BY <1>1, <1>2, <1>3, PTL DEF Spec

(* Once a packet has found the parser waiting, every packet after it does, *)
(* up to the next fault: Read in commlink.cc loses step with the writer    *)
(* only where the line changes or loses a byte.                            *)
THEOREM StaysInStep ==
  Spec => [][heard => heard' \/ faults' = faults + 1]_vars
<1>1. StreamInv /\ [Next]_vars => [heard => heard' \/ faults' = faults + 1]_vars
  <2> SUFFICES ASSUME StreamInv, Next, heard PROVE heard' \/ faults' = faults + 1
    OBVIOUS
  <2>1. ASSUME NEW f \in Packets, Send(f) PROVE heard'
    <3>1. line = <<>> /\ heard' = Waits(packet)
      BY <2>1 DEF Send
    <3>2. Complete(packet, Last(sent))
      BY <3>1, LineIsOver
    <3> QED
      BY <3>1, <3>2 DEF Complete, Waits
  <2>2. CASE ReadByte
    BY <2>2 DEF ReadByte
  <2>3. ASSUME NEW c \in Noise, ChangeByte(c) PROVE faults' = faults + 1
    BY <2>3 DEF ChangeByte, Fault
  <2>4. CASE LoseByte
    BY <2>4 DEF LoseByte, Fault
  <2> QED
    BY <2>1, <2>2, <2>3, <2>4 DEF Next
<1>2. Init => StreamInv
  BY StreamInvInit
<1>3. StreamInv /\ [Next]_vars => StreamInv'
  BY StreamInvNext
<1> QED
  BY <1>1, <1>2, <1>3, PTL DEF Spec
=============================================================================
