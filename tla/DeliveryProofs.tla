--------------------------- MODULE DeliveryProofs ---------------------------
(***************************************************************************)
(* Proofs about module Delivery, for every buffer size, index range, scan  *)
(* length, channel capacity and program: what each step does to the        *)
(* invariant of a direction.  The lemmas of the first part are about the   *)
(* values that a step computes; those of the second about the steps.       *)
(***************************************************************************)
EXTENDS LinkProofs, FiniteSetTheorems

(* A window for which the arithmetic of indices works out. *)
Fits(gap) == gap \in Nat /\ BufferSize <= gap /\ gap + BufferSize <= MaxIndex

LEMMA GapsFit == Fits(MaxGap) /\ Fits(Lap) /\ Lap >= MaxGap
BY IndexAssumption DEF IndexAssumption, Fits, Lap

LEMMA SlotsCount == IsFiniteSet(Slots) /\ Cardinality(Slots) = BufferSize
<1>1. BufferSize \in Nat /\ BufferSize > 0
  BY IndexFacts
<1> QED
  BY <1>1, FS_Interval DEF Slots

(* A buffer holds no more messages than it has slots. *)
LEMMA RoomFor ==
  ASSUME NEW w \in Writers, NEW low \in Int, NEW high \in Int,
         \A n \in low + 1 .. high : \E s \in Slots : w.slot[s].data = n
  PROVE  high <= low + BufferSize
<1> DEFINE held == low + 1 .. high
           at == [n \in held |-> CHOOSE s \in Slots : w.slot[s].data = n]
<1>1. \A n \in held : at[n] \in Slots /\ w.slot[at[n]].data = n
  OBVIOUS
<1>2. at \in Injection(held, Slots)
  <2>1. at \in [held -> Slots]
    BY <1>1
  <2>2. \A m, n \in held : at[m] = at[n] => m = n
    BY <1>1
  <2> HIDE DEF at, held
  <2> QED
    BY <2>1, <2>2 DEF Injection, IsInjective
<1>3. BufferSize \in Nat
  BY IndexFacts
<1>4. IsFiniteSet(Slots) /\ Cardinality(Slots) = BufferSize
  BY SlotsCount
<1>5. Cardinality(held) <= Cardinality(Slots)
  BY <1>2, <1>4, FS_Injection
<1>6. Cardinality(held) = IF low + 1 > high THEN 0 ELSE high - (low + 1) + 1
  BY FS_Interval
<1> QED
  BY <1>3, <1>4, <1>5, <1>6

-----------------------------------------------------------------------------
(* One direction and what happens to it. *)

(* The writer w, the line c and the reader r are those of a direction. *)
Sound(w, c, r, acc, del, first, e, gap) ==
  /\ w \in Writers /\ c \in Seq(Frames) /\ r \in Readers
  /\ acc \in Nat /\ del \in Nat /\ first \in Nat /\ e \in Nat /\ e > 0
  /\ Fits(gap)
  /\ DirectionInv(w, c, r, acc, del, first, e, gap)

LEMMA SoundFacts ==
  ASSUME NEW w, NEW c, NEW r, NEW acc, NEW del, NEW first, NEW e, NEW gap,
         Sound(w, c, r, acc, del, first, e, gap)
  PROVE  /\ acc <= del + BufferSize
         /\ \A n \in first + 1 .. acc :
              del < n + gap => (InRange(r.last, IndexOf(n)) <=> n > del)
<1>1. acc <= del + BufferSize
  BY RoomFor DEF Sound, DirectionInv, SenderInv
<1>2. ASSUME NEW n \in first + 1 .. acc, del < n + gap
      PROVE  InRange(r.last, IndexOf(n)) <=> n > del
  <2>1. /\ del \in Nat /\ n \in Nat /\ n <= del + BufferSize
        /\ gap \in Nat /\ gap + BufferSize <= MaxIndex
        /\ r.last = IndexOf(del)
    BY <1>1, IndexFacts DEF Sound, Fits, DirectionInv, ReceiverInv
  <2> QED
    BY <1>2, <2>1, InRangeIs
<1> QED
  BY <1>1, <1>2

(* While a packet is being received the others are new, and no two the same.*)
Fresh(r, del) ==
  \A s, t \in Slots : IsData(r.slot[s]) /\ IsData(r.slot[t]) =>
    /\ r.slot[s].data > del
    /\ r.slot[s].data = r.slot[t].data => s = t

(* The reader forgets packets, whatever else it does. *)
LEMMA Forgets ==
  ASSUME NEW w, NEW c, NEW r, NEW acc, NEW del, NEW first, NEW e, NEW gap,
         Sound(w, c, r, acc, del, first, e, gap),
         NEW q \in Readers, q.last = r.last,
         \A s \in Slots : q.slot[s] \in {r.slot[s], FreeRx, BlankRx, ErrorRx},
         q.current # NoSlot => r.current # NoSlot \/ Fresh(q, del)
  PROVE  Sound(w, c, q, acc, del, first, e, gap)
<1>1. ReceiverInv(r, acc, del, first, e, gap) /\ LineInv(c, r, acc, del, first, e, gap)
  BY DEF Sound, DirectionInv
<1> DEFINE Empty(x) == x.state # "parsed" /\ x.index = 0
<1>2. /\ Empty(FreeRx) /\ Empty(BlankRx) /\ Empty(ErrorRx)
      /\ \A x : Empty(x) => ~IsData(x)
  BY DEF FreeRx, BlankRx, ErrorRx, IsData
<1> HIDE DEF Empty
<1>3. \A s \in Slots : IsData(q.slot[s]) => q.slot[s] = r.slot[s]
  BY <1>2
<1>4. ReceiverInv(q, acc, del, first, e, gap)
  <2>1. /\ q.last = IndexOf(del)
        /\ \A s \in Slots : q.slot[s].state # "parsed" => q.slot[s].index = 0
    BY <1>2, <1>1 DEF ReceiverInv, Empty
  <2>2. ASSUME NEW s \in Slots, IsData(q.slot[s])
        PROVE  /\ Timely(q.slot[s], acc, del, first, e, gap)
               /\ \A t \in Slots : IsData(q.slot[t]) => q.slot[t].data < q.slot[s].data + gap
    BY <1>1, <1>3, <2>2 DEF ReceiverInv
  <2>3. ASSUME q.current # NoSlot
        PROVE  Fresh(q, del)
    <3>1. CASE r.current # NoSlot
      BY <1>1, <1>3, <3>1 DEF ReceiverInv, Fresh
    <3> QED
      BY <2>3, <3>1
  <2> QED
    BY <2>1, <2>2, <2>3 DEF ReceiverInv, Fresh
<1>5. LineInv(c, q, acc, del, first, e, gap)
  BY <1>1, <1>3 DEF LineInv
<1> QED
  BY <1>4, <1>5 DEF Sound, DirectionInv

(* A packet leaves the line. *)
LEMMA LeavesLine ==
  ASSUME NEW w, NEW c, NEW r, NEW acc, NEW del, NEW first, NEW e, NEW gap,
         Sound(w, c, r, acc, del, first, e, gap), c # <<>>
  PROVE  Sound(w, Tail(c), r, acc, del, first, e, gap)
<1>1. LineInv(c, r, acc, del, first, e, gap) /\ c \in Seq(Frames)
  BY DEF Sound, DirectionInv
<1> DEFINE b == Tail(c)
<1>2. /\ b \in Seq(Frames) /\ Len(b) = Len(c) - 1 /\ Len(c) \in Nat
      /\ \A i \in 1 .. Len(b) : b[i] = c[i + 1] /\ i + 1 \in 1 .. Len(c)
  BY <1>1
<1> HIDE DEF b
<1>3. LineInv(b, r, acc, del, first, e, gap)
  <2> SUFFICES ASSUME NEW i \in 1 .. Len(b), HasData(b[i])
               PROVE  /\ Timely(b[i], acc, del, first, e, gap)
                      /\ \A s \in Slots : IsData(r.slot[s]) => r.slot[s].data < b[i].data + gap
                      /\ \A j \in 1 .. i - 1 : HasData(b[j]) => b[j].data < b[i].data + gap
    BY DEF LineInv
  <2>1. /\ b[i] = c[i + 1] /\ i + 1 \in 1 .. Len(c)
        /\ \A j \in 1 .. i - 1 : b[j] = c[j + 1] /\ j + 1 \in 1 .. (i + 1) - 1
    BY <1>2
  <2>2. /\ Timely(c[i + 1], acc, del, first, e, gap)
        /\ \A s \in Slots : IsData(r.slot[s]) => r.slot[s].data < c[i + 1].data + gap
        /\ \A j \in 1 .. (i + 1) - 1 : HasData(c[j]) => c[j].data < c[i + 1].data + gap
    BY <1>1, <2>1 DEF LineInv
  <2> QED
    BY <2>1, <2>2
<1> QED
  BY <1>2, <1>3 DEF Sound, DirectionInv, b

(* The packet f arrives intact: current_packet_ becomes one with its data. *)
LEMMA Arrives ==
  ASSUME NEW w, NEW c, NEW r, NEW acc, NEW del, NEW first, NEW e, NEW gap,
         Sound(w, c, r, acc, del, first, e, gap), c # <<>>,
         r.current # NoSlot, Head(c).index # StartIndex,
         NEW q \in Readers, q.last = r.last, q.current = NoSlot,
         q.slot = [r.slot EXCEPT ![r.current] = ParsedRx(Head(c))]
  PROVE  Sound(w, Tail(c), q, acc, del, first, e, gap)
<1> DEFINE b == Tail(c)
           f == Head(c)
           x == ParsedRx(f)
<1>1. ReceiverInv(r, acc, del, first, e, gap) /\ LineInv(c, r, acc, del, first, e, gap)
  BY DEF Sound, DirectionInv
<1>2. /\ b \in Seq(Frames) /\ Len(b) = Len(c) - 1 /\ Len(c) \in Nat
      /\ f = c[1] /\ f \in Frames /\ 1 \in 1 .. Len(c)
      /\ \A i \in 1 .. Len(b) : b[i] = c[i + 1] /\ i + 1 \in 1 .. Len(c)
  BY DEF Sound
<1>3. r.current \in Slots /\ r.slot \in [Slots -> RxSlots]
  BY DEF Sound, Readers
<1>4. x.index = f.index /\ x.data = f.data /\ (IsData(x) <=> HasData(f)) /\ x.state = "parsed"
  BY DEF ParsedRx, IsData, HasData
<1>5. \A s \in Slots : q.slot[s] = IF s = r.current THEN x ELSE r.slot[s]
  BY <1>3
<1>6. acc <= del + BufferSize /\ acc \in Nat /\ del \in Nat /\ BufferSize \in Nat
  BY SoundFacts, IndexFacts DEF Sound
<1>7. gap \in Nat /\ gap >= BufferSize /\ e \in Nat /\ first \in Nat
  BY DEF Sound, Fits
<1> HIDE DEF b, f, x
<1>8. HasData(f) => /\ Timely(x, acc, del, first, e, gap)
                    /\ \A s \in Slots : IsData(r.slot[s]) => r.slot[s].data < x.data + gap
                    /\ x.data \in Nat /\ x.data <= acc
  BY <1>1, <1>2, <1>4, <1>6, <1>7 DEF LineInv, Timely, Carries
<1>9. ReceiverInv(q, acc, del, first, e, gap)
  <2>1. /\ q.last = IndexOf(del)
        /\ \A s \in Slots : q.slot[s].state # "parsed" => q.slot[s].index = 0
    BY <1>1, <1>4, <1>5 DEF ReceiverInv
  <2>2. ASSUME NEW s \in Slots, IsData(q.slot[s])
        PROVE  Timely(q.slot[s], acc, del, first, e, gap)
    BY <1>1, <1>4, <1>5, <1>8, <2>2 DEF ReceiverInv
  <2>3. ASSUME NEW s \in Slots, IsData(q.slot[s]), NEW t \in Slots, IsData(q.slot[t])
        PROVE  q.slot[t].data < q.slot[s].data + gap
    <3>1. CASE s = r.current /\ t = r.current
      BY <1>4, <1>5, <1>6, <1>7, <1>8, <2>3, <3>1, IndexFacts
    <3>2. CASE s = r.current /\ t # r.current
      BY <1>4, <1>5, <1>8, <2>3, <3>2
    <3>3. CASE s # r.current /\ t = r.current
      <4>1. IsData(r.slot[s]) /\ q.slot[s] = r.slot[s] /\ q.slot[t] = x /\ HasData(f)
        BY <1>4, <1>5, <2>3, <3>3
      <4>2. r.slot[s].data > del /\ r.slot[s].data \in Nat
        BY <1>1, <1>3, <4>1 DEF ReceiverInv, RxSlots
      <4>3. x.data \in Nat /\ x.data <= acc
        BY <1>8, <4>1
      <4>4. x.data <= del + gap
        BY <1>6, <1>7, <4>3
      <4>5. x.data < r.slot[s].data + gap
        BY <1>6, <1>7, <4>2, <4>3, <4>4, SMTT(30)
      <4> QED
        BY <4>1, <4>5
    <3>4. CASE s # r.current /\ t # r.current
      BY <1>1, <1>5, <2>3, <3>4 DEF ReceiverInv
    <3> QED
      BY <3>1, <3>2, <3>3, <3>4
  <2> QED
    BY <2>1, <2>2, <2>3 DEF ReceiverInv
<1>10. LineInv(b, q, acc, del, first, e, gap)
  <2> SUFFICES ASSUME NEW i \in 1 .. Len(b), HasData(b[i])
               PROVE  /\ Timely(b[i], acc, del, first, e, gap)
                      /\ \A s \in Slots : IsData(q.slot[s]) => q.slot[s].data < b[i].data + gap
                      /\ \A j \in 1 .. i - 1 : HasData(b[j]) => b[j].data < b[i].data + gap
    BY DEF LineInv
  <2>1. /\ b[i] = c[i + 1] /\ i + 1 \in 1 .. Len(c) /\ 1 \in 1 .. (i + 1) - 1
        /\ \A j \in 1 .. i - 1 : b[j] = c[j + 1] /\ j + 1 \in 1 .. (i + 1) - 1
    BY <1>2
  <2>2. /\ Timely(c[i + 1], acc, del, first, e, gap)
        /\ \A s \in Slots : IsData(r.slot[s]) => r.slot[s].data < c[i + 1].data + gap
        /\ \A j \in 1 .. (i + 1) - 1 : HasData(c[j]) => c[j].data < c[i + 1].data + gap
    BY <1>1, <2>1 DEF LineInv
  <2>3. \A s \in Slots : IsData(q.slot[s]) => q.slot[s].data < b[i].data + gap
    BY <1>2, <1>4, <1>5, <2>1, <2>2
  <2> QED
    BY <2>1, <2>2, <2>3
<1> QED
  BY <1>2, <1>9, <1>10 DEF Sound, DirectionInv, b

(* PopPacket finds the next message, and no other. *)
LEMMA PopsNext ==
  ASSUME NEW w, NEW c, NEW r, NEW acc, NEW del, NEW first, NEW e, NEW gap,
         Sound(w, c, r, acc, del, first, e, gap),
         NEW s \in Slots, Poppable(r, s)
  PROVE  /\ IsData(r.slot[s])
         /\ r.slot[s].data = del + 1
         /\ r.slot[s].index = IndexOf(del + 1)
         /\ del + 1 <= acc
<1> DEFINE n == r.slot[s].data
<1>1. /\ r \in Readers /\ acc \in Nat /\ del \in Nat /\ first \in Nat
      /\ gap \in Nat /\ BufferSize \in Nat /\ gap + BufferSize <= MaxIndex
      /\ MaxIndex \in Nat /\ BufferSize > 0
  BY IndexFacts DEF Sound, Fits
<1>2. r.last = IndexOf(del)
  BY DEF Sound, DirectionInv, ReceiverInv
<1>3. r.slot[s].state = "parsed" /\ r.slot[s].index = IndexOf(del + 1)
  BY <1>1, <1>2, IndexOfNext DEF Poppable
<1>4. IsData(r.slot[s])
  BY <1>1, <1>3, IndexOfType DEF IsData
<1>5. Timely(r.slot[s], acc, del, first, e, gap)
  BY <1>4 DEF Sound, DirectionInv, ReceiverInv
<1>6. n \in first + 1 .. acc /\ IndexOf(n) = IndexOf(del + 1) /\ del < n + gap
  BY <1>3, <1>5 DEF Timely, Carries
<1>7. acc <= del + BufferSize
  BY SoundFacts
<1>8. n \in Nat /\ del + 1 \in Nat /\ n < (del + 1) + MaxIndex /\ del + 1 < n + MaxIndex
  BY <1>1, <1>6, <1>7
<1>9. n = del + 1
  BY <1>6, <1>8, IndexOfSame
<1> QED
  BY <1>1, <1>3, <1>4, <1>6, <1>9

LEMMA Pops ==
  ASSUME NEW w, NEW c, NEW r, NEW acc, NEW del, NEW first, NEW e, NEW gap,
         Sound(w, c, r, acc, del, first, e, gap),
         NEW s \in Slots, Poppable(r, s)
  PROVE  Sound(w, c, PopPacket(r, s), acc, del + 1, first, e, gap)
<1> DEFINE q == PopPacket(r, s)
<1>1. /\ IsData(r.slot[s]) /\ r.slot[s].data = del + 1
      /\ r.slot[s].index = IndexOf(del + 1) /\ del + 1 <= acc
  BY PopsNext
<1>2. /\ r \in Readers /\ acc \in Nat /\ del \in Nat /\ first \in Nat /\ gap \in Nat
      /\ e \in Nat /\ BufferSize \in Nat
  BY IndexFacts DEF Sound, Fits
<1>3. q \in Readers
  BY <1>2, PopPacketFacts DEF Keeps
<1>4. ~IsData(FreeRx)
  BY RxSlotFacts DEF IsData
<1>5. /\ q.last = IndexOf(del + 1) /\ q.current = r.current
      /\ \A t \in Slots : q.slot[t] = IF t = s THEN FreeRx ELSE r.slot[t]
  BY <1>1, <1>2 DEF PopPacket, Readers
<1> HIDE DEF q
<1>6. /\ first <= del /\ SenderInv(w, acc, del, first) /\ WindowInv(w, acc, del, e, gap)
      /\ ReceiverInv(r, acc, del, first, e, gap) /\ LineInv(c, r, acc, del, first, e, gap)
  BY DEF Sound, DirectionInv
<1>7. \A t \in Slots : IsData(q.slot[t]) => q.slot[t] = r.slot[t] /\ IsData(r.slot[t]) /\ t # s
  BY <1>4, <1>5
<1>8. Timely(r.slot[s], acc, del, first, e, gap)
  BY <1>1, <1>6 DEF ReceiverInv
<1>9. SenderInv(w, acc, del + 1, first)
  BY <1>2, <1>6 DEF SenderInv
<1>10. WindowInv(w, acc, del + 1, e, gap)
  BY <1>1, <1>2, <1>6, <1>8 DEF WindowInv, Timely
<1>11. ReceiverInv(q, acc, del + 1, first, e, gap)
  <2>1. ASSUME NEW t \in Slots, IsData(q.slot[t])
        PROVE  /\ Timely(q.slot[t], acc, del + 1, first, e, gap)
               /\ \A u \in Slots : IsData(q.slot[u]) => q.slot[u].data < q.slot[t].data + gap
    BY <1>1, <1>6, <1>7, <2>1 DEF ReceiverInv, Timely
  <2>2. ASSUME q.current # NoSlot, NEW t \in Slots, NEW u \in Slots,
               IsData(q.slot[t]), IsData(q.slot[u])
        PROVE  q.slot[t].data > del + 1 /\ (q.slot[t].data = q.slot[u].data => t = u)
    <3>1. /\ r.slot[t].data > del
          /\ r.slot[t].data = r.slot[u].data => t = u
          /\ r.slot[t].data = r.slot[s].data => t = s
      BY <1>1, <1>5, <1>6, <1>7, <2>2 DEF ReceiverInv
    <3>2. r.slot[t].data \in Nat
      BY <1>2 DEF Readers, RxSlots
    <3> QED
      BY <1>1, <1>2, <1>7, <2>2, <3>1, <3>2
  <2>3. \A t \in Slots : q.slot[t].state # "parsed" => q.slot[t].index = 0
    BY <1>5, <1>6 DEF ReceiverInv, FreeRx
  <2> QED
    BY <1>5, <2>1, <2>2, <2>3 DEF ReceiverInv
<1>12. LineInv(c, q, acc, del + 1, first, e, gap)
  BY <1>1, <1>6, <1>7 DEF LineInv, Timely
<1> QED
  BY <1>1, <1>2, <1>3, <1>6, <1>9, <1>10, <1>11, <1>12 DEF Sound, DirectionInv, q

(* The program adds a message to a free slot. *)
LEMMA Adds ==
  ASSUME NEW w, NEW c, NEW r, NEW acc, NEW del, NEW first, NEW e, NEW gap,
         Sound(w, c, r, acc, del, first, e, gap),
         w.started, NEW s \in Slots, w.slot[s] = FreeTx
  PROVE  /\ Sound(AddToOutgoingQueue(w, s, acc + 1), c, r, acc + 1, del, first, e, gap)
         /\ AddToOutgoingQueue(w, s, acc + 1).earliest = w.earliest
         /\ \A t \in Slots : AddToOutgoingQueue(w, s, acc + 1).slot[t].data =
              IF t = s THEN acc + 1 ELSE w.slot[t].data
<1> DEFINE q == AddToOutgoingQueue(w, s, acc + 1)
           x == NewTx(IndexOf(acc + 1), acc + 1)
<1>1. /\ w \in Writers /\ acc \in Nat /\ del \in Nat /\ first \in Nat /\ e \in Nat /\ gap \in Nat
      /\ first <= del /\ del <= acc
      /\ SenderInv(w, acc, del, first) /\ WindowInv(w, acc, del, e, gap)
      /\ ReceiverInv(r, acc, del, first, e, gap) /\ LineInv(c, r, acc, del, first, e, gap)
  BY DEF Sound, DirectionInv, Fits
<1>2. q \in Writers /\ q.started
  <2>1. acc + 1 \in Nat
    BY <1>1
  <2> HIDE DEF x
  <2>2. q.started = w.started
    BY <1>1, <2>1, AddFacts
  <2> QED
    BY <1>1, <2>1, <2>2, AddFacts
<1>3. IncrementIndex(w.current) = IndexOf(acc + 1) /\ IndexOf(acc + 1) \in DataIndices
  BY <1>1, IndexOfNext, IndexOfType DEF SenderInv
<1>4. /\ q.current = IndexOf(acc + 1) /\ q.earliest = w.earliest
      /\ \A t \in Slots : q.slot[t] = IF t = s THEN x ELSE w.slot[t]
  BY <1>1, <1>3 DEF AddToOutgoingQueue, Writers
<1>5. x.index = IndexOf(acc + 1) /\ x.data = acc + 1
  BY DEF NewTx, FreeTx
<1>6. w.slot[s].data = 0 /\ w.slot[s].index \notin DataIndices
  BY IndexFacts DEF FreeTx, DataIndices
<1> HIDE DEF q, x
<1>7. \A t \in Slots : w.slot[t].data \in Nat /\ w.slot[t].data <= acc
  BY <1>1 DEF SenderInv, Carries, Writers, TxSlots
<1>8. SenderInv(q, acc + 1, del, first)
  <2>1. ASSUME NEW t \in Slots
        PROVE  IF q.slot[t].index \in DataIndices THEN Carries(q.slot[t], first, acc + 1)
                                                  ELSE q.slot[t].data = 0
    <3>1. CASE t = s
      BY <1>1, <1>3, <1>4, <1>5, <3>1 DEF Carries
    <3>2. CASE t # s
      BY <1>1, <1>4, <3>2 DEF SenderInv, Carries
    <3> QED
      BY <3>1, <3>2
  <2>2. ASSUME NEW t \in Slots, NEW u \in Slots, q.slot[t].data = q.slot[u].data
        PROVE  t = u \/ q.slot[t].data = 0
    BY <1>1, <1>4, <1>5, <1>7, <2>2 DEF SenderInv
  <2>3. ASSUME NEW n \in del + 1 .. acc + 1
        PROVE  \E t \in Slots : q.slot[t].data = n
    <3>1. CASE n = acc + 1
      BY <1>4, <1>5, <3>1
    <3>2. CASE n # acc + 1
      <4>1. n \in del + 1 .. acc /\ n # 0
        BY <1>1, <3>2
      <4>2. PICK t \in Slots : w.slot[t].data = n
        BY <1>1, <4>1 DEF SenderInv
      <4> QED
        BY <1>4, <1>6, <4>1, <4>2
    <3> QED
      BY <3>1, <3>2
  <2> QED
    BY <1>2, <1>4, <2>1, <2>2, <2>3 DEF SenderInv
<1>9. WindowInv(q, acc + 1, del, e, gap)
  BY <1>1, <1>4, <1>5 DEF WindowInv
<1>10. \A x1 : Timely(x1, acc, del, first, e, gap) => Timely(x1, acc + 1, del, first, e, gap)
  BY <1>1 DEF Timely, Carries
<1>11. ReceiverInv(r, acc + 1, del, first, e, gap) /\ LineInv(c, r, acc + 1, del, first, e, gap)
  BY <1>1, <1>10 DEF ReceiverInv, LineInv
<1> QED
  BY <1>1, <1>2, <1>4, <1>5, <1>8, <1>9, <1>11 DEF Sound, DirectionInv, q

(* The slot x becomes y: the same message, or none.                        *)
SameMessage(x, y) == y.index = x.index /\ y.data = x.data
NoMessage(y) == y.index \notin DataIndices /\ y.data = 0

(* The writer drops messages that were delivered, and its window moves.    *)
LEMMA WriterBecomes ==
  ASSUME NEW w, NEW c, NEW r, NEW acc, NEW del, NEW first, NEW e, NEW gap,
         Sound(w, c, r, acc, del, first, e, gap),
         NEW q \in Writers, q.current = w.current, ~q.started => acc = 0,
         \A s \in Slots : \/ SameMessage(w.slot[s], q.slot[s])
                          \/ NoMessage(q.slot[s]) /\ w.slot[s].data <= del,
         NEW e2 \in Nat, e2 > 0, e <= e2 \/ acc < e2 + gap, e2 <= acc + 1,
         \A s \in Slots : q.slot[s].index \in DataIndices => q.slot[s].data >= e2
  PROVE  Sound(q, c, r, acc, del, first, e2, gap)
<1>1. /\ w \in Writers /\ acc \in Nat /\ del \in Nat /\ first \in Nat /\ e \in Nat /\ gap \in Nat
      /\ first <= del /\ del <= acc
      /\ SenderInv(w, acc, del, first) /\ WindowInv(w, acc, del, e, gap)
      /\ ReceiverInv(r, acc, del, first, e, gap) /\ LineInv(c, r, acc, del, first, e, gap)
  BY DEF Sound, DirectionInv, Fits
<1>2. SenderInv(q, acc, del, first)
  <2>1. \A s \in Slots : IF q.slot[s].index \in DataIndices THEN Carries(q.slot[s], first, acc)
                                                             ELSE q.slot[s].data = 0
    BY <1>1 DEF SenderInv, SameMessage, NoMessage, Carries
  <2>2. \A s, t \in Slots : q.slot[s].data = q.slot[t].data => s = t \/ q.slot[s].data = 0
    BY <1>1 DEF SenderInv, SameMessage, NoMessage
  <2>3. ASSUME NEW n \in del + 1 .. acc
        PROVE  \E s \in Slots : q.slot[s].data = n
    <3>1. PICK s \in Slots : w.slot[s].data = n
      BY <1>1 DEF SenderInv
    <3>2. ~(w.slot[s].data <= del)
      BY <1>1, <3>1
    <3> QED
      BY <3>1, <3>2 DEF SameMessage
  <2> QED
    BY <1>1, <2>1, <2>2, <2>3 DEF SenderInv
<1>3. WindowInv(q, acc, del, e2, gap)
  BY <1>1 DEF WindowInv
<1>4. \A x : Timely(x, acc, del, first, e, gap) => Timely(x, acc, del, first, e2, gap)
  BY <1>1 DEF Timely, Carries
<1>5. ReceiverInv(r, acc, del, first, e2, gap) /\ LineInv(c, r, acc, del, first, e2, gap)
  BY <1>1, <1>4 DEF ReceiverInv, LineInv
<1> QED
  BY <1>1, <1>2, <1>3, <1>5 DEF Sound, DirectionInv

(* A packet is sent: the last on the line. *)
LEMMA EntersLine ==
  ASSUME NEW w, NEW c, NEW r, NEW acc, NEW del, NEW first, NEW e, NEW gap,
         Sound(w, c, r, acc, del, first, e, gap),
         NEW f \in Frames,
         HasData(f) => \E s \in Slots : SameMessage(w.slot[s], f) /\ f.data < e + gap
  PROVE  Sound(w, Append(c, f), r, acc, del, first, e, gap)
<1> DEFINE b == Append(c, f)
<1>1. /\ c \in Seq(Frames) /\ acc \in Nat /\ del \in Nat /\ first \in Nat /\ e \in Nat /\ gap \in Nat
      /\ SenderInv(w, acc, del, first) /\ WindowInv(w, acc, del, e, gap)
      /\ ReceiverInv(r, acc, del, first, e, gap) /\ LineInv(c, r, acc, del, first, e, gap)
      /\ r \in Readers
  BY DEF Sound, DirectionInv, Fits
<1>2. /\ b \in Seq(Frames) /\ Len(b) = Len(c) + 1 /\ Len(c) \in Nat
      /\ \A i \in 1 .. Len(c) : b[i] = c[i] /\ c[i] \in Frames
      /\ b[Len(c) + 1] = f
  BY <1>1
<1> HIDE DEF b
<1>3. ASSUME HasData(f)
      PROVE  /\ Carries(f, first, acc) /\ f.data >= e /\ f.data < e + gap /\ f.data \in Nat
             /\ del < e + gap
  BY <1>1, <1>3, SMTT(30) DEF SenderInv, WindowInv, SameMessage, Carries, HasData
<1>4. LineInv(b, r, acc, del, first, e, gap)
  <2> SUFFICES ASSUME NEW i \in 1 .. Len(b), HasData(b[i])
               PROVE  /\ Timely(b[i], acc, del, first, e, gap)
                      /\ \A s \in Slots : IsData(r.slot[s]) => r.slot[s].data < b[i].data + gap
                      /\ \A j \in 1 .. i - 1 : HasData(b[j]) => b[j].data < b[i].data + gap
    BY DEF LineInv
  <2>1. CASE i \in 1 .. Len(c)
    <3>1. b[i] = c[i] /\ \A j \in 1 .. i - 1 : b[j] = c[j]
      BY <1>2, <2>1
    <3> QED
      BY <1>1, <2>1, <3>1 DEF LineInv
  <2>2. CASE i = Len(c) + 1
    <3>1. b[i] = f /\ HasData(f) /\ \A j \in 1 .. i - 1 : b[j] = c[j] /\ j \in 1 .. Len(c)
      BY <1>2, <2>2
    <3>2. Timely(f, acc, del, first, e, gap)
      BY <1>1, <1>3, <3>1 DEF Timely
    <3>3. ASSUME NEW s \in Slots, IsData(r.slot[s])
          PROVE  r.slot[s].data < f.data + gap
      <4>1. r.slot[s].data < e + gap /\ r.slot[s].data \in Nat
        BY <1>1, <3>3 DEF ReceiverInv, Timely, Readers, RxSlots
      <4> QED
        BY <1>1, <1>3, <3>1, <4>1, SMTT(30)
    <3>4. ASSUME NEW j \in 1 .. i - 1, HasData(b[j])
          PROVE  b[j].data < f.data + gap
      <4>1. b[j].data < e + gap /\ b[j].data \in Nat
        BY <1>1, <1>2, <3>1, <3>4 DEF LineInv, Timely, Frames
      <4> QED
        BY <1>1, <1>3, <3>1, <4>1, SMTT(30)
    <3> QED
      BY <3>1, <3>2, <3>3, <3>4
  <2> QED
    BY <1>2, <2>1, <2>2
<1> QED
  BY <1>2, <1>4 DEF Sound, DirectionInv, b

(* A clean-up leaves the new packets, and of each message one.             *)
LEMMA CleansUp ==
  ASSUME NEW w, NEW c, NEW r, NEW acc, NEW del, NEW first, NEW e, NEW gap,
         Sound(w, c, r, acc, del, first, e, gap)
  PROVE  Fresh(Cleanup(r), del)
<1>1. /\ r \in Readers /\ ReceiverInv(r, acc, del, first, e, gap)
      /\ \A s \in Slots : Cleanup(r).slot[s] = IF Kept(r, s) THEN r.slot[s] ELSE FreeRx
  BY DEF Sound, DirectionInv, Cleanup, Readers
<1>2. ~IsData(FreeRx)
  BY RxSlotFacts DEF IsData
<1>3. ASSUME NEW s \in Slots, IsData(Cleanup(r).slot[s])
      PROVE  /\ Kept(r, s) /\ Cleanup(r).slot[s] = r.slot[s]
             /\ r.slot[s].index = IndexOf(r.slot[s].data)
             /\ r.slot[s].data > del
  <2>1. Kept(r, s) /\ Cleanup(r).slot[s] = r.slot[s] /\ IsData(r.slot[s])
    BY <1>1, <1>2, <1>3
  <2>2. Timely(r.slot[s], acc, del, first, e, gap)
    BY <1>1, <2>1 DEF ReceiverInv
  <2>3. InRange(r.last, r.slot[s].index)
    BY <2>1 DEF Kept, Valid
  <2> QED
    BY <2>1, <2>2, <2>3, SoundFacts DEF Timely, Carries
<1>4. ASSUME NEW s \in Slots, NEW t \in Slots, Kept(r, s), Kept(r, t),
             r.slot[s].index = r.slot[t].index
      PROVE  s = t
  <2>1. /\ Valid(r, s) /\ Valid(r, t)
        /\ s \notin 1 .. t - 1 /\ t \notin 1 .. s - 1
    BY <1>4 DEF Kept
  <2>2. s \in Nat /\ t \in Nat /\ s > 0 /\ t > 0
    BY IndexFacts DEF Slots
  <2> QED
    BY <2>1, <2>2
<1> HIDE DEF Cleanup
<1>5. ASSUME NEW s \in Slots, NEW t \in Slots,
             IsData(Cleanup(r).slot[s]), IsData(Cleanup(r).slot[t])
      PROVE  /\ Cleanup(r).slot[s].data > del
             /\ Cleanup(r).slot[s].data = Cleanup(r).slot[t].data => s = t
  BY <1>3, <1>4, <1>5
<1> QED
  BY <1>5 DEF Fresh

(* A reader that a clean-up can make no room in holds every message that   *)
(* the sender holds, and so the next.                                      *)
LEMMA RoomReturns ==
  ASSUME NEW w, NEW c, NEW r, NEW acc, NEW del, NEW first, NEW e, NEW gap,
         Sound(w, c, r, acc, del, first, e, gap), NoSpaceLeft(r)
  PROVE  \E s \in Slots : Poppable(r, s)
<1> DEFINE clean == Cleanup(r)
           new == del + 1 .. acc
           at == [s \in Slots |-> r.slot[s].data]
<1>1. /\ r \in Readers /\ ReceiverInv(r, acc, del, first, e, gap) /\ r.last \in 0 .. MaxIndex
      /\ acc \in Nat /\ del \in Nat /\ first \in Nat /\ acc <= del + BufferSize /\ BufferSize \in Nat
      /\ BufferSize > 0
      /\ \A s \in Slots : clean.slot[s] = IF Kept(r, s) THEN r.slot[s] ELSE FreeRx
  BY SoundFacts, IndexFacts DEF Sound, DirectionInv, Cleanup, Readers
<1>2. Fresh(clean, del)
  BY CleansUp
<1>3. ASSUME NEW s \in Slots
      PROVE  Kept(r, s) /\ clean.slot[s] = r.slot[s] /\ IsData(r.slot[s])
  <2>1. Kept(r, s) /\ clean.slot[s] = r.slot[s]
    BY <1>1 DEF NoSpaceLeft
  <2>2. r.slot[s].index \in DataIndices
    BY <1>1, <2>1, InRangeType DEF Kept, Valid
  <2>3. r.slot[s].state = "parsed"
    BY <1>1, <2>2, IndexFacts DEF ReceiverInv
  <2> QED
    BY <2>1, <2>2, <2>3 DEF IsData
<1> HIDE DEF clean
<1>4. ASSUME NEW s \in Slots
      PROVE  Carries(r.slot[s], first, acc) /\ r.slot[s].data \in new
  <2>1. Timely(r.slot[s], acc, del, first, e, gap)
    BY <1>1, <1>3 DEF ReceiverInv
  <2>2. r.slot[s].data > del
    BY <1>2, <1>3 DEF Fresh
  <2> QED
    BY <1>1, <2>1, <2>2 DEF Timely, Carries
<1>5. \A s, t \in Slots : r.slot[s].data = r.slot[t].data => s = t
  BY <1>2, <1>3 DEF Fresh
<1> HIDE DEF new
<1>6. at \in Injection(Slots, new)
  <2>1. at \in [Slots -> new] /\ \A s, t \in Slots : at[s] = at[t] => s = t
    BY <1>4, <1>5
  <2> HIDE DEF at
  <2> QED
    BY <2>1 DEF Injection, IsInjective
<1>7. /\ IsFiniteSet(Slots) /\ Cardinality(Slots) = BufferSize
      /\ IsFiniteSet(new) /\ Cardinality(new) = IF del + 1 > acc THEN 0 ELSE acc - (del + 1) + 1
  <2>1. IsFiniteSet(Slots) /\ Cardinality(Slots) = BufferSize
    BY SlotsCount
  <2>2. del + 1 \in Int /\ acc \in Int
    BY <1>1
  <2>3. IsFiniteSet(new) /\ Cardinality(new) = IF del + 1 > acc THEN 0 ELSE acc - (del + 1) + 1
    BY <2>2, FS_Interval DEF new
  <2> QED
    BY <2>1, <2>3
<1>8. Cardinality(Slots) <= Cardinality(new)
  BY <1>6, <1>7, FS_Injection
<1>9. Cardinality(Slots) = Cardinality(new) /\ del + 1 <= acc
  BY <1>1, <1>7, <1>8
<1>10. at \in Surjection(Slots, new)
  BY <1>6, <1>7, <1>9, FS_Injection
<1>11. del + 1 \in new
  BY <1>1, <1>9 DEF new
<1>12. PICK s \in Slots : r.slot[s].data = del + 1
  <2>1. \E s \in Slots : at[s] = del + 1
    BY <1>10, <1>11 DEF Surjection
  <2> QED
    BY <2>1
<1>13. r.slot[s].index = NextIndex(r.last) /\ r.slot[s].state = "parsed"
  <2>1. r.slot[s].index = IndexOf(del + 1) /\ r.last = IndexOf(del)
    BY <1>1, <1>4, <1>12 DEF Carries, ReceiverInv
  <2> QED
    BY <1>1, <1>3, <2>1, IndexOfNext DEF IsData
<1>14. ASSUME NEW t \in 1 .. s - 1, r.slot[t].index = NextIndex(r.last)
       PROVE  FALSE
  <2>1. t \in Slots /\ t < s
    BY <1>1 DEF Slots
  <2>2. Valid(r, t) /\ Kept(r, s) /\ r.slot[t].index = r.slot[s].index
    BY <1>3, <1>13, <1>14, <2>1 DEF Kept
  <2> QED
    BY <2>2 DEF Kept
<1> QED
  BY <1>13, <1>14 DEF Poppable

-----------------------------------------------------------------------------
(* What Write does to the messages of its writer. *)

SameMessages(w, q) ==
  /\ q.started = w.started /\ q.current = w.current
  /\ \A s \in Slots : SameMessage(w.slot[s], q.slot[s])

LEMMA SetPendingKeeps ==
  ASSUME NEW w \in Writers, NEW chosen, NEW flag \in BOOLEAN
  PROVE  /\ SetPending(w, chosen, flag) \in Writers
         /\ SameMessages(w, SetPending(w, chosen, flag))
         /\ SetPending(w, chosen, flag).earliest = w.earliest
<1> DEFINE q == SetPending(w, chosen, flag)
<1>1. q \in Writers /\ q.started = w.started
  BY SetPendingFacts DEF KeepsSlots
<1>2. q.current = w.current /\ q.earliest = w.earliest
  BY DEF SetPending, Writers
<1>3. ASSUME NEW s \in Slots
      PROVE  SameMessage(w.slot[s], q.slot[s])
  <2>1. w.slot[s] \in TxSlots
    BY DEF Writers
  <2>2. q.slot[s] = IF w.slot[s].index \in chosen \ {0}
                      THEN [w.slot[s] EXCEPT !.pending = flag] ELSE w.slot[s]
    BY DEF SetPending, Writers
  <2> HIDE DEF q
  <2> QED
    BY <2>1, <2>2 DEF SameMessage, TxSlots
<1> QED
  BY <1>1, <1>2, <1>3 DEF SameMessages

(* The packets that an ack removes. *)
Removes(ack, i) ==
  /\ i # 0
  /\ \/ Confirms(ack) /\ i = ack.index
     \/ ack = StartAck /\ i = StartIndex

Emptied(y) == y.index = 0 /\ y.data = 0

(* The writer w without the packets with index i. *)
Without(w, i, q) ==
  /\ q.started = w.started /\ q.current = w.current
  /\ \A s \in Slots : IF w.slot[s].index = i THEN Emptied(q.slot[s])
                                             ELSE SameMessage(w.slot[s], q.slot[s])

LEMMA RemovePacketIs ==
  ASSUME NEW w \in Writers, NEW i \in Indices \ {0}
  PROVE  \E q \in Writers :
           /\ Without(w, i, q)
           /\ q.earliest = w.earliest
           /\ RemovePacket(w, i) \in {q, UpdateNextIndex(q)}
<1> DEFINE older == {j \in Indices : PrecedesIndex(j, i)}
           slots == [s \in Slots |-> IF w.slot[s].index = i THEN FreeTx ELSE w.slot[s]]
           kept == [w EXCEPT !.slot = slots]
           q == SetPending(kept, older, TRUE)
<1>1. CASE \E s \in Slots : Live(w, s) /\ w.slot[s].index = i
  <2>1. RemovePacket(w, i) = UpdateNextIndex(q)
    BY <1>1 DEF RemovePacket
  <2>2. slots \in [Slots -> TxSlots]
    BY TxSlotFacts DEF Writers
  <2>3. \A s \in Slots : slots[s] = IF w.slot[s].index = i THEN FreeTx ELSE w.slot[s]
    OBVIOUS
  <2> HIDE DEF slots
  <2>4. /\ kept \in Writers /\ kept.slot = slots /\ kept.started = w.started
        /\ kept.current = w.current /\ kept.earliest = w.earliest
    BY <2>2 DEF Writers
  <2> HIDE DEF kept, older
  <2>5. q \in Writers /\ SameMessages(kept, q) /\ q.earliest = kept.earliest
    BY <2>4, SetPendingKeeps
  <2> HIDE DEF q
  <2>6. FreeTx.index = 0 /\ FreeTx.data = 0
    BY DEF FreeTx
  <2>7. Without(w, i, q)
    BY <2>3, <2>4, <2>5, <2>6 DEF Without, SameMessages, SameMessage, Emptied
  <2> QED
    BY <2>1, <2>4, <2>5, <2>7
<1>2. CASE ~\E s \in Slots : Live(w, s) /\ w.slot[s].index = i
  <2>1. RemovePacket(w, i) = w
    BY <1>2 DEF RemovePacket
  <2>2. Without(w, i, w)
    BY <1>2 DEF Without, SameMessage, Live
  <2> QED
    BY <2>1, <2>2
<1> QED
  BY <1>1, <1>2

(* The writer w after HandleAck(ack), and what else Write does to it. *)
After(w, ack, q) ==
  /\ q \in Writers
  /\ q.started <=> (w.started \/ ack = StartAck)
  /\ q.current = w.current
  /\ \A s \in Slots : IF Removes(ack, w.slot[s].index)
                        THEN Emptied(q.slot[s]) ELSE SameMessage(w.slot[s], q.slot[s])

LEMMA HandleAckRemoves ==
  ASSUME NEW w \in Writers, NEW ack \in Acks
  PROVE  After(w, ack, HandleAck(w, ack))
<1> DEFINE q == HandleAck(w, ack)
<1>1. /\ q \in Writers
      /\ q.started <=> (w.started \/ ack = StartAck)
  BY HandleAckFacts DEF Follows, KeepsSlots
<1>2. ack.index \in 0 .. MaxIndex /\ ack.error \in BOOLEAN
  BY DEF Acks
<1>3. ack.index = 0 => ack = StartAck \/ ack = NoAck
  BY <1>2 DEF Acks, StartAck, NoAck
<1>4. w.started \in BOOLEAN /\ \A s \in Slots : SameMessage(w.slot[s], w.slot[s])
  BY DEF SameMessage, Writers
(* What RemovePacket leaves. *)
<1>5. ASSUME NEW i \in Indices \ {0}
      PROVE  Without(w, i, RemovePacket(w, i))
  <2>1. PICK v \in Writers : Without(w, i, v) /\ RemovePacket(w, i) \in {v, UpdateNextIndex(v)}
    BY <1>5, RemovePacketIs
  <2>2. CASE RemovePacket(w, i) = v
    BY <2>1, <2>2
  <2>3. CASE RemovePacket(w, i) = UpdateNextIndex(v)
    BY <2>1, <2>3, UpdateNextIndexFacts DEF Without
  <2> QED
    BY <2>1, <2>2, <2>3
<1>6. CASE ack.index # 0 /\ ack.error
  <2>1. ack # StartAck /\ ack # NoAck /\ ~Confirms(ack)
    BY <1>6 DEF StartAck, NoAck, Confirms
  <2>2. q = SetPending(w, {ack.index}, TRUE)
    BY <1>6, <2>1 DEF HandleAck, MarkResend
  <2>3. SameMessages(w, q)
    BY <2>2, SetPendingKeeps
  <2> QED
    BY <1>1, <2>1, <2>3 DEF After, SameMessages, Removes
<1>7. CASE ack.index # 0 /\ ~ack.error
  <2>1. q = RemovePacket(w, ack.index) /\ ack # StartAck /\ Confirms(ack)
    BY <1>7 DEF HandleAck, StartAck, NoAck, Confirms
  <2>2. ack.index \in Indices \ {0}
    BY <1>2, <1>7, IndexFacts DEF Indices, StartIndex
  <2>3. Without(w, ack.index, q)
    BY <1>5, <2>1, <2>2
  <2>4. \A s \in Slots : Removes(ack, w.slot[s].index) <=> w.slot[s].index = ack.index
    BY <1>7, <2>1 DEF Removes
  <2> HIDE DEF q
  <2> QED
    BY <1>1, <2>1, <2>3, <2>4 DEF After, Without, q
<1>8. CASE ack = StartAck
  <2> DEFINE v == RemovePacket(w, StartIndex)
  <2>1. q = [v EXCEPT !.started = TRUE, !.earliest = 1]
    BY <1>8, AckFacts DEF HandleAck, StartAck, NoAck, StartSequence
  <2>2. StartIndex \in Indices \ {0}
    BY IndexFacts DEF StartIndex
  <2>3. Without(w, StartIndex, v) /\ v \in Writers
    BY <1>5, <2>2, RemovePacketFacts DEF KeepsSlots
  <2> HIDE DEF v
  <2>4. q.current = w.current /\ q.slot = v.slot
    BY <2>1, <2>3 DEF Without, Writers
  <2>5. ~Confirms(ack)
    BY <1>8 DEF StartAck, Confirms
  <2> HIDE DEF q
  <2>6. \A s \in Slots : Removes(ack, w.slot[s].index) <=> w.slot[s].index = StartIndex
    BY <1>8, <2>2, <2>5 DEF Removes
  <2> QED
    BY <1>1, <2>3, <2>4, <2>6 DEF After, Without, q
<1>9. CASE ack = NoAck
  <2>1. q = w
    BY <1>9, AckFacts DEF HandleAck, StartAck, NoAck
  <2>2. \A s \in Slots : ~Removes(ack, w.slot[s].index)
    BY <1>9, AckFacts DEF Removes, Confirms, NoAck
  <2> QED
    BY <1>1, <1>4, <2>1, <2>2 DEF After
<1> QED
  BY <1>2, <1>3, <1>6, <1>7, <1>8, <1>9

LEMMA PreparedRemoves ==
  ASSUME NEW w \in Writers, NEW ack \in Acks, NEW timedOut \in BOOLEAN
  PROVE  After(w, ack, Prepared(w, ack, timedOut))
<1> DEFINE acked == HandleAck(w, ack)
           marked == IF timedOut THEN MarkAllResend(acked) ELSE acked
           q == UpdateNextIndex(marked)
<1>1. q = Prepared(w, ack, timedOut)
  BY DEF Prepared
<1>2. After(w, ack, acked) /\ acked \in Writers
  BY HandleAckRemoves DEF After
<1> HIDE DEF acked
<1>3. marked \in Writers /\ SameMessages(acked, marked)
  <2>1. CASE timedOut
    BY <1>2, <2>1, SetPendingKeeps DEF MarkAllResend
  <2>2. CASE ~timedOut
    BY <1>2, <2>2 DEF SameMessages, SameMessage
  <2> QED
    BY <2>1, <2>2
<1> HIDE DEF marked
<1>4. /\ q \in Writers /\ q.slot = marked.slot /\ q.started = marked.started
      /\ q.current = marked.current
  BY <1>3, UpdateNextIndexFacts
<1> HIDE DEF q
<1>5. After(w, ack, q)
  BY <1>2, <1>3, <1>4 DEF After, SameMessages, SameMessage, Emptied
<1> QED
  BY <1>1, <1>5

(***************************************************************************)
(* The scan of writer w begins with message e, and no older one is in its  *)
(* buffer.                                                                 *)
(***************************************************************************)
ScansFrom(w, acc, e) ==
  /\ e > 0 /\ e <= acc + 1 /\ acc < e + MaxIndex
  /\ \A s \in Slots : w.slot[s].index \in DataIndices =>
       w.slot[s].data \in e .. acc /\ w.slot[s].index = IndexOf(w.slot[s].data)
  /\ w.started =>
       /\ w.earliest = IndexOf(e)
       /\ \A s \in Slots : w.slot[s].index # StartIndex

LEMMA SameMessagesScan ==
  ASSUME NEW w, NEW q, NEW acc, NEW e, ScansFrom(w, acc, e),
         SameMessages(w, q), q.earliest = w.earliest
  PROVE  ScansFrom(q, acc, e)
BY DEF ScansFrom, SameMessages, SameMessage

(* The scan stops at the oldest message in the buffer.                     *)
LEMMA UpdateNextIndexScans ==
  ASSUME NEW w \in Writers, NEW acc \in Nat, NEW e \in Nat, ScansFrom(w, acc, e)
  PROVE  \E e2 \in Nat : e <= e2 /\ ScansFrom(UpdateNextIndex(w), acc, e2)
<1> DEFINE start == IF w.started THEN w.earliest ELSE StartIndex
           Met(k) == FirstLive(w, start, k)
           found == CHOOSE k \in 0 .. MaxGap - 1 : Met(k)
           next == IF \E k \in 0 .. MaxGap - 1 : Met(k) THEN Advance(start, found) ELSE start
           q == UpdateNextIndex(w)
<1>1. /\ q \in Writers /\ q.slot = w.slot /\ q.started = w.started /\ q.current = w.current
  BY UpdateNextIndexFacts
<1>2. q.earliest = next
  BY DEF UpdateNextIndex, Writers
<1>3. /\ MaxIndex \in Nat /\ MaxGap \in Nat /\ MaxGap < MaxIndex
      /\ \A k \in 0 .. MaxGap - 1 : k \in 0 .. MaxIndex /\ k \in Nat /\ k < MaxIndex
  BY IndexFacts
<1> SUFFICES \E e2 \in Nat : e <= e2 /\ ScansFrom(q, acc, e2)
  OBVIOUS
<1> HIDE DEF q
<1>4. CASE ~w.started
  BY <1>1, <1>4 DEF ScansFrom
<1>5. CASE w.started /\ ~\E k \in 0 .. MaxGap - 1 : Met(k)
  <2>1. next = w.earliest
    BY <1>5
  <2> HIDE DEF next
  <2> QED
    BY <1>1, <1>2, <2>1 DEF ScansFrom
<1>6. CASE w.started /\ \E k \in 0 .. MaxGap - 1 : Met(k)
  <2>1. start = IndexOf(e)
    BY <1>6 DEF ScansFrom
  <2>2. found \in 0 .. MaxGap - 1 /\ Met(found)
    BY <1>6
  <2>3. next = Advance(start, found)
    BY <1>6
  <2> HIDE DEF start, found, next
  <2>4. /\ \E s \in Slots : Live(w, s) /\ w.slot[s].index = Advance(start, found)
        /\ \A j \in 0 .. found - 1, s \in Slots :
             ~(Live(w, s) /\ w.slot[s].index = Advance(start, j))
    BY <2>2 DEF FirstLive
  <2>5. ASSUME NEW k \in 0 .. MaxGap - 1
        PROVE  Advance(start, k) = IndexOf(e + k)
    BY <1>3, <2>1, IndexOfAdvance
  <2>6. PICK s \in Slots : w.slot[s].index = IndexOf(e + found) /\ Live(w, s)
    BY <2>2, <2>4, <2>5
  <2>7. w.slot[s].index \in DataIndices
    <3>1. w.slot[s].index \in Indices
      BY DEF Writers, TxSlots
    <3> QED
      BY <1>6, <2>6, <3>1, IndexFacts DEF ScansFrom, Live
  <2>8. w.slot[s].data \in e .. acc /\ IndexOf(w.slot[s].data) = IndexOf(e + found)
    BY <2>6, <2>7 DEF ScansFrom
  <2>9. w.slot[s].data = e + found
    <3>1. /\ w.slot[s].data \in Nat /\ e + found \in Nat
          /\ w.slot[s].data < (e + found) + MaxIndex
          /\ e + found < w.slot[s].data + MaxIndex
      BY <1>3, <2>2, <2>8 DEF ScansFrom
    <3> QED
      BY <2>8, <3>1, IndexOfSame
  <2>10. ASSUME NEW t \in Slots, w.slot[t].index \in DataIndices
         PROVE  w.slot[t].data >= e + found
    <3>1. w.slot[t].data \in e .. acc /\ w.slot[t].index = IndexOf(w.slot[t].data)
      BY <2>10 DEF ScansFrom
    <3>2. ASSUME w.slot[t].data < e + found
          PROVE  FALSE
      <4> DEFINE j == w.slot[t].data - e
      <4>1. j \in 0 .. found - 1 /\ j \in 0 .. MaxGap - 1 /\ e + j = w.slot[t].data
        BY <2>2, <3>1, <3>2, <1>3
      <4> HIDE DEF j
      <4>2. w.slot[t].index = Advance(start, j)
        BY <2>5, <3>1, <4>1
      <4>3. Live(w, t)
        BY <2>10, IndexFacts DEF Live
      <4> QED
        BY <2>4, <4>1, <4>2, <4>3
    <3> QED
      BY <2>2, <3>1, <3>2
  <2>11. /\ e + found \in Nat /\ e <= e + found /\ e + found <= acc
    BY <2>2, <2>8, <2>9
  <2>12. next = IndexOf(e + found)
    BY <2>2, <2>3, <2>5
  <2>13. ScansFrom(q, acc, e + found)
    BY <1>1, <1>2, <1>3, <1>6, <2>10, <2>11, <2>12 DEF ScansFrom
  <2> QED
    BY <2>11, <2>13
<1> QED
  BY <1>4, <1>5, <1>6

(* An ack moves the window on; a start ack may put it back to the first    *)
(* message.                                                                *)
LEMMA HandleAckScans ==
  ASSUME NEW w \in Writers, NEW ack \in Acks, NEW acc \in Nat, NEW e \in Nat,
         ScansFrom(w, acc, e), ~w.started => acc = 0,
         ack = StartAck => acc <= MaxGap
  PROVE  \E e2 \in Nat : /\ e <= e2 \/ acc < e2 + MaxGap
                         /\ ScansFrom(HandleAck(w, ack), acc, e2)
<1> DEFINE q == HandleAck(w, ack)
<1>1. ack.index \in 0 .. MaxIndex /\ ack.error \in BOOLEAN
  BY DEF Acks
<1>2. ack.index = 0 => ack = StartAck \/ ack = NoAck
  BY <1>1 DEF Acks, StartAck, NoAck
<1>3. MaxIndex \in Nat /\ MaxGap \in Nat /\ MaxGap < MaxIndex
  BY IndexFacts
<1>4. CASE ack.index # 0 /\ ack.error
  <2>1. ack # StartAck /\ ack # NoAck
    BY <1>4 DEF StartAck, NoAck
  <2>2. q = SetPending(w, {ack.index}, TRUE)
    BY <1>4, <2>1 DEF HandleAck, MarkResend
  <2>3. ScansFrom(q, acc, e)
    BY <2>2, SetPendingKeeps, SameMessagesScan, ZenonT(60)
  <2> QED
    BY <2>3
<1>5. CASE ack.index # 0 /\ ~ack.error
  <2>1. q = RemovePacket(w, ack.index)
    BY <1>5 DEF HandleAck, StartAck, NoAck
  <2>2. ack.index \in Indices \ {0}
    BY <1>1, <1>5, IndexFacts DEF Indices, StartIndex
  <2>3. PICK v \in Writers : /\ Without(w, ack.index, v)
                             /\ v.earliest = w.earliest
                             /\ q \in {v, UpdateNextIndex(v)}
    BY <2>1, <2>2, RemovePacketIs
  <2>4. ScansFrom(v, acc, e)
    BY <2>3, IndexFacts DEF ScansFrom, Without, Emptied, SameMessage, DataIndices, StartIndex
  <2> HIDE DEF q
  <2> QED
    BY <2>3, <2>4, UpdateNextIndexScans DEF q
<1>6. CASE ack = StartAck
  <2> DEFINE v == RemovePacket(w, StartIndex)
  <2>1. q = [v EXCEPT !.started = TRUE, !.earliest = 1]
    BY <1>6, AckFacts DEF HandleAck, StartAck, NoAck, StartSequence
  <2>2. v \in Writers
    BY RemovePacketFacts, IndexFacts DEF KeepsSlots, StartIndex
  <2> HIDE DEF v
  <2>3. q.earliest = 1
    BY <2>1, <2>2 DEF Writers
  <2>4. /\ After(w, ack, q)
        /\ \A s \in Slots : q.slot[s].index # StartIndex
    BY <1>6, HandleAckRemoves, HandleAckFacts DEF Follows
  <2> HIDE DEF q
  <2>5. IndexOf(1) = 1
    <3>1. 0 \in Nat /\ 1 \in DataIndices /\ 0 * MaxIndex + 1 = 1
      BY <1>3 DEF DataIndices
    <3> QED
      BY <3>1, LapsIndexOf
  <2>6. ASSUME NEW s \in Slots, q.slot[s].index \in DataIndices
        PROVE  q.slot[s].data \in 1 .. acc /\ q.slot[s].index = IndexOf(q.slot[s].data)
    <3>1. SameMessage(w.slot[s], q.slot[s])
      BY <2>4, <2>6, IndexFacts DEF After, Emptied, DataIndices
    <3> QED
      BY <2>6, <3>1 DEF SameMessage, ScansFrom
  <2>7. ScansFrom(q, acc, 1)
    BY <1>3, <1>6, <2>3, <2>4, <2>5, <2>6 DEF ScansFrom
  <2>8. acc < 1 + MaxGap
    BY <1>3, <1>6
  <2> QED
    BY <2>7, <2>8 DEF q
<1>7. CASE ack = NoAck
  <2>1. q = w
    BY <1>7, AckFacts DEF HandleAck, StartAck, NoAck
  <2> QED
    BY <2>1
<1> QED
  BY <1>1, <1>2, <1>4, <1>5, <1>6, <1>7

LEMMA PreparedScans ==
  ASSUME NEW w \in Writers, NEW ack \in Acks, NEW timedOut \in BOOLEAN,
         NEW acc \in Nat, NEW e \in Nat,
         ScansFrom(w, acc, e), ~w.started => acc = 0,
         ack = StartAck => acc <= MaxGap
  PROVE  \E e2 \in Nat : /\ e <= e2 \/ acc < e2 + MaxGap
                         /\ ScansFrom(Prepared(w, ack, timedOut), acc, e2)
<1> DEFINE acked == HandleAck(w, ack)
           marked == IF timedOut THEN MarkAllResend(acked) ELSE acked
           q == UpdateNextIndex(marked)
<1>1. q = Prepared(w, ack, timedOut)
  BY DEF Prepared
<1>2. acked \in Writers
  BY HandleAckRemoves DEF After
<1>3. PICK e1 \in Nat : /\ e <= e1 \/ acc < e1 + MaxGap
                        /\ ScansFrom(acked, acc, e1)
  BY HandleAckScans
<1> HIDE DEF acked
<1>4. marked \in Writers /\ ScansFrom(marked, acc, e1)
  <2>1. CASE timedOut
    BY <1>2, <1>3, <2>1, SetPendingKeeps, SameMessagesScan DEF MarkAllResend
  <2>2. CASE ~timedOut
    BY <1>2, <1>3, <2>2
  <2> QED
    BY <2>1, <2>2
<1> HIDE DEF marked
<1>5. PICK e2 \in Nat : e1 <= e2 /\ ScansFrom(q, acc, e2)
  BY <1>4, UpdateNextIndexScans
<1> HIDE DEF q
<1>6. e <= e2 \/ acc < e2 + MaxGap
  BY <1>3, <1>5, IndexFacts
<1> QED
  BY <1>1, <1>5, <1>6

(* NextPacket looks no further than the window.                            *)
LEMMA NextPacketScans ==
  ASSUME NEW w \in Writers, NEW acc \in Nat, NEW e \in Nat, ScansFrom(w, acc, e),
         w.started, NEW s \in Slots, IsNextPacket(w, s), w.slot[s].index \in DataIndices
  PROVE  w.slot[s].data < e + MaxGap
<1>1. PICK k \in 0 .. MaxGap - 1 : w.slot[s].index = Advance(w.earliest, k)
  BY DEF IsNextPacket, IsPendingAt
<1>2. MaxIndex \in Nat /\ MaxGap \in Nat /\ MaxGap < MaxIndex /\ k \in 0 .. MaxIndex /\ k \in Nat
  BY IndexFacts
<1>3. w.slot[s].index = IndexOf(e + k)
  BY <1>1, <1>2, IndexOfAdvance DEF ScansFrom
<1>4. w.slot[s].data \in e .. acc /\ IndexOf(w.slot[s].data) = IndexOf(e + k)
  BY <1>3 DEF ScansFrom
<1>5. /\ w.slot[s].data \in Nat /\ e + k \in Nat
      /\ w.slot[s].data < (e + k) + MaxIndex /\ e + k < w.slot[s].data + MaxIndex
  BY <1>2, <1>4 DEF ScansFrom
<1>6. w.slot[s].data = e + k
  BY <1>4, <1>5, IndexOfSame
<1> QED
  BY <1>2, <1>6

-----------------------------------------------------------------------------
(* The steps of the link, and the direction they belong to.                *)

DirSound(d, first, e, gap) ==
  Sound(wr[d], chan[Peer(d)], rd[Peer(d)], accepted[d], delivered[Peer(d)], first, e, gap)

LEMMA DirSoundIs ==
  ASSUME TypeOK, NEW d \in Devices, NEW first \in Nat, NEW e \in Nat, e > 0, NEW gap, Fits(gap)
  PROVE  DirSound(d, first, e, gap) <=> Direction(d, first, e, gap)
BY PeerFacts DEF TypeOK, DirSound, Sound, Direction

(* What a reader r may become, q, with a packet f: the ack of the packet,  *)
(* and an ack for its message if that is not new.                          *)
Receives(r, f, q) ==
  /\ q \in Readers
  /\ r.started => q.started
  /\ q.outAck \in {r.outAck, NoAck, f.ack}
  /\ q.inAck = StartAck => r.inAck = StartAck \/ f.index = StartIndex
  /\ f.index = 0 => q.inAck \in {r.inAck, NoAck}
  /\ Confirms(q.inAck) =>
       \/ q.inAck = r.inAck
       \/ HasData(f) /\ q.inAck.index = f.index /\ ~InRange(r.last, f.index)

(* Without one it keeps its acks.                                          *)
Reads(r, c, q, b) ==
  \/ /\ b = c
     /\ q \in Readers
     /\ q.started = r.started /\ q.inAck = r.inAck /\ q.outAck = r.outAck
  \/ c # <<>> /\ b = Tail(c) /\ Receives(r, Head(c), q)

LEMMA TakeSlotKeepsSound ==
  ASSUME NEW w, NEW c, NEW r \in Readers, NEW acc, NEW del, NEW first, NEW e, NEW gap,
         Sound(w, c, r, acc, del, first, e, gap), NEW s \in Slots
  PROVE  Sound(w, c, TakeSlot(r, s), acc, del, first, e, gap)
<1> DEFINE clean == Cleanup(r)
           q == TakeSlot(r, s)
<1>1. clean \in Readers /\ q \in Readers
  BY CleanupFacts, TakeSlotFacts
<1>2. /\ clean.last = r.last
      /\ \A t \in Slots : clean.slot[t] \in {r.slot[t], FreeRx}
  BY DEF Cleanup, Readers
<1>3. Fresh(clean, del)
  BY CleansUp
<1>4. q = [clean EXCEPT !.slot[s] = BlankRx, !.current = s]
  BY DEF TakeSlot
<1> HIDE DEF clean, q
<1>5. /\ q.last = r.last
      /\ \A t \in Slots : q.slot[t] = IF t = s THEN BlankRx ELSE clean.slot[t]
  BY <1>1, <1>2, <1>4 DEF Readers
<1>6. ~IsData(BlankRx)
  BY RxSlotFacts DEF IsData
<1>7. Fresh(q, del)
  BY <1>3, <1>5, <1>6 DEF Fresh
<1>8. \A t \in Slots : q.slot[t] \in {r.slot[t], FreeRx, BlankRx, ErrorRx}
  BY <1>2, <1>5
<1>9. Sound(w, c, q, acc, del, first, e, gap)
  BY <1>1, <1>5, <1>7, <1>8, Forgets
<1> QED
  BY <1>9 DEF q

LEMMA CleanupKeepsSound ==
  ASSUME NEW w, NEW c, NEW r \in Readers, NEW acc, NEW del, NEW first, NEW e, NEW gap,
         Sound(w, c, r, acc, del, first, e, gap)
  PROVE  Sound(w, c, Cleanup(r), acc, del, first, e, gap)
<1> DEFINE q == Cleanup(r)
<1>1. q \in Readers
  BY CleanupFacts
<1>2. /\ q.last = r.last /\ q.current = r.current
      /\ \A t \in Slots : q.slot[t] \in {r.slot[t], FreeRx, BlankRx, ErrorRx}
  BY DEF Cleanup, Readers
<1> HIDE DEF q
<1>3. Sound(w, c, q, acc, del, first, e, gap)
  BY <1>1, <1>2, Forgets
<1> QED
  BY <1>3 DEF q

(* The packet at the head of the line arrives, but nothing is kept of it.  *)
LEMMA ArrivesInVain ==
  ASSUME NEW w, NEW c, NEW r, NEW acc, NEW del, NEW first, NEW e, NEW gap,
         Sound(w, c, r, acc, del, first, e, gap), c # <<>>,
         NEW q \in Readers, q.last = r.last, q.current \in {NoSlot, r.current},
         \A s \in Slots : q.slot[s] \in {r.slot[s], FreeRx, BlankRx, ErrorRx}
  PROVE  Sound(w, Tail(c), q, acc, del, first, e, gap)
<1>1. Sound(w, c, q, acc, del, first, e, gap)
  BY Forgets
<1> QED
  BY <1>1, LeavesLine

LEMMA ReadHeaderErrorReceives ==
  ASSUME NEW r \in Readers, r.current # NoSlot, NEW f \in Frames
  PROVE  LET q == ReadHeaderError(r)
         IN /\ Receives(r, f, q)
            /\ q.last = r.last /\ q.current = NoSlot
            /\ \A s \in Slots : q.slot[s] \in {r.slot[s], ErrorRx}
<1> DEFINE q == ReadHeaderError(r)
<1>1. q \in Readers
  BY ReadHeaderErrorFacts DEF Takes
<1>2. /\ q.last = r.last /\ q.current = NoSlot
      /\ q.inAck = r.inAck /\ q.outAck = r.outAck /\ q.started = r.started
      /\ \A s \in Slots : q.slot[s] \in {r.slot[s], ErrorRx}
  BY DEF ReadHeaderError, Close, Readers
<1> QED
  BY <1>1, <1>2 DEF Receives

LEMMA ReadStartReceives ==
  ASSUME NEW r \in Readers, NEW f \in Frames, f.index = StartIndex, NEW intact \in BOOLEAN
  PROVE  LET q == ReadStart(r, f, intact)
         IN /\ Receives(r, f, q)
            /\ q.last = 0 /\ q.current = NoSlot
            /\ \A s \in Slots : q.slot[s] = FreeRx
<1> DEFINE q == ReadStart(r, f, intact)
<1>1. q \in Readers
  BY ReadStartFacts DEF Takes
<1>2. /\ q.last = 0 /\ q.current = NoSlot /\ q.inAck = StartAck /\ q.started
      /\ q.outAck \in {NoAck, f.ack}
      /\ \A s \in Slots : q.slot[s] = FreeRx
  BY DEF ReadStart, Clear, Readers
<1>3. ~Confirms(StartAck) /\ f.index # 0
  BY IndexFacts DEF Confirms, StartAck, StartIndex
<1> QED
  BY <1>1, <1>2, <1>3 DEF Receives

LEMMA ReadNotStartedReceives ==
  ASSUME NEW r \in Readers, NEW f \in Frames, NEW intact \in BOOLEAN
  PROVE  LET q == ReadNotStarted(r, f, intact)
         IN /\ Receives(r, f, q)
            /\ q.last = 0 /\ q.current = NoSlot
            /\ \A s \in Slots : q.slot[s] = FreeRx
<1> DEFINE q == ReadNotStarted(r, f, intact)
<1>1. q \in Readers
  BY ReadNotStartedFacts DEF Takes
<1>2. /\ q.last = 0 /\ q.current = NoSlot /\ q.inAck = r.inAck /\ q.started = r.started
      /\ q.outAck \in {NoAck, f.ack}
      /\ \A s \in Slots : q.slot[s] = FreeRx
  BY DEF ReadNotStarted, Clear, Readers
<1> QED
  BY <1>1, <1>2 DEF Receives

LEMMA ReadDataErrorReceives ==
  ASSUME NEW r \in Readers, r.current # NoSlot, NEW f \in Frames, f.index # StartIndex
  PROVE  LET q == ReadDataError(r, f)
         IN /\ Receives(r, f, q)
            /\ q.last = r.last /\ q.current = NoSlot
            /\ \A s \in Slots : q.slot[s] \in {r.slot[s], ErrorRx}
<1> DEFINE q == ReadDataError(r, f)
<1>1. q \in Readers /\ (r.started => q.started)
  BY ReadDataErrorFacts DEF Takes
<1>2. /\ q.last = r.last /\ q.current = NoSlot
      /\ q.outAck = NoAck /\ q.inAck = IF f.index # 0 THEN ErrorAck(f.index) ELSE r.inAck
      /\ \A s \in Slots : q.slot[s] \in {r.slot[s], ErrorRx}
  BY DEF ReadDataError, Close, Readers
<1>3. ~Confirms(ErrorAck(f.index)) /\ (f.index # 0 => ErrorAck(f.index) # StartAck)
  BY DEF Confirms, ErrorAck, StartAck
<1> QED
  BY <1>1, <1>2, <1>3 DEF Receives

LEMMA ReadParsedReceives ==
  ASSUME NEW r \in Readers, r.current # NoSlot, NEW f \in Frames, f.index # StartIndex
  PROVE  LET q == ReadParsed(r, f)
         IN /\ Receives(r, f, q)
            /\ q.last = r.last /\ q.current = NoSlot
            /\ q.slot = [r.slot EXCEPT ![r.current] = ParsedRx(f)]
<1> DEFINE q == ReadParsed(r, f)
<1>1. q \in Readers /\ (r.started => q.started)
  BY ReadParsedFacts DEF Takes
<1>2. /\ q.last = r.last /\ q.current = NoSlot
      /\ q.outAck = f.ack
      /\ q.inAck = IF InRange(r.last, f.index) THEN r.inAck ELSE OkAck(f.index)
      /\ q.slot = [r.slot EXCEPT ![r.current] = ParsedRx(f)]
  BY DEF ReadParsed, Close, Readers
<1>3. /\ OkAck(f.index) # StartAck /\ OkAck(f.index).index = f.index
      /\ f.index = 0 => OkAck(f.index) = NoAck
  BY DEF OkAck, StartAck, NoAck
<1>4. Confirms(OkAck(f.index)) => HasData(f)
  BY IndexFacts DEF Confirms, OkAck, HasData, Frames
<1>5. f.index = 0 => q.inAck \in {r.inAck, NoAck}
  BY <1>2, <1>3
<1>6. Confirms(q.inAck) =>
        \/ q.inAck = r.inAck
        \/ HasData(f) /\ q.inAck.index = f.index /\ ~InRange(r.last, f.index)
  BY <1>2, <1>3, <1>4
<1> QED
  BY <1>1, <1>2, <1>3, <1>5, <1>6 DEF Receives

(* A device p that reads: its reader becomes q and the line to it b.       *)
ReadStep(p, q, b) ==
  /\ rd' = [rd EXCEPT ![p] = q]
  /\ chan' = [chan EXCEPT ![p] = b]
  /\ UNCHANGED <<wr, accepted, delivered>>
  /\ AcksFlushed(rd[p])
  /\ Reads(rd[p], chan[p], q, b)

KeepsDirection(d) ==
  \A first, e, gap : DirSound(d, first, e, gap) => DirSound(d, first, e, gap)'

LEMMA AnyReadStep ==
  ASSUME TypeOK, HandshakeInv, NEW p \in Devices, SoundRead(p) \/ FaultyRead(p)
  PROVE  /\ \E q, b : ReadStep(p, q, b)
         /\ KeepsDirection(Peer(p))
<1> DEFINE d == Peer(p)
           r == rd[p]
           c == chan[p]
           f == Head(c)
           Holds1(q, b) == \A w, acc, del, first, e, gap :
             Sound(w, c, r, acc, del, first, e, gap) => Sound(w, b, q, acc, del, first, e, gap)
<1>1. /\ d \in Devices /\ Peer(d) = p
      /\ r \in Readers /\ c \in Seq(Frames) /\ (c # <<>> => f \in Frames /\ f = c[1] /\ 1 \in 1 .. Len(c))
      /\ rd \in [Devices -> Readers] /\ chan \in [Devices -> Seq(Frames)]
  BY PeerFacts DEF TypeOK
<1>2. ASSUME NEW q, NEW b, ReadStep(p, q, b), Holds1(q, b)
      PROVE  /\ \E q1, b1 : ReadStep(p, q1, b1)
             /\ KeepsDirection(Peer(p))
  <2>1. rd'[p] = q /\ chan'[p] = b /\ wr' = wr /\ accepted' = accepted /\ delivered' = delivered
    BY <1>1, <1>2 DEF ReadStep
  <2> QED
    BY <1>1, <1>2, <2>1 DEF KeepsDirection, DirSound
<1>3. CanRead(p) /\ AcksFlushed(r)
  BY DEF SoundRead, FaultyRead, ReadFirstByte, ReadNoSpace, ReadOpening, ReadUnopened,
         ReadIntact, ReadGarbled, ReadResync, ReadCorrupted, ReadLastByte, CanRead
<1>4. c # <<>>
  BY <1>3 DEF CanRead
<1>5. ASSUME NEW q, ReadLastByte(p, q), Receives(r, f, q)
      PROVE  ReadStep(p, q, Tail(c)) /\ r.current # NoSlot
  BY <1>3, <1>4, <1>5 DEF ReadLastByte, ReadStep, Reads
(* Before the sequence opens nothing has been delivered. *)
<1>6. ASSUME f.index = StartIndex \/ ~r.started
      PROVE  r.last = 0
  <2>1. /\ wr[d].started => r.started
        /\ ~wr[d].started => ~HoldsData(p)
        /\ c[1].index = StartIndex => ~HoldsData(p)
    BY <1>1, <1>4 DEF HandshakeInv, StartAcksAreEarned, LineOpensThenSends
  <2> QED
    BY <1>1, <1>4, <1>6, <2>1 DEF HoldsData
<1> HIDE DEF d, r, c, f
<1>7. CASE ReadFirstByte(p)
  <2>1. PICK s \in Slots : rd' = [rd EXCEPT ![p] = TakeSlot(r, s)]
    BY <1>7 DEF ReadFirstByte, r
  <2> DEFINE q == TakeSlot(r, s)
  <2>2. Reads(r, c, q, c)
    BY <1>1, TakeSlotFacts DEF Reads
  <2>3. chan' = [chan EXCEPT ![p] = c] /\ UNCHANGED <<wr, accepted, delivered>>
    BY <1>1, <1>7 DEF ReadFirstByte, c
  <2>4. ReadStep(p, q, c)
    BY <1>3, <2>1, <2>2, <2>3 DEF ReadStep, r, c
  <2>5. Holds1(q, c)
    BY <1>1, TakeSlotKeepsSound
  <2> QED
    BY <1>2, <2>4, <2>5
<1>8. CASE ReadNoSpace(p)
  <2> DEFINE q == Cleanup(r)
  <2>1. rd' = [rd EXCEPT ![p] = q]
    BY <1>8 DEF ReadNoSpace, r
  <2>2. Reads(r, c, q, c)
    BY <1>1, CleanupFacts DEF Reads
  <2>3. chan' = [chan EXCEPT ![p] = c] /\ UNCHANGED <<wr, accepted, delivered>>
    BY <1>1, <1>8 DEF ReadNoSpace, c
  <2>4. ReadStep(p, q, c)
    BY <1>3, <2>1, <2>2, <2>3 DEF ReadStep, r, c
  <2>5. Holds1(q, c)
    BY <1>1, CleanupKeepsSound
  <2> QED
    BY <1>2, <2>4, <2>5
<1>9. ASSUME NEW q, ReadLastByte(p, q), Receives(r, f, q),
             q.last = r.last, q.current \in {NoSlot, r.current},
             \A s \in Slots : q.slot[s] \in {r.slot[s], FreeRx, BlankRx, ErrorRx}
      PROVE  /\ \E q1, b1 : ReadStep(p, q1, b1)
             /\ KeepsDirection(Peer(p))
  <2>1. ReadStep(p, q, Tail(c)) /\ q \in Readers
    BY <1>5, <1>9 DEF Receives
  <2>2. Holds1(q, Tail(c))
    BY <1>4, <1>9, <2>1, ArrivesInVain
  <2> QED
    BY <1>2, <2>1, <2>2
<1>10. ASSUME NEW intact \in BOOLEAN, ReadOpening(p, intact)
       PROVE  /\ \E q1, b1 : ReadStep(p, q1, b1)
              /\ KeepsDirection(Peer(p))
  <2> DEFINE q == ReadStart(r, f, intact)
  <2>1. ReadLastByte(p, q) /\ f.index = StartIndex
    BY <1>10 DEF ReadOpening, f, r, c
  <2>2. /\ Receives(r, f, q) /\ q.last = 0 /\ q.current = NoSlot
        /\ \A s \in Slots : q.slot[s] = FreeRx
    BY <1>1, <1>4, <2>1, ReadStartReceives
  <2> HIDE DEF q
  <2> QED
    BY <1>6, <1>9, <2>1, <2>2
<1>11. ASSUME NEW intact \in BOOLEAN, ReadUnopened(p, intact)
       PROVE  /\ \E q1, b1 : ReadStep(p, q1, b1)
              /\ KeepsDirection(Peer(p))
  <2> DEFINE q == ReadNotStarted(r, f, intact)
  <2>1. ReadLastByte(p, q) /\ ~r.started
    BY <1>11 DEF ReadUnopened, f, r, c
  <2>2. /\ Receives(r, f, q) /\ q.last = 0 /\ q.current = NoSlot
        /\ \A s \in Slots : q.slot[s] = FreeRx
    BY <1>1, <1>4, ReadNotStartedReceives
  <2> HIDE DEF q
  <2> QED
    BY <1>6, <1>9, <2>1, <2>2
<1>12. CASE ReadGarbled(p)
  <2> DEFINE q == ReadHeaderError(r)
  <2>1. ReadLastByte(p, q)
    BY <1>12 DEF ReadGarbled, r
  <2>2. r.current # NoSlot
    BY <2>1 DEF ReadLastByte, r
  <2>3. /\ Receives(r, f, q) /\ q.last = r.last /\ q.current = NoSlot
        /\ \A s \in Slots : q.slot[s] \in {r.slot[s], ErrorRx}
    BY <1>1, <1>4, <2>2, ReadHeaderErrorReceives
  <2> HIDE DEF q
  <2> QED
    BY <1>9, <2>1, <2>3
<1>13. CASE ReadResync(p)
  <2>1. ReadLastByte(p, r)
    BY <1>13 DEF ReadResync, r
  <2>2. Receives(r, f, r)
    BY <1>1 DEF Receives
  <2> QED
    BY <1>9, <2>1, <2>2
<1>14. CASE ReadCorrupted(p)
  <2> DEFINE q == ReadDataError(r, f)
  <2>1. ReadLastByte(p, q) /\ f.index # StartIndex
    BY <1>14 DEF ReadCorrupted, f, r, c
  <2>2. r.current # NoSlot
    BY <2>1 DEF ReadLastByte, r
  <2>3. /\ Receives(r, f, q) /\ q.last = r.last /\ q.current = NoSlot
        /\ \A s \in Slots : q.slot[s] \in {r.slot[s], ErrorRx}
    BY <1>1, <1>4, <2>1, <2>2, ReadDataErrorReceives
  <2> HIDE DEF q
  <2> QED
    BY <1>9, <2>1, <2>3
<1>15. CASE ReadIntact(p)
  <2> DEFINE q == ReadParsed(r, f)
  <2>1. ReadLastByte(p, q) /\ f.index # StartIndex
    BY <1>15 DEF ReadIntact, f, r, c
  <2>2. r.current # NoSlot
    BY <2>1 DEF ReadLastByte, r
  <2>3. /\ Receives(r, f, q) /\ q.last = r.last /\ q.current = NoSlot
        /\ q.slot = [r.slot EXCEPT ![r.current] = ParsedRx(f)]
    BY <1>1, <1>4, <2>1, <2>2, ReadParsedReceives
  <2> HIDE DEF q
  <2>4. ReadStep(p, q, Tail(c)) /\ q \in Readers
    BY <1>5, <2>1, <2>3 DEF Receives
  <2>5. Holds1(q, Tail(c))
    BY <1>4, <2>1, <2>2, <2>3, <2>4, Arrives DEF f
  <2> QED
    BY <1>2, <2>4, <2>5
<1>16. TRUE \in BOOLEAN /\ FALSE \in BOOLEAN
  OBVIOUS
<1> QED
  BY <1>7, <1>8, <1>10, <1>11, <1>12, <1>13, <1>14, <1>15, <1>16 DEF SoundRead, FaultyRead

(* Only the acks of a reader change. *)
LEMMA SameReader ==
  ASSUME NEW w, NEW c, NEW r \in Readers, NEW acc, NEW del, NEW first, NEW e, NEW gap,
         Sound(w, c, r, acc, del, first, e, gap),
         NEW q \in Readers, q.slot = r.slot, q.last = r.last, q.current = r.current
  PROVE  Sound(w, c, q, acc, del, first, e, gap)
BY Forgets

(* A device p that takes a message from its reader: the next, no other.    *)
LEMMA ReceiveTakes ==
  ASSUME TypeOK, NEW p \in Devices, Receive(p),
         NEW first, NEW e, NEW gap, DirSound(Peer(p), first, e, gap)
  PROVE  /\ DirSound(Peer(p), first, e, gap)'
         /\ \E q \in Readers :
              /\ rd' = [rd EXCEPT ![p] = q]
              /\ q.inAck = OkAck(IndexOf(delivered[p] + 1))
              /\ q.outAck = rd[p].outAck /\ q.started = rd[p].started
         /\ delivered' = [delivered EXCEPT ![p] = delivered[p] + 1]
         /\ delivered[p] + 1 <= accepted[Peer(p)]
         /\ UNCHANGED <<wr, chan, accepted>>
<1> DEFINE d == Peer(p)
           r == rd[p]
<1>1. d \in Devices /\ Peer(d) = p /\ r \in Readers
  BY PeerFacts DEF TypeOK
<1>2. PICK s \in Slots :
        /\ Poppable(r, s)
        /\ rd' = [rd EXCEPT ![p] = PopPacket(r, s)]
        /\ delivered' = [delivered EXCEPT ![p] = r.slot[s].data]
  BY DEF Receive
<1>3. UNCHANGED <<wr, chan, accepted>>
  BY DEF Receive
<1> DEFINE q == PopPacket(r, s)
<1>4. Sound(wr[d], chan[p], r, accepted[d], delivered[p], first, e, gap)
  BY <1>1 DEF DirSound
<1> HIDE DEF d, r
<1>5. /\ r.slot[s].data = delivered[p] + 1
      /\ r.slot[s].index = IndexOf(delivered[p] + 1)
      /\ delivered[p] + 1 <= accepted[d]
  BY <1>2, <1>4, PopsNext
<1>6. Sound(wr[d], chan[p], q, accepted[d], delivered[p] + 1, first, e, gap)
  BY <1>2, <1>4, Pops
<1>7. /\ q \in Readers
      /\ q.inAck = OkAck(IndexOf(delivered[p] + 1))
      /\ q.outAck = r.outAck /\ q.started = r.started
  <2>1. q \in Readers
    BY <1>1, <1>2, PopPacketFacts DEF Keeps
  <2> QED
    BY <1>1, <1>5, <2>1 DEF PopPacket, Readers
<1> HIDE DEF q
<1>8. rd'[p] = q /\ delivered'[p] = delivered[p] + 1
  BY <1>2, <1>5 DEF TypeOK, q
<1>9. DirSound(d, first, e, gap)'
  BY <1>1, <1>3, <1>6, <1>8 DEF DirSound
<1> QED
  BY <1>2, <1>3, <1>5, <1>7, <1>9 DEF d, r, q

(* A device d that adds a message. *)
LEMMA TransmitAdds ==
  ASSUME TypeOK, NEW d \in Devices, Transmit(d),
         NEW first, NEW e, NEW gap, DirSound(d, first, e, gap)
  PROVE  /\ DirSound(d, first, e, gap)'
         /\ accepted' = [accepted EXCEPT ![d] = accepted[d] + 1]
         /\ accepted[d] < Sends[d]
         /\ UNCHANGED <<rd, chan, delivered>>
         /\ \E q \in Writers, s \in Slots :
              /\ wr' = [wr EXCEPT ![d] = q]
              /\ q.earliest = wr[d].earliest /\ q.started /\ wr[d].started
              /\ wr[d].slot[s] = FreeTx
              /\ \A t \in Slots : q.slot[t].data =
                   IF t = s THEN accepted[d] + 1 ELSE wr[d].slot[t].data
              /\ \A t \in Slots : q.slot[t].ack \in {NoAck, wr[d].slot[t].ack}
<1> DEFINE p == Peer(d)
           w == wr[d]
           n == accepted[d] + 1
<1>1. p \in Devices /\ p # d /\ w \in Writers /\ n \in Nat
  BY PeerFacts DEF TypeOK
<1>2. PICK s \in Slots :
        /\ w.slot[s] = FreeTx
        /\ wr' = [wr EXCEPT ![d] = AddToOutgoingQueue(w, s, n)]
  BY DEF Transmit, FirstFree
<1>3. /\ UNCHANGED <<rd, chan, delivered>> /\ w.started /\ accepted[d] < Sends[d]
      /\ accepted' = [accepted EXCEPT ![d] = n]
  BY DEF Transmit
<1>4. Sound(w, chan[p], rd[p], accepted[d], delivered[p], first, e, gap)
  BY DEF DirSound
<1> DEFINE q == AddToOutgoingQueue(w, s, n)
<1>5. /\ Sound(q, chan[p], rd[p], n, delivered[p], first, e, gap)
      /\ q.earliest = w.earliest
      /\ \A t \in Slots : q.slot[t].data = IF t = s THEN n ELSE w.slot[t].data
  BY <1>2, <1>3, <1>4, Adds
<1>6. /\ q \in Writers /\ q.started = w.started
      /\ \A t \in Slots : q.slot[t].ack \in {NoAck, w.slot[t].ack}
  BY <1>1, AddFacts
<1> HIDE DEF q
<1>7. wr'[d] = q /\ accepted'[d] = n
  BY <1>2, <1>3 DEF TypeOK, q
<1>8. DirSound(d, first, e, gap)'
  BY <1>3, <1>5, <1>7 DEF DirSound
<1> QED
  BY <1>2, <1>3, <1>5, <1>6, <1>8 DEF q

(* A device d that writes: w is its writer when it calls NextPacket, and   *)
(* the packet f, one of a message of w or only an ack, is sent or lost.    *)
WriteEffect(d, w, q, r, f) ==
  /\ WriteStep(d, w, q, r, f)
  /\ After(wr[d], rd[d].outAck, w)
  /\ SameMessages(w, q)
  /\ q.earliest = w.earliest
  /\ r.current = rd[d].current
  /\ \/ f = AckOnly(rd[d].inAck) /\ q = w /\ r.inAck = NoAck
     \/ \E s \in Slots : IsNextPacket(w, s) /\ SameMessage(w.slot[s], f)
  /\ UNCHANGED <<accepted, delivered>>

LEMMA SentKeeps ==
  ASSUME NEW w \in Writers, NEW s \in Slots, NEW ack \in Acks
  PROVE  LET full == IncludeAck(w, s, ack)
             q == MarkSent(full, w.slot[s].index)
         IN /\ SameMessage(w.slot[s], FrameOf(full, s))
            /\ SameMessages(w, q)
            /\ q.earliest = w.earliest
<1> DEFINE full == IncludeAck(w, s, ack)
           q == MarkSent(full, w.slot[s].index)
           x == [w.slot[s] EXCEPT !.ack = ack]
           slots == [w.slot EXCEPT ![s] = x]
<1>1. /\ x \in TxSlots /\ SameMessage(w.slot[s], x)
  BY DEF Writers, TxSlots, SameMessage
<1>2. full = w \/ full = [w EXCEPT !.slot = slots]
  BY DEF IncludeAck, Writers, TxSlots
<1> HIDE DEF x, full
<1>3. full \in Writers /\ SameMessages(w, full) /\ full.earliest = w.earliest
  <2>1. CASE full = w
    BY <2>1 DEF SameMessages, SameMessage
  <2>2. CASE full = [w EXCEPT !.slot = slots]
    <3>1. /\ slots \in [Slots -> TxSlots]
          /\ \A t \in Slots : SameMessage(w.slot[t], slots[t])
      BY <1>1 DEF Writers, SameMessage
    <3> HIDE DEF slots
    <3>2. /\ full \in Writers /\ full.slot = slots /\ full.started = w.started
          /\ full.current = w.current /\ full.earliest = w.earliest
      BY <2>2, <3>1 DEF Writers
    <3> QED
      BY <3>1, <3>2 DEF SameMessages
  <2> QED
    BY <1>2, <2>1, <2>2
<1>4. SameMessage(w.slot[s], FrameOf(full, s))
  BY <1>3 DEF SameMessages, SameMessage, FrameOf
<1>5. SameMessages(full, q) /\ q.earliest = full.earliest
  BY <1>3, SetPendingKeeps DEF MarkSent
<1> HIDE DEF q
<1>6. SameMessages(w, q) /\ q.earliest = w.earliest
  BY <1>3, <1>5 DEF SameMessages, SameMessage
<1> QED
  BY <1>4, <1>6 DEF full, q

LEMMA PopAckKeeps ==
  ASSUME NEW r \in Readers
  PROVE  /\ PopOutAck(r).current = r.current /\ PopBothAcks(r).current = r.current
         /\ PopOutAck(r).inAck = r.inAck /\ PopBothAcks(r).inAck = NoAck
BY DEF PopOutAck, PopBothAcks, Readers

LEMMA AnyWriteEffect ==
  ASSUME TypeOK, NEW d \in Devices, NEW timedOut \in BOOLEAN, Write(d, timedOut)
  PROVE  \E q, r, f : WriteEffect(d, Prepared(wr[d], rd[d].outAck, timedOut), q, r, f)
<1> DEFINE w == Prepared(wr[d], rd[d].outAck, timedOut)
           in == rd[d].inAck
<1>1. wr[d] \in Writers /\ rd[d] \in Readers /\ in \in Acks
  BY DEF TypeOK, Readers
<1>2. Follows(wr[d], rd[d].outAck, w) /\ After(wr[d], rd[d].outAck, w)
  BY <1>1, PreparedFacts, PreparedRemoves DEF Readers
<1>3. WritePacket(d, w) \/ WriteAckOnly(d, w) \/ WriteNothing(d, w)
  BY DEF Write
<1> HIDE DEF w, in
<1> SUFFICES \E q, r, f : WriteEffect(d, w, q, r, f)
  BY DEF w
<1>4. w \in Writers /\ SameMessages(w, w)
  BY <1>2 DEF Follows, KeepsSlots, SameMessages, SameMessage
<1>5. AckOnly(in) \in Frames /\ AckOnly(in).index = 0 /\ AckOnly(in).ack = in
  BY <1>1, IndexFacts DEF AckOnly, Frames, Indices, StartIndex
<1>6. CASE WritePacket(d, w)
  <2>1. PICK s \in Slots :
          LET full == IncludeAck(w, s, in)
          IN /\ IsNextPacket(w, s)
             /\ Send(d, FrameOf(full, s))
             /\ wr' = [wr EXCEPT ![d] = MarkSent(full, w.slot[s].index)]
             /\ rd' = [rd EXCEPT ![d] =
                        IF TakesAck(w, s) THEN PopBothAcks(rd[d]) ELSE PopOutAck(rd[d])]
    BY <1>6 DEF WritePacket, in
  <2>2. UNCHANGED <<accepted, delivered>>
    BY <1>6 DEF WritePacket
  <2> DEFINE full == IncludeAck(w, s, in)
             f == FrameOf(full, s)
             q == MarkSent(full, w.slot[s].index)
             r == IF TakesAck(w, s) THEN PopBothAcks(rd[d]) ELSE PopOutAck(rd[d])
  <2>3. /\ f \in Frames
        /\ f.index = w.slot[s].index
        /\ f.ack \in {w.slot[s].ack, in}
        /\ q \in Writers
        /\ q.started = w.started
        /\ \A t \in Slots : /\ q.slot[t].index \in {0, w.slot[t].index}
                           /\ q.slot[t].ack \in {NoAck, w.slot[t].ack, in}
    BY <1>1, <1>4, SentFacts
  <2>4. SameMessage(w.slot[s], f) /\ SameMessages(w, q) /\ q.earliest = w.earliest
    BY <1>1, <1>4, SentKeeps
  <2>5. r \in {PopOutAck(rd[d]), PopBothAcks(rd[d])}
    OBVIOUS
  <2>6. /\ Send(d, f)
        /\ wr' = [wr EXCEPT ![d] = q]
        /\ rd' = [rd EXCEPT ![d] = r]
    BY <2>1
  <2> HIDE DEF full, f, q, r
  <2>7. chan' \in {chan, [chan EXCEPT ![Peer(d)] = Append(@, f)]}
    <3>1. Peer(d) \in Devices /\ chan \in [Devices -> Seq(Frames)]
      BY PeerFacts DEF TypeOK
    <3> QED
      BY <2>6, <3>1 DEF Send
  <2>8. WriteStep(d, w, q, r, f)
    BY <1>1, <1>2, <2>3, <2>5, <2>6, <2>7, PopAckFacts DEF WriteStep, in
  <2>9. r.current = rd[d].current
    BY <1>1, <2>5, PopAckKeeps
  <2> QED
    BY <1>2, <2>1, <2>2, <2>4, <2>8, <2>9 DEF WriteEffect
<1>7. CASE WriteAckOnly(d, w)
  <2>1. chan' \in {chan, [chan EXCEPT ![Peer(d)] = Append(@, AckOnly(in))]}
    <3>1. Peer(d) \in Devices /\ chan \in [Devices -> Seq(Frames)]
      BY PeerFacts DEF TypeOK
    <3>2. Send(d, AckOnly(in))
      BY <1>7 DEF WriteAckOnly, in
    <3> QED
      BY <3>1, <3>2 DEF Send
  <2>2. /\ wr' = [wr EXCEPT ![d] = w] /\ rd' = [rd EXCEPT ![d] = PopBothAcks(rd[d])]
        /\ UNCHANGED <<accepted, delivered>>
    BY <1>7 DEF WriteAckOnly
  <2>3. WriteStep(d, w, w, PopBothAcks(rd[d]), AckOnly(in))
    BY <1>1, <1>2, <1>4, <1>5, <2>1, <2>2, PopAckFacts DEF WriteStep, in
  <2> QED
    BY <1>1, <1>2, <1>4, <2>2, <2>3, PopAckKeeps DEF WriteEffect, in
<1>8. CASE WriteNothing(d, w)
  <2>1. /\ chan' = chan /\ in = NoAck
        /\ wr' = [wr EXCEPT ![d] = w]
        /\ rd' = [rd EXCEPT ![d] = PopOutAck(rd[d])]
        /\ UNCHANGED <<accepted, delivered>>
    BY <1>8 DEF WriteNothing, in
  <2>2. WriteStep(d, w, w, PopOutAck(rd[d]), AckOnly(in))
    BY <1>1, <1>2, <1>4, <1>5, <2>1, PopAckFacts DEF WriteStep, in
  <2> QED
    BY <1>1, <1>2, <1>4, <2>1, <2>2, PopAckKeeps DEF WriteEffect, in
<1> QED
  BY <1>3, <1>6, <1>7, <1>8

(* The direction of the writer, whose window begins with message e2 then,  *)
(* if the ack it has handled was of delivered messages only.               *)
LEMMA WriteKeepsSound ==
  ASSUME TypeOK, NEW d \in Devices, NEW w, NEW q, NEW r, NEW f, WriteEffect(d, w, q, r, f),
         NEW first, NEW e, NEW gap, DirSound(d, first, e, gap),
         \A s \in Slots : Removes(rd[d].outAck, wr[d].slot[s].index)
                            => wr[d].slot[s].data <= delivered[Peer(d)],
         NEW e2 \in Nat, e2 > 0, e2 <= accepted[d] + 1,
         e <= e2 \/ accepted[d] < e2 + gap,
         \A s \in Slots : w.slot[s].index \in DataIndices =>
           /\ w.slot[s].data >= e2
           /\ IsNextPacket(w, s) => w.slot[s].data < e2 + gap
  PROVE  DirSound(d, first, e2, gap)'
<1> DEFINE p == Peer(d)
           v == wr[d]
           acc == accepted[d]
           del == delivered[p]
<1>1. p \in Devices /\ p # d /\ Peer(p) = d /\ v \in Writers
  BY PeerFacts DEF TypeOK
<1>2. /\ wr'[d] = q /\ rd'[p] = rd[p] /\ accepted' = accepted /\ delivered' = delivered
      /\ chan'[p] \in {chan[p], Append(chan[p], f)}
      /\ q \in Writers /\ f \in Frames /\ (f.index = 0 \/ \E s \in Slots : IsNextPacket(w, s) /\ SameMessage(w.slot[s], f))
  BY <1>1, AckFacts DEF WriteEffect, WriteStep, TypeOK, AckOnly
<1>3. Sound(v, chan[p], rd[p], acc, del, first, e, gap)
  BY DEF DirSound
<1>4. /\ q.current = v.current
      /\ v.started => q.started
  BY DEF WriteEffect, After, SameMessages
<1>5. ASSUME NEW s \in Slots
      PROVE  \/ SameMessage(v.slot[s], q.slot[s])
             \/ NoMessage(q.slot[s]) /\ v.slot[s].data <= del
  BY IndexFacts DEF WriteEffect, After, SameMessages, SameMessage, NoMessage, Emptied, DataIndices
<1>6. ~q.started => acc = 0
  BY <1>3, <1>4 DEF Sound, DirectionInv, SenderInv
<1>7. \A s \in Slots : q.slot[s].index \in DataIndices => q.slot[s].data >= e2
  BY DEF WriteEffect, SameMessages, SameMessage
<1>8. HasData(f) => \E s \in Slots : SameMessage(q.slot[s], f) /\ f.data < e2 + gap
  BY <1>2, IndexFacts DEF WriteEffect, SameMessages, SameMessage, HasData, DataIndices
<1> HIDE DEF p, v, acc, del
<1>9. Sound(q, chan[p], rd[p], acc, del, first, e2, gap)
  BY <1>2, <1>3, <1>4, <1>5, <1>6, <1>7, WriterBecomes DEF acc
<1>10. Sound(q, Append(chan[p], f), rd[p], acc, del, first, e2, gap)
  BY <1>2, <1>8, <1>9, EntersLine
<1> QED
  BY <1>2, <1>9, <1>10 DEF DirSound, p, acc, del

(* Everything but a Write of the sender leaves the window where it is.     *)
StaysOpen(d) ==
  wr'[d].earliest = wr[d].earliest /\ wr'[d].started = wr[d].started

LEMMA ReadKeepsDirection ==
  ASSUME TypeOK, HandshakeInv, NEW a \in Devices, SoundRead(a) \/ FaultyRead(a), NEW d \in Devices
  PROVE  KeepsDirection(d) /\ StaysOpen(d)
<1>1. PICK q, b : ReadStep(a, q, b)
  BY AnyReadStep
<1>2. StaysOpen(d)
  BY <1>1 DEF ReadStep, StaysOpen
<1>3. CASE d = Peer(a)
  BY <1>2, <1>3, AnyReadStep
<1>4. CASE d = a
  BY <1>1, <1>2, <1>4, PeerFacts DEF ReadStep, KeepsDirection, DirSound, TypeOK
<1> QED
  BY <1>3, <1>4, PeerFacts

LEMMA ReceiveKeepsDirection ==
  ASSUME TypeOK, NEW a \in Devices, Receive(a), NEW d \in Devices
  PROVE  KeepsDirection(d) /\ StaysOpen(d)
<1>1. StaysOpen(d)
  BY DEF Receive, StaysOpen
<1>2. CASE d = Peer(a)
  BY <1>1, <1>2, ReceiveTakes DEF KeepsDirection
<1>3. CASE d = a
  <2>1. PICK q, n : /\ rd' = [rd EXCEPT ![a] = q] /\ delivered' = [delivered EXCEPT ![a] = n]
                    /\ UNCHANGED <<wr, chan, accepted>>
    BY DEF Receive
  <2> QED
    BY <1>1, <1>3, <2>1, PeerFacts DEF KeepsDirection, DirSound, TypeOK
<1> QED
  BY <1>2, <1>3, PeerFacts

LEMMA TransmitKeepsDirection ==
  ASSUME TypeOK, NEW a \in Devices, Transmit(a), NEW d \in Devices
  PROVE  KeepsDirection(d) /\ StaysOpen(d)
<1>1. PICK s \in Slots : wr' = [wr EXCEPT ![a] = AddToOutgoingQueue(wr[a], s, accepted[a] + 1)]
  BY DEF Transmit
<1>2. /\ accepted' = [accepted EXCEPT ![a] = accepted[a] + 1]
      /\ UNCHANGED <<rd, chan, delivered>>
  BY DEF Transmit
<1>3. StaysOpen(d)
  BY <1>1 DEF AddToOutgoingQueue, StaysOpen, TypeOK, Writers
<1>4. CASE d = a
  BY <1>3, <1>4, TransmitAdds DEF KeepsDirection
<1>5. CASE d = Peer(a)
  <2>1. wr'[d] = wr[d] /\ accepted'[d] = accepted[d]
    BY <1>1, <1>2, <1>5, PeerFacts DEF TypeOK
  <2> QED
    BY <1>2, <1>3, <2>1 DEF KeepsDirection, DirSound
<1> QED
  BY <1>4, <1>5, PeerFacts

LEMMA WriteKeepsDirection ==
  ASSUME TypeOK, NEW a \in Devices, NEW timedOut \in BOOLEAN, Write(a, timedOut)
  PROVE  KeepsDirection(Peer(a)) /\ StaysOpen(Peer(a))
<1> DEFINE d == Peer(a)
<1>1. PICK w, q, r, f : WriteEffect(a, w, q, r, f)
  BY AnyWriteEffect
<1>2. /\ Peer(a) \in Devices /\ Peer(a) # a /\ Peer(d) = a
      /\ rd[a] \in Readers /\ r \in Readers
  BY <1>1, PeerFacts DEF TypeOK, WriteEffect, WriteStep
<1>3. /\ wr'[d] = wr[d] /\ chan'[a] = chan[a] /\ rd'[a] = r
      /\ accepted' = accepted /\ delivered' = delivered
      /\ r.slot = rd[a].slot /\ r.last = rd[a].last /\ r.current = rd[a].current
  BY <1>1, <1>2 DEF WriteEffect, WriteStep, TypeOK
<1> HIDE DEF d
<1>4. ASSUME NEW first, NEW e, NEW gap, DirSound(d, first, e, gap)
      PROVE  DirSound(d, first, e, gap)'
  <2>1. Sound(wr[d], chan[a], rd[a], accepted[d], delivered[a], first, e, gap)
    BY <1>2, <1>4 DEF DirSound
  <2>2. Sound(wr[d], chan[a], r, accepted[d], delivered[a], first, e, gap)
    BY <1>2, <1>3, <2>1, SameReader
  <2> QED
    BY <1>2, <1>3, <2>2 DEF DirSound
<1> QED
  BY <1>3, <1>4 DEF KeepsDirection, StaysOpen, d

LEMMA StepKeepsDirection ==
  ASSUME TypeOK, HandshakeInv, [Next]_vars, NEW d \in Devices,
         \A timedOut \in BOOLEAN : ~Write(d, timedOut)
  PROVE  KeepsDirection(d) /\ StaysOpen(d)
<1>1. CASE UNCHANGED <<rd, wr, chan, accepted, delivered>>
  BY <1>1 DEF KeepsDirection, DirSound, StaysOpen
<1>2. ASSUME NEW a \in Devices, Tick(a) \/ Program(a)
      PROVE  KeepsDirection(d) /\ StaysOpen(d)
  <2>1. CASE SoundRead(a) \/ FaultyRead(a)
    BY <2>1, ReadKeepsDirection
  <2>2. ASSUME NEW timedOut \in BOOLEAN, Write(a, timedOut)
        PROVE  KeepsDirection(d) /\ StaysOpen(d)
    BY <2>2, WriteKeepsDirection, PeerFacts
  <2>3. CASE Receive(a)
    BY <2>3, ReceiveKeepsDirection
  <2>4. CASE ReceiveNothing(a)
    BY <1>1, <2>4 DEF ReceiveNothing
  <2>5. CASE Transmit(a)
    BY <2>5, TransmitKeepsDirection
  <2> QED
    BY <1>2, <2>1, <2>2, <2>3, <2>4, <2>5 DEF Tick, Program
<1> QED
  BY <1>1, <1>2 DEF Next, vars

-----------------------------------------------------------------------------
(* Of any number of messages. *)

LEMMA ScansIs ==
  ASSUME TypeOK, NEW d \in Devices, NEW e \in Nat, e > 0
  PROVE  Scans(d, e) <=> /\ wr[d].started => wr[d].earliest = IndexOf(e)
                         /\ DirSound(d, 0, e, MaxGap)
BY GapsFit, DirSoundIs DEF Scans

(* An ack that is true, or starts the sequence, removes nothing that was   *)
(* not delivered.                                                          *)
LEMMA TrueAckRemoves ==
  ASSUME TypeOK, AcksAreTrue, NEW d \in Devices,
         NEW first, NEW e, NEW gap, DirSound(d, first, e, gap),
         NEW s \in Slots, Removes(rd[d].outAck, wr[d].slot[s].index)
  PROVE  wr[d].slot[s].data <= delivered[Peer(d)]
<1>1. delivered[Peer(d)] \in Nat
  BY PeerFacts DEF TypeOK
<1>2. CASE Confirms(rd[d].outAck) /\ wr[d].slot[s].index = rd[d].outAck.index
  BY <1>2 DEF AcksAreTrue, AcksInTransit, Confirms
<1>3. CASE wr[d].slot[s].index = StartIndex
  BY <1>1, <1>3, IndexFacts DEF DirSound, Sound, DirectionInv, SenderInv
<1> QED
  BY <1>2, <1>3 DEF Removes

LEMMA WriteKeepsScan ==
  ASSUME TypeOK, TypeOK', HandshakeInv, AcksAreTrue, StartAcksAreEarly,
         NEW d \in Devices, NEW timedOut \in BOOLEAN, Write(d, timedOut),
         NEW e \in Nat, e > 0, Scans(d, e)
  PROVE  \E e2 \in Nat : e2 > 0 /\ Scans(d, e2)'
<1> DEFINE v == wr[d]
           acc == accepted[d]
           del == delivered[Peer(d)]
           ack == rd[d].outAck
           w == Prepared(v, ack, timedOut)
<1>1. /\ v \in Writers /\ acc \in Nat /\ ack \in Acks /\ del \in Nat /\ Peer(d) \in Devices
  BY PeerFacts DEF TypeOK, Readers
<1>2. /\ MaxIndex \in Nat /\ MaxGap \in Nat /\ BufferSize \in Nat /\ MaxGap + BufferSize <= MaxIndex
  BY IndexAssumption DEF IndexAssumption
<1>3. DirSound(d, 0, e, MaxGap) /\ (v.started => v.earliest = IndexOf(e))
  BY ScansIs
<1>4. /\ SenderInv(v, acc, del, 0) /\ WindowInv(v, acc, del, e, MaxGap)
      /\ acc <= del + BufferSize
  BY <1>3, SoundFacts DEF DirSound, Sound, DirectionInv
<1>5. \A s \in Slots : IF v.started THEN v.slot[s].index # StartIndex
                                    ELSE v.slot[s].index \notin DataIndices
  BY DEF HandshakeInv, WriterOpensOrSends
<1>6. ack = StartAck => acc <= MaxGap
  BY <1>2, <1>4 DEF StartAcksAreEarly, SenderInv
<1>7. PICK q, r, f : WriteEffect(d, w, q, r, f)
  BY AnyWriteEffect
<1>8. \A s \in Slots : Removes(ack, v.slot[s].index) => v.slot[s].data <= del
  BY <1>3, TrueAckRemoves
<1>9. /\ w \in Writers
      /\ v.started => w.started
      /\ \A s \in Slots : w.slot[s].index \in DataIndices => SameMessage(v.slot[s], w.slot[s])
  BY <1>7, IndexFacts DEF WriteEffect, After, Emptied, DataIndices
<1>10. wr'[d] = q /\ accepted'[d] = acc /\ q.earliest = w.earliest /\ q.started = w.started
  BY <1>7 DEF WriteEffect, WriteStep, TypeOK
<1>11. ScansFrom(v, acc, e)
  <2>1. acc < e + MaxIndex
    BY <1>1, <1>2, <1>4 DEF WindowInv
  <2>2. \A s \in Slots : v.slot[s].index \in DataIndices =>
          v.slot[s].data \in e .. acc /\ v.slot[s].index = IndexOf(v.slot[s].data)
    BY <1>4 DEF SenderInv, WindowInv, Carries
  <2> QED
    BY <1>3, <1>4, <1>5, <2>1, <2>2 DEF ScansFrom, WindowInv
<1> HIDE DEF v, acc, del, ack
<1>12. PICK e2 \in Nat : /\ e <= e2 \/ acc < e2 + MaxGap
                         /\ ScansFrom(w, acc, e2)
  <2>1. ~v.started => acc = 0
    BY <1>4 DEF SenderInv
  <2> QED
    BY <1>1, <1>6, <1>11, <2>1, PreparedScans
<1> HIDE DEF w
<1>13. e2 > 0 /\ e2 <= acc + 1 /\ (w.started => w.earliest = IndexOf(e2))
  BY <1>12 DEF ScansFrom
<1>14. ASSUME NEW s \in Slots, w.slot[s].index \in DataIndices
       PROVE  /\ w.slot[s].data >= e2
              /\ IsNextPacket(w, s) => w.slot[s].data < e2 + MaxGap
  <2>1. w.started
    BY <1>5, <1>9, <1>14 DEF SameMessage
  <2>2. w.slot[s].data \in e2 .. acc
    BY <1>12, <1>14 DEF ScansFrom
  <2> QED
    BY <1>1, <1>9, <1>12, <1>14, <2>1, <2>2, NextPacketScans
<1>15. DirSound(d, 0, e2, MaxGap)'
  BY <1>3, <1>7, <1>8, <1>12, <1>13, <1>14, WriteKeepsSound DEF v, acc, del, ack
<1>16. Scans(d, e2)'
  <2>1. Direction(d, 0, e2, MaxGap)'
    <3>1. Peer(d) \in Devices /\ Fits(MaxGap)
      BY PeerFacts, GapsFit
    <3> QED
      BY <1>15, <3>1 DEF DirSound, Sound, Direction
  <2> QED
    BY <1>10, <1>13, <2>1 DEF Scans
<1> QED
  BY <1>13, <1>16

LEMMA NextScan ==
  ASSUME TypeOK, TypeOK', HandshakeInv, AcksAreTrue, StartAcksAreEarly, ScanInv, [Next]_vars
  PROVE  ScanInv'
<1> SUFFICES ASSUME NEW d \in Devices
             PROVE  \E e \in 1 .. accepted'[d] + 1 : Scans(d, e)'
  BY DEF ScanInv
<1>1. PICK e \in 1 .. accepted[d] + 1 : Scans(d, e)
  BY DEF ScanInv
<1>2. e \in Nat /\ e > 0 /\ accepted[d] \in Nat /\ accepted'[d] \in Nat
  BY DEF TypeOK
<1>3. \E e2 \in Nat : e2 > 0 /\ Scans(d, e2)'
  <2>1. ASSUME NEW timedOut \in BOOLEAN, Write(d, timedOut)
        PROVE  \E e2 \in Nat : e2 > 0 /\ Scans(d, e2)'
    BY <1>1, <1>2, <2>1, WriteKeepsScan
  <2>2. ASSUME \A timedOut \in BOOLEAN : ~Write(d, timedOut)
        PROVE  Scans(d, e)'
    <3>1. KeepsDirection(d) /\ StaysOpen(d)
      BY <2>2, StepKeepsDirection
    <3>2. DirSound(d, 0, e, MaxGap) /\ (wr[d].started => wr[d].earliest = IndexOf(e))
      BY <1>1, <1>2, ScansIs
    <3>3. DirSound(d, 0, e, MaxGap)'
      BY <3>1, <3>2 DEF KeepsDirection
    <3>4. Direction(d, 0, e, MaxGap)'
      BY <3>3 DEF DirSound, Sound, Direction
    <3> QED
      BY <3>1, <3>2, <3>4 DEF Scans, StaysOpen
  <2> QED
    BY <1>2, <2>1, <2>2
<1>4. PICK e2 \in Nat : e2 > 0 /\ Scans(d, e2)'
  BY <1>3
<1>5. e2 <= accepted'[d] + 1
  BY <1>4 DEF Scans, Direction, DirectionInv, WindowInv
<1> QED
  BY <1>2, <1>4, <1>5

-----------------------------------------------------------------------------
(* How a direction begins, and what is true of it ever after.              *)

LEMMA DirectionBegins ==
  ASSUME NEW w, NEW r, NEW n \in Nat, NEW first \in Nat, NEW e \in Nat, NEW gap \in Nat,
         first <= n, e <= n + 1, n < e + gap,
         w.current = IndexOf(n), ~w.started => n = 0,
         \A s \in Slots : NoMessage(w.slot[s]),
         r.last = IndexOf(n),
         \A s \in Slots : r.slot[s].state # "parsed" /\ r.slot[s].index = 0
  PROVE  DirectionInv(w, <<>>, r, n, n, first, e, gap)
<1>1. \A s \in Slots : ~IsData(r.slot[s])
  BY DEF IsData
<1>2. SenderInv(w, n, n, first)
  BY DEF SenderInv, NoMessage
<1>3. WindowInv(w, n, n, e, gap)
  BY DEF WindowInv, NoMessage
<1>4. ReceiverInv(r, n, n, first, e, gap)
  BY <1>1 DEF ReceiverInv
<1>5. LineInv(<<>>, r, n, n, first, e, gap)
  BY DEF LineInv
<1> QED
  BY <1>2, <1>3, <1>4, <1>5 DEF DirectionInv

(* Switched on, a device has sent nothing. *)
LEMMA InitDirection ==
  ASSUME Init, NEW d \in Devices, NEW gap, Fits(gap)
  PROVE  Direction(d, 0, 1, gap) /\ ~wr[d].started /\ accepted[d] = 0
<1> DEFINE p == Peer(d)
<1>1. p \in Devices
  BY PeerFacts
<1>2. /\ wr[d] = NewWriter /\ chan[p] = <<>> /\ rd[p] \in NewReaders
      /\ accepted[d] = 0 /\ delivered[p] = 0
  BY <1>1 DEF Init
<1>3. \A s \in Slots : NoMessage(NewWriter.slot[s])
  BY IndexFacts DEF NewWriter, NewTx, FreeTx, NoMessage, DataIndices
<1>4. NewWriter.current = 0 /\ ~NewWriter.started
  BY DEF NewWriter
<1>5. PICK slots \in [Slots -> {FreeRx, BlankRx}] :
        rd[p] = [slot |-> slots, last |-> 0, current |-> NoSlot, inAck |-> NoAck,
                 outAck |-> NoAck, started |-> FALSE]
  BY <1>2 DEF NewReaders
<1>6. \A s \in Slots : rd[p].slot[s].state # "parsed" /\ rd[p].slot[s].index = 0
  <2> TAKE s \in Slots
  <2>1. rd[p].slot[s] \in {FreeRx, BlankRx}
    BY <1>5
  <2> QED
    BY <2>1 DEF FreeRx, BlankRx
<1>7. rd[p].last = 0 /\ IndexOf(0) = 0
  BY <1>5 DEF IndexOf
<1>8. gap \in Nat /\ gap > 0
  BY IndexFacts DEF Fits
<1> HIDE DEF p
<1>9. DirectionInv(wr[d], chan[p], rd[p], 0, 0, 0, 1, gap)
  <2>1. /\ 0 \in Nat /\ 1 \in Nat /\ gap \in Nat /\ 0 <= 0 /\ 1 <= 0 + 1 /\ 0 < 1 + gap
    BY <1>8
  <2>2. DirectionInv(wr[d], <<>>, rd[p], 0, 0, 0, 1, gap)
    BY <1>2, <1>3, <1>4, <1>6, <1>7, <2>1, DirectionBegins
  <2> QED
    BY <1>2, <2>2
<1> QED
  BY <1>2, <1>4, <1>9 DEF Direction, p

(* What a sound direction promises. *)
LEMMA DirectionDelivers ==
  ASSUME TypeOK, \A d \in Devices : \E first, e, gap : DirSound(d, first, e, gap)
  PROVE  NoLoss /\ WindowsAgree /\ SpaceComesBack
<1>1. NoLoss
  <2> SUFFICES ASSUME NEW d \in Devices, NEW n \in delivered[Peer(d)] + 1 .. accepted[d]
               PROVE  \E s \in Slots : Live(wr[d], s) /\ wr[d].slot[s].data = n
    BY DEF NoLoss
  <2>1. PICK first, e, gap : DirSound(d, first, e, gap)
    OBVIOUS
  <2>2. SenderInv(wr[d], accepted[d], delivered[Peer(d)], first) /\ delivered[Peer(d)] \in Nat
    BY <2>1 DEF DirSound, Sound, DirectionInv
  <2>3. PICK s \in Slots : wr[d].slot[s].data = n
    BY <2>2 DEF SenderInv
  <2>4. wr[d].slot[s].index \in DataIndices
    BY <2>2, <2>3 DEF SenderInv
  <2> QED
    BY <2>3, <2>4, IndexFacts DEF Live
<1>2. WindowsAgree
  <2> SUFFICES ASSUME NEW p \in Devices, NEW i \in DOMAIN chan[p], chan[p][i].index \in DataIndices
               PROVE  InRange(rd[p].last, chan[p][i].index) <=> chan[p][i].data > delivered[p]
    BY DEF WindowsAgree, InTransit
  <2>1. Peer(p) \in Devices /\ Peer(Peer(p)) = p /\ i \in 1 .. Len(chan[p])
    BY PeerFacts DEF TypeOK
  <2>2. PICK first, e, gap : DirSound(Peer(p), first, e, gap)
    BY <2>1
  <2>3. Sound(wr[Peer(p)], chan[p], rd[p], accepted[Peer(p)], delivered[p], first, e, gap)
    BY <2>1, <2>2 DEF DirSound
  <2>4. Timely(chan[p][i], accepted[Peer(p)], delivered[p], first, e, gap)
    BY <2>1, <2>3 DEF Sound, DirectionInv, LineInv, HasData
  <2> QED
    BY <2>3, <2>4, SoundFacts DEF Timely, Carries
<1>3. SpaceComesBack
  <2> SUFFICES ASSUME NEW p \in Devices, NoSpaceLeft(rd[p])
               PROVE  \E s \in Slots : Poppable(rd[p], s)
    BY DEF SpaceComesBack
  <2>1. Peer(p) \in Devices /\ Peer(Peer(p)) = p
    BY PeerFacts
  <2>2. PICK first, e, gap : DirSound(Peer(p), first, e, gap)
    BY <2>1
  <2> QED
    BY <2>1, <2>2, RoomReturns DEF DirSound
<1> QED
  BY <1>1, <1>2, <1>3

(* Only Receive delivers, and the next message. *)
LEMMA StepInOrder ==
  ASSUME TypeOK, \A d \in Devices : \E first, e, gap : DirSound(d, first, e, gap), [Next]_vars
  PROVE  \A d \in Devices : delivered'[d] # delivered[d] => delivered'[d] = delivered[d] + 1
<1>1. CASE UNCHANGED delivered
  BY <1>1
<1>2. ASSUME NEW p \in Devices, Receive(p)
      PROVE  \A d \in Devices : delivered'[d] # delivered[d] => delivered'[d] = delivered[d] + 1
  <2>1. PICK first, e, gap : DirSound(Peer(p), first, e, gap)
    BY PeerFacts
  <2>2. delivered' = [delivered EXCEPT ![p] = delivered[p] + 1]
    BY <1>2, <2>1, ReceiveTakes
  <2> QED
    BY <2>2 DEF TypeOK
<1> QED
  BY <1>1, <1>2, ZenonT(60) DEF Next, Tick, Program, SoundRead, FaultyRead, ReadFirstByte, ReadNoSpace,
     ReadOpening, ReadUnopened, ReadIntact, ReadGarbled, ReadResync, ReadCorrupted,
     ReadLastByte, Write, WritePacket, WriteAckOnly, WriteNothing, ReceiveNothing,
     Transmit, vars

LEMMA ScanIsSound ==
  ASSUME TypeOK, ScanInv
  PROVE  \A d \in Devices : \E first, e, gap : DirSound(d, first, e, gap)
<1> SUFFICES ASSUME NEW d \in Devices PROVE \E first, e, gap : DirSound(d, first, e, gap)
  OBVIOUS
<1>1. PICK e \in 1 .. accepted[d] + 1 : Scans(d, e)
  BY DEF ScanInv
<1>2. e \in Nat /\ e > 0
  BY DEF TypeOK
<1> QED
  BY <1>1, <1>2, ScansIs

LEMMA InitScan == Init => ScanInv
<1> SUFFICES ASSUME Init, NEW d \in Devices
             PROVE  \E e \in 1 .. accepted[d] + 1 : Scans(d, e)
  BY DEF ScanInv
<1>1. Direction(d, 0, 1, MaxGap) /\ ~wr[d].started /\ accepted[d] = 0
  BY InitDirection, GapsFit
<1> QED
  BY <1>1 DEF Scans

(* A link loses no message, delivers none twice or too early and never     *)
(* stops for want of buffer space, as long as no ack is so late that its   *)
(* index is used again: stale acks are the only way it can fail (what      *)
(* AcksAreTrue, StartAcksAreEarly say; run stale_ack shows that one can).  *)
THEOREM TrueAcksSuffice ==
  Spec /\ [](AcksAreTrue /\ StartAcksAreEarly)
    => [](NoLoss /\ WindowsAgree /\ SpaceComesBack) /\ InOrder
<1> DEFINE Inv == TypeOK /\ HandshakeInv /\ ScanInv
           Truth == AcksAreTrue /\ StartAcksAreEarly
           Step == \A d \in Devices :
             delivered'[d] # delivered[d] => delivered'[d] = delivered[d] + 1
<1>1. Init => Inv
  BY InitTypeOK, InitHandshake, InitScan
<1>2. Inv /\ Truth /\ [Next]_vars => Inv'
  BY NextTypeOK, NextHandshake, NextScan
<1>3. Inv => NoLoss /\ WindowsAgree /\ SpaceComesBack
  BY ScanIsSound, DirectionDelivers
<1>4. Inv /\ [Next]_vars => [Step]_vars
  BY ScanIsSound, StepInOrder
<1> HIDE DEF Inv, Truth, Step
<1>5. Spec /\ []Truth => []Inv /\ [][Step]_vars
  BY <1>1, <1>2, <1>4, PTL DEF Spec
<1>6. Spec /\ []Truth => [](NoLoss /\ WindowsAgree /\ SpaceComesBack)
  BY <1>3, <1>5, PTL
<1> QED
  BY <1>5, <1>6 DEF Truth, Step, InOrder
=============================================================================
