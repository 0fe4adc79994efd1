------------------------- MODULE ReliableLinkProofs -------------------------
(* What follows from being a ReliableLink, for any size of the buffers.    *)
EXTENDS ReliableLink, FiniteSetTheorems, TLAPS

(* Messages a device has accepted and its peer has not delivered yet. *)
Undelivered(d) == delivered[Other(d)] + 1 .. accepted[d]

(* The sender of a message that is not delivered yet still holds it, so a  *)
(* direction never carries more messages than a sender has room for        *)
(* (README:5-6, and MAX_BUFFERS of cc/commlink.h).                         *)
BoundedQueue ==
  \A d \in Devices :
    /\ Undelivered(d) \subseteq held[d]
    /\ accepted[d] - delivered[Other(d)] \in 0 .. BufferSize

QueueTypes ==
  /\ open \in [Devices -> BOOLEAN]
  /\ accepted \in [Devices -> Nat]
  /\ delivered \in [Devices -> Nat]
  /\ held \in [Devices -> SUBSET Nat]

HoldsUndelivered(d) ==
  /\ delivered[Other(d)] <= accepted[d]
  /\ Undelivered(d) \subseteq held[d]
  /\ held[d] \subseteq 1 .. accepted[d]
  /\ IsFiniteSet(held[d])
  /\ Cardinality(held[d]) <= BufferSize

QueueInv == QueueTypes /\ \A d \in Devices : HoldsUndelivered(d)

TwoDevices == \E a, b : a # b /\ Devices = {a, b}

-----------------------------------------------------------------------------
LEMMA OtherFacts ==
  ASSUME TwoDevices, NEW d \in Devices
  PROVE  Other(d) \in Devices /\ Other(Other(d)) = d
<1>1. PICK a, b : a # b /\ Devices = {a, b}
  BY DEF TwoDevices
<1>2. Other(a) = b /\ Other(b) = a
  BY <1>1 DEF Other
<1> QED
  BY <1>1, <1>2

LEMMA InitQueue == ASSUME TwoDevices, BufferSize \in Nat, RInit PROVE QueueInv
<1>1. QueueTypes
  BY DEF RInit, QueueTypes
<1>2. ASSUME NEW d \in Devices PROVE HoldsUndelivered(d)
  <2>1. Other(d) \in Devices
    BY OtherFacts
  <2>2. accepted[d] = 0 /\ delivered[Other(d)] = 0 /\ held[d] = {}
    BY <2>1 DEF RInit
  <2> QED
    BY <2>2, FS_EmptySet DEF HoldsUndelivered, Undelivered
<1> QED
  BY <1>1, <1>2 DEF QueueInv

(* Accept is the only step that could overfill a sender, and looks first.  *)
LEMMA AcceptQueue ==
  ASSUME TwoDevices, BufferSize \in Nat, QueueInv, NEW d \in Devices, Accept(d)
  PROVE  QueueInv'
<1> DEFINE n == accepted[d] + 1
<1>1. /\ open' = open /\ delivered' = delivered /\ Cardinality(held[d]) < BufferSize
      /\ accepted' = [accepted EXCEPT ![d] = n]
      /\ held' = [held EXCEPT ![d] = @ \cup {n}]
  BY DEF Accept, HasRoom
<1>2. QueueTypes'
  BY <1>1 DEF QueueInv, QueueTypes
<1>3. ASSUME NEW e \in Devices PROVE HoldsUndelivered(e)'
  <2>1. Other(e) \in Devices /\ HoldsUndelivered(e) /\ QueueTypes
    BY OtherFacts DEF QueueInv
  <2>2. CASE e # d
    BY <1>1, <2>1, <2>2 DEF HoldsUndelivered, Undelivered, QueueTypes
  <2>3. CASE e = d
    <3>1. /\ accepted'[e] = n /\ held'[e] = held[e] \cup {n}
          /\ delivered'[Other(e)] = delivered[Other(e)]
      BY <1>1, <2>1, <2>3 DEF QueueTypes
    <3>2. IsFiniteSet(held'[e]) /\ Cardinality(held'[e]) <= BufferSize
      <4>1. n \notin held[e] /\ IsFiniteSet(held[e])
        BY <2>1, <2>3 DEF HoldsUndelivered, QueueTypes
      <4>2. /\ IsFiniteSet(held[e] \cup {n}) /\ Cardinality(held[e]) \in Nat
            /\ Cardinality(held[e] \cup {n}) = Cardinality(held[e]) + 1
        BY <4>1, FS_AddElement, FS_CardinalityType
      <4> QED
        BY <1>1, <2>3, <3>1, <4>2
    <3> QED
      BY <2>1, <2>3, <3>1, <3>2 DEF HoldsUndelivered, Undelivered, QueueTypes
  <2> QED
    BY <2>2, <2>3
<1> QED
  BY <1>2, <1>3 DEF QueueInv

LEMMA DeliverQueue ==
  ASSUME TwoDevices, BufferSize \in Nat, QueueInv, NEW d \in Devices, Deliver(d)
  PROVE  QueueInv'
<1>1. /\ delivered[d] < accepted[Other(d)]
      /\ open' = open /\ accepted' = accepted /\ held' = held
      /\ delivered' = [delivered EXCEPT ![d] = @ + 1]
  BY DEF Deliver
<1>2. QueueTypes'
  BY <1>1 DEF QueueInv, QueueTypes
<1>3. ASSUME NEW e \in Devices PROVE HoldsUndelivered(e)'
  <2>1. Other(e) \in Devices /\ HoldsUndelivered(e) /\ QueueTypes
    BY OtherFacts DEF QueueInv
  <2>2. CASE Other(e) = d
    <3>1. Other(d) = e
      BY <2>2, OtherFacts
    <3>2. delivered'[Other(e)] = delivered[Other(e)] + 1
      BY <1>1, <2>1, <2>2 DEF QueueTypes
    <3>3. /\ delivered[Other(e)] \in Nat /\ accepted[e] \in Nat
          /\ delivered[Other(e)] + 1 <= accepted[e]
      BY <1>1, <2>1, <2>2, <3>1 DEF QueueTypes
    <3>4. Undelivered(e)' \subseteq Undelivered(e)
      BY <1>1, <3>2, <3>3 DEF Undelivered
    <3> QED
      BY <1>1, <2>1, <3>2, <3>3, <3>4 DEF HoldsUndelivered
  <2>3. CASE Other(e) # d
    BY <1>1, <2>1, <2>3 DEF HoldsUndelivered, Undelivered, QueueTypes
  <2> QED
    BY <2>2, <2>3
<1> QED
  BY <1>2, <1>3 DEF QueueInv

(* A sender only lets go of what was delivered. *)
LEMMA AcknowledgeQueue ==
  ASSUME TwoDevices, BufferSize \in Nat, QueueInv, NEW d \in Devices, Acknowledge(d)
  PROVE  QueueInv'
<1>1. PICK n \in held[d] : /\ n <= delivered[Other(d)]
                           /\ held' = [held EXCEPT ![d] = @ \ {n}]
  BY DEF Acknowledge
<1>2. open' = open /\ accepted' = accepted /\ delivered' = delivered
  BY DEF Acknowledge
<1>3. QueueTypes'
  BY <1>1, <1>2 DEF QueueInv, QueueTypes
<1>4. ASSUME NEW e \in Devices PROVE HoldsUndelivered(e)'
  <2>1. Other(e) \in Devices /\ HoldsUndelivered(e) /\ QueueTypes
    BY OtherFacts DEF QueueInv
  <2>2. CASE e # d
    BY <1>1, <1>2, <2>1, <2>2 DEF HoldsUndelivered, Undelivered, QueueTypes
  <2>3. CASE e = d
    <3>1. held'[e] = held[e] \ {n} /\ n \in Nat
      BY <1>1, <2>1, <2>3 DEF QueueTypes
    <3>2. IsFiniteSet(held'[e]) /\ Cardinality(held'[e]) <= BufferSize
      <4>1. /\ IsFiniteSet(held[e] \ {n})
            /\ Cardinality(held[e] \ {n}) <= Cardinality(held[e])
        BY <2>1, FS_Subset DEF HoldsUndelivered
      <4>2. Cardinality(held[e]) \in Nat /\ Cardinality(held[e] \ {n}) \in Nat
        BY <2>1, <4>1, FS_CardinalityType DEF HoldsUndelivered
      <4> QED
        BY <2>1, <3>1, <4>1, <4>2 DEF HoldsUndelivered
    <3>3. Undelivered(e)' \subseteq held'[e]
      BY <1>1, <1>2, <2>1, <2>3, <3>1 DEF HoldsUndelivered, Undelivered, QueueTypes
    <3> QED
      BY <1>2, <2>1, <3>1, <3>2, <3>3 DEF HoldsUndelivered
  <2> QED
    BY <2>2, <2>3
<1> QED
  BY <1>3, <1>4 DEF QueueInv

LEMMA NextQueue ==
  ASSUME TwoDevices, BufferSize \in Nat, QueueInv, [RNext]_rvars PROVE QueueInv'
<1>1. ASSUME NEW d \in Devices, Open(d) PROVE QueueInv'
  BY <1>1 DEF Open, QueueInv, QueueTypes, HoldsUndelivered, Undelivered
<1>2. CASE UNCHANGED rvars
  BY <1>2 DEF rvars, QueueInv, QueueTypes, HoldsUndelivered, Undelivered
<1> QED
  BY <1>1, <1>2, AcceptQueue, DeliverQueue, AcknowledgeQueue DEF RNext

(* The numbers after a, up to b.                                           *)
LEMMA CountOf ==
  ASSUME NEW a \in Nat, NEW b \in Nat, a <= b
  PROVE  Cardinality(a + 1 .. b) = b - a
<1> DEFINE first == a + 1
<1>1. /\ first \in Int /\ b \in Int
      /\ first > b => b - a = 0
      /\ first <= b => b - first + 1 = b - a
  OBVIOUS
<1> HIDE DEF first
<1>2. Cardinality(first .. b) = IF first > b THEN 0 ELSE b - first + 1
  BY <1>1, FS_Interval
<1>3. Cardinality(first .. b) = b - a
  BY <1>1, <1>2
<1> QED
  BY <1>3 DEF first

(* As many messages are under way as are accepted and not delivered.       *)
LEMMA QueueIsBounded ==
  ASSUME TwoDevices, BufferSize \in Nat, QueueInv PROVE BoundedQueue
<1> SUFFICES ASSUME NEW d \in Devices
             PROVE  /\ Undelivered(d) \subseteq held[d]
                    /\ accepted[d] - delivered[Other(d)] \in 0 .. BufferSize
  BY DEF BoundedQueue
<1>1. /\ HoldsUndelivered(d) /\ accepted[d] \in Nat /\ delivered[Other(d)] \in Nat
  BY OtherFacts DEF QueueInv, QueueTypes
<1>2. Cardinality(Undelivered(d)) <= Cardinality(held[d])
  BY <1>1, FS_Subset DEF HoldsUndelivered
<1>3. Cardinality(Undelivered(d)) = accepted[d] - delivered[Other(d)]
  BY <1>1, CountOf DEF HoldsUndelivered, Undelivered
<1>4. Cardinality(held[d]) \in Nat
  BY <1>1, FS_CardinalityType DEF HoldsUndelivered
<1> QED
  BY <1>1, <1>2, <1>3, <1>4 DEF HoldsUndelivered

(* A pair of devices that implements ReliableLink (property IsReliable)    *)
(* holds every message until it is delivered and never has more than       *)
(* BufferSize of them under way.                                           *)
THEOREM QueueCorrect ==
  ASSUME TwoDevices, BufferSize \in Nat PROVE RSpec => []BoundedQueue
<1>1. RInit => QueueInv
  BY InitQueue
<1>2. QueueInv /\ [RNext]_rvars => QueueInv'
  BY NextQueue
<1>3. QueueInv => BoundedQueue
  BY QueueIsBounded
<1> QED
  BY <1>1, <1>2, <1>3, PTL DEF RSpec
=============================================================================
