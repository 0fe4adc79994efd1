---------------------------- MODULE ReliableLink ----------------------------
(***************************************************************************)
(* What README promises of a pair of devices: each direction, once open,   *)
(* is a queue of messages that are delivered in order, once each, whatever *)
(* happens to the packets that carry them.  Messages are numbered, so a    *)
(* direction is the two ends of its queue.  A sender holds a message until *)
(* it knows of the delivery, and takes no more than it can hold.           *)
(***************************************************************************)
EXTENDS Integers, FiniteSets

CONSTANTS
  Devices,      \* the two ends
  BufferSize    \* messages a sender can hold

VARIABLES
  open,         \* whether a device may send
  accepted,     \* messages a device has accepted from its program
  delivered,    \* messages a device has delivered to its program
  held          \* the messages a sender still holds

rvars == <<open, accepted, delivered, held>>

Other(d) == CHOOSE e \in Devices : e # d

RInit ==
  /\ open = [d \in Devices |-> FALSE]
  /\ accepted = [d \in Devices |-> 0]
  /\ delivered = [d \in Devices |-> 0]
  /\ held = [d \in Devices |-> {}]

Open(d) ==
  /\ ~open[d]
  /\ open' = [open EXCEPT ![d] = TRUE]
  /\ UNCHANGED <<accepted, delivered, held>>

(* Transmit returns true. *)
HasRoom(d) == open[d] /\ Cardinality(held[d]) < BufferSize

Accept(d) ==
  /\ HasRoom(d)
  /\ accepted' = [accepted EXCEPT ![d] = @ + 1]
  /\ held' = [held EXCEPT ![d] = @ \cup {accepted[d] + 1}]
  /\ UNCHANGED <<open, delivered>>

Deliver(d) ==
  /\ delivered[d] < accepted[Other(d)]
  /\ delivered' = [delivered EXCEPT ![d] = @ + 1]
  /\ UNCHANGED <<open, accepted, held>>

(* The sender learns that a message was delivered. *)
Acknowledge(d) ==
  /\ \E n \in held[d] :
       /\ n <= delivered[Other(d)]
       /\ held' = [held EXCEPT ![d] = @ \ {n}]
  /\ UNCHANGED <<open, accepted, delivered>>

RNext ==
  \E d \in Devices : Open(d) \/ Accept(d) \/ Deliver(d) \/ Acknowledge(d)

RSpec == RInit /\ [][RNext]_rvars

RFairSpec ==
  /\ RSpec
  /\ \A d \in Devices :
       WF_rvars(Open(d)) /\ WF_rvars(Deliver(d)) /\ WF_rvars(Acknowledge(d))
=============================================================================
