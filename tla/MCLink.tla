------------------------------- MODULE MCLink -------------------------------
(***************************************************************************)
(* Instances of Session for TLC.  A run starts with two devices that have  *)
(* just been switched on (FSpec), or in the middle of a session.           *)
(***************************************************************************)
EXTENDS Session, TLC

CONSTANTS A, B, SendsA, SendsB, FirstA, FirstB

MCDevices == {A, B}
MCSends == (A :> SendsA) @@ (B :> SendsB)
MCFirst == (A :> FirstA) @@ (B :> FirstB)
=============================================================================
