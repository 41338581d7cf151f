------------------------------ MODULE MCDelivery ------------------------------
(* An instance of Delivery for TLC.                                         *)
EXTENDS Delivery, TLC

CONSTANTS c1, c2, b1

TwoClients == {c1, c2}
OneBroadcast == {b1}
==============================================================================
