---------------------------- MODULE MCConversation ----------------------------
(* Instances of Conversation for TLC.                                       *)
EXTENDS Conversation, TLC

CONSTANTS c1, c2, h1, h2

TwoClients == {c1, c2}
TwoHandlers == {h1, h2}
==============================================================================
