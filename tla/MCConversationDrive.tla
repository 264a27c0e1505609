-------------------------- MODULE MCConversationDrive --------------------------
(* The conversational operator on small instances. *)
EXTENDS ConversationDrive

OneCapability == {[listed |-> TRUE, money |-> "no"]}
Handshake == {[gate |-> "handshake", approver |-> "human"]}
================================================================================
