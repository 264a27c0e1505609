---------------------------- MODULE MCChatDelivery ----------------------------
(* An instance of ChatDelivery: an operator's question to one persona in a   *)
(* space, an outsider's message without a name, a direct message without a   *)
(* text, an attachment, that a worker's own matcher gives to one of two      *)
(* personas, and an event that is no message.                                *)
EXTENDS ChatDelivery, TLC

CONSTANTS p1, p2, noName

MCRegistry == <<p1, p2>>
Question == [kind |-> "MESSAGE", name |-> "question", dm |-> FALSE, operator |-> TRUE,
             blank |-> FALSE, mentions |-> {p1}, domain |-> {}]
Attached == [kind |-> "MESSAGE", name |-> "attached", dm |-> TRUE, operator |-> TRUE,
             blank |-> TRUE, mentions |-> {}, domain |-> {p1}]
Outsider == [kind |-> "MESSAGE", name |-> noName, dm |-> FALSE, operator |-> FALSE,
             blank |-> FALSE, mentions |-> {p1}, domain |-> {p2}]
Added == [kind |-> "ADDED_TO_SPACE", name |-> noName, dm |-> FALSE, operator |-> TRUE,
          blank |-> FALSE, mentions |-> {}, domain |-> {}]

MCMessages == {"question", "outsider", "attached"}
MCEvents == MCMessages \cup {"added"}
MCEnvelope == [question |-> Question, outsider |-> Outsider, attached |-> Attached, added |-> Added]
==============================================================================
