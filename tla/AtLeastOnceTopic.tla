-------------------------- MODULE AtLeastOnceTopic --------------------------
(***************************************************************************)
(* What the signal bus promises a consumer: messages are offered, taken    *)
(* one or more times, and acknowledged.  The acknowledged set may move     *)
(* either way (a replica may put back an older mark, which only causes a   *)
(* message to be taken again) but never runs ahead of what was taken.      *)
(***************************************************************************)
CONSTANT Messages

VARIABLES offered, taken, acked

topicVars == <<offered, taken, acked>>

TopicInit == offered = {} /\ taken = {} /\ acked = {}

Offer ==
  /\ offered' \subseteq Messages
  /\ offered \subseteq offered'
  /\ UNCHANGED <<taken, acked>>

Take ==
  /\ taken \subseteq taken'
  /\ taken' \subseteq taken \cup offered
  /\ UNCHANGED <<offered, acked>>

Acknowledge ==
  /\ acked' \subseteq taken
  /\ UNCHANGED <<offered, taken>>

TopicNext == Offer \/ Take \/ Acknowledge

TopicSpec == TopicInit /\ [][TopicNext]_topicVars
=============================================================================
