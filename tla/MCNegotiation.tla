---------------------------- MODULE MCNegotiation ----------------------------
(* A payroll room: the reporter hands a notice to a keeper with a blocking  *)
(* reflex of its own, listed under one of its three rules, another of which *)
(* has a key that the slug of its note does not tell from the listed one;   *)
(* what the keeper declines may be handed to a clerk, who has a reflex too, *)
(* and never a sourced notice.                                              *)
EXTENDS Negotiation

CONSTANTS reporter, keeper, clerk, t1, pay, tell, hold, pause, freeze

Room == <<keeper, clerk, reporter>>

Rule2(k, a) == [key |-> k, ask |-> a]
HoldRules ==
  [p \in Handles |-> CASE p = keeper -> <<Rule2(pause, pay), Rule2(hold, pay), Rule2(freeze, tell)>>
                       [] p = clerk -> <<Rule2(hold, tell)>>
                       [] OTHER -> <<>>]
HoldListed == [p \in Handles |-> IF p = reporter THEN {} ELSE {hold}]

SlugOf(k) == IF k = freeze THEN hold ELSE k
SlugNames == [x \in Tasks \X Keys |-> <<x[1], SlugOf(x[2])>>]

Notice(from, to, asks, sourced) ==
  [kind |-> "notice", task |-> t1, origin |-> from, recipient |-> to, asks |-> asks,
   sourced |-> sourced]

(* The notice of an event; one that reuses its id without a source; and one *)
(* for information only.                                                    *)
Payroll ==
  {Notice(reporter, keeper, {pay, tell}, TRUE), Notice(clerk, keeper, {pay}, FALSE),
   Notice(reporter, keeper, {}, TRUE)}

Calls == {{keeper, clerk}}
==============================================================================
