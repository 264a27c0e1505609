---------------------------- MODULE AskSettlement ----------------------------
(***************************************************************************)
(* What a negotiated space promises about the asks of a task: each is      *)
(* settled at most once, by whoever answers first while it is pending and  *)
(* by nobody but the colleague it was handed on to once it is redirected;  *)
(* the owner is given at most one plan of a task, once nothing of it is    *)
(* open, and is called on at most once, while something is.  The process   *)
(* may restart, and then knows nothing.                                    *)
(***************************************************************************)
EXTENDS Naturals

CONSTANTS Tasks, Asks, Handles, Nobody

VARIABLES ask, plans, calls

settlementVars == <<ask, plans, calls>>

OpenStates == {"pending", "redirected"}
SettledStates == {"done", "accepted", "owner"}
AskStates == [state : {"absent"} \cup OpenStates \cup SettledStates,
              decider : Handles \cup {Nobody}]

Absent == [state |-> "absent", decider |-> Nobody]
Pending == [state |-> "pending", decider |-> Nobody]

NoAsks == [t \in Tasks |-> [a \in Asks |-> Absent]]
Zero == [t \in Tasks |-> 0]

IsOpen(t) == \E a \in Asks : ask[t][a].state \in OpenStates
Untouched(t) == \A a \in Asks : ask[t][a] = Absent

SettlementInit == ask = NoAsks /\ plans = Zero /\ calls = Zero

Raise(t, S) ==
  /\ Untouched(t)
  /\ ask' = [ask EXCEPT ![t] = [a \in Asks |-> IF a \in S THEN Pending ELSE Absent]]
  /\ UNCHANGED <<plans, calls>>

(* An open ask is p's to answer unless it was handed on to somebody else.   *)
AnswersFor(p, old, new) ==
  /\ old.state = "pending" \/ (old.state = "redirected" /\ old.decider = p)
  /\ \/ new.state \in SettledStates /\ new.decider = p
     \/ new.state = "redirected" /\ new.decider \in Handles

(* One answer speaks of some of a task's asks.                              *)
Answer(t, p) ==
  /\ ask' \in [Tasks -> [Asks -> AskStates]]
  /\ \A u \in Tasks \ {t} : ask'[u] = ask[u]
  /\ \A a \in Asks : ask'[t][a] # ask[t][a] => AnswersFor(p, ask[t][a], ask'[t][a])
  /\ UNCHANGED <<plans, calls>>

PostPlan(t) ==
  /\ ~IsOpen(t) /\ ~Untouched(t) /\ plans[t] = 0
  /\ plans' = [plans EXCEPT ![t] = 1]
  /\ UNCHANGED <<ask, calls>>

CallOwner(t) ==
  /\ IsOpen(t) /\ calls[t] = 0
  /\ calls' = [calls EXCEPT ![t] = 1]
  /\ UNCHANGED <<ask, plans>>

Forget == ask' = NoAsks /\ plans' = Zero /\ calls' = Zero

SettlementNext ==
  \/ \E t \in Tasks, S \in SUBSET Asks : Raise(t, S)
  \/ \E t \in Tasks, p \in Handles : Answer(t, p)
  \/ \E t \in Tasks : PostPlan(t) \/ CallOwner(t)
  \/ Forget

SettlementSpec == SettlementInit /\ [][SettlementNext]_settlementVars
==============================================================================
