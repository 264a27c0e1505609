----------------------------- MODULE GuardedWrite -----------------------------
(***************************************************************************)
(* What the write gate promises, whoever drives the cockpit: a write is    *)
(* offered under a token of its own, applied only once that very token has *)
(* been approved, decided once, and posted at most once, after that.       *)
(***************************************************************************)
CONSTANT Tokens

VARIABLES offered, approved, applied, declined, posted

writeVars == <<offered, approved, applied, declined, posted>>

WriteInit == offered = {} /\ approved = {} /\ applied = {} /\ declined = {} /\ posted = {}

OfferWrite(t) ==
  /\ t \notin offered
  /\ offered' = offered \cup {t}
  /\ UNCHANGED <<approved, applied, declined, posted>>

Approve(t) ==
  /\ t \in offered
  /\ approved' = approved \cup {t}
  /\ UNCHANGED <<offered, applied, declined, posted>>

Undecided(t) == t \in offered \ (applied \cup declined)

(* An approver at the gate itself approves and applies in one step.        *)
ApplyWrite(t) ==
  /\ Undecided(t)
  /\ approved' \in {approved, approved \cup {t}} /\ t \in approved'
  /\ applied' = applied \cup {t}
  /\ UNCHANGED <<offered, declined, posted>>

DeclineWrite(t) ==
  /\ Undecided(t)
  /\ declined' = declined \cup {t}
  /\ UNCHANGED <<offered, approved, applied, posted>>

PostWrite(t) ==
  /\ t \in applied \ posted
  /\ posted' = posted \cup {t}
  /\ UNCHANGED <<offered, approved, applied, declined>>

WriteNext ==
  \E t \in Tokens :
    \/ OfferWrite(t) \/ Approve(t) \/ ApplyWrite(t) \/ DeclineWrite(t) \/ PostWrite(t)

WriteSpec == WriteInit /\ [][WriteNext]_writeVars
=============================================================================
