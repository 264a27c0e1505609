------------------------------ MODULE TaskLedger ------------------------------
(***************************************************************************)
(* TaskLedger (negotiation.py): what one negotiated space knows of its     *)
(* tasks, built only from the messages it is fed, and lost with the        *)
(* process.                                                                *)
(*                                                                         *)
(* An envelope keeps what the protocol tells apart: its kind, task,        *)
(* origin and recipient, the set of its asks, whether a fact of the        *)
(* origin's own carries a provenance (sourced), and its decisions and      *)
(* steps as functions of the ask they speak of: the asks of a notice are   *)
(* distinct texts, and a response decides each at most once.               *)
(***************************************************************************)
EXTENDS Naturals, FiniteSets

CONSTANTS
  Handles,  \* persona handles
  Tasks,    \* task ids
  Asks,     \* texts of asks
  Keys,     \* capability keys of reflexes
  Nobody    \* the empty handle

ASSUME NobodyAssumption == Nobody \notin Handles \cup Keys \cup Asks

OpenStates == {"pending", "redirected"}
TerminalStates == {"done", "accepted", "owner"}
AskStates == [state : {"absent"} \cup OpenStates \cup TerminalStates,
              decider : Handles \cup {Nobody}]

AskState(state, decider) == [state |-> state, decider |-> decider]
Absent == AskState("absent", Nobody)   \* the notice does not ask it

(* A redirect travels with a decline, a capability and its outcome with     *)
(* reflexed.                                                                *)
Decisions ==
  {d \in [choice : {"reflexed", "accept", "decline", "defer"},
          redirect : Handles \cup {Nobody}, key : Keys \cup {Nobody}, applied : BOOLEAN] :
     /\ d.redirect # Nobody => d.choice = "decline"
     /\ d.choice = "reflexed" <=> d.key # Nobody
     /\ d.applied => d.choice = "reflexed"}
Steps == [owner : Handles \cup {Nobody}, status : {"done", "needs-approval", "unassigned"}]

SomeAsks == (SUBSET Asks) \ {{}}
Notices == [kind : {"notice"}, task : Tasks, origin : Handles, recipient : Handles,
            asks : SUBSET Asks, sourced : BOOLEAN]
Responses == [kind : {"response"}, task : Tasks, origin : Handles, recipient : Handles,
              decisions : UNION {[S -> Decisions] : S \in SomeAsks}]
Plans == [kind : {"plan"}, task : Tasks, origin : Handles,
          steps : UNION {[S -> Steps] : S \in SomeAsks}]
Prose == [kind |-> "prose"]   \* parse_envelope read no frame
Envelopes == Notices \cup Responses \cup Plans \cup {Prose}

(* heard: whom the text addresses, and for an owner's also those whose      *)
(* domain it touches.  An owner's author is Nobody's handle.                *)
Messages == [author : Handles \cup {Nobody}, heard : SUBSET Handles, env : Envelopes]

IsOwner(m) == m.author = Nobody

VARIABLES
  initiator,  \* the origin of each known task's notice, Nobody of an unknown one
  asked,      \* the state of every ask of every task
  planned,    \* _planned
  stalled,    \* _stalled
  duplicates, \* _duplicates, as a set
  failures    \* _pending_failures, as a set

ledgerVars == <<initiator, asked, planned, stalled, duplicates, failures>>

FailureRecords ==
  [task : Tasks, by : Handles, ask : Asks \cup {Nobody},
   reason : {"declined", "reflex_refused", "parse_failed"}]

LedgerType ==
  /\ initiator \in [Tasks -> Handles \cup {Nobody}]
  /\ asked \in [Tasks -> [Asks -> AskStates]]
  /\ planned \subseteq Tasks /\ stalled \subseteq Tasks /\ duplicates \subseteq Tasks
  /\ failures \subseteq FailureRecords

NoTasks == [t \in Tasks |-> Nobody]
NoAsks == [t \in Tasks |-> [a \in Asks |-> Absent]]

LedgerInit ==
  /\ initiator = NoTasks /\ asked = NoAsks
  /\ planned = {} /\ stalled = {} /\ duplicates = {} /\ failures = {}

LedgerLost ==
  /\ initiator' = NoTasks /\ asked' = NoAsks
  /\ planned' = {} /\ stalled' = {} /\ duplicates' = {} /\ failures' = {}

Known(t) == initiator[t] # Nobody
IsOpen(t) == \E a \in Asks : asked[t][a].state \in OpenStates

-----------------------------------------------------------------------------
(* feed *)

(* Mutant: whoever answers first may claim a redirected ask.                *)
Counts_Anybody(cur, p) == cur.state \in OpenStates

(* A decision counts for an open ask, if the ask was not redirected to      *)
(* somebody else.                                                           *)
Counts(cur, p) ==
  cur.state = "pending" \/ (cur.state = "redirected" /\ cur.decider = p)

(* What p's decision d makes of an ask.                                     *)
Outcome(d, p) ==
  CASE d.choice = "reflexed" /\ d.applied -> AskState("done", p)
    [] d.choice = "accept" -> AskState("accepted", p)
    [] d.choice = "decline" /\ d.redirect # Nobody -> AskState("redirected", d.redirect)
    [] OTHER -> AskState("owner", p)

(* The failures a decision records: a bare decline, a reflex that failed.   *)
FailureReason(d) ==
  CASE d.choice = "decline" /\ d.redirect = Nobody -> {"declined"}
    [] d.choice = "reflexed" /\ ~d.applied -> {"reflex_refused"}
    [] OTHER -> {}

(* Mutant: every decision of the message is recorded, counted or not.       *)
Counted_All(e) == DOMAIN e.decisions

Counted(e) == {a \in DOMAIN e.decisions : Counts(asked[e.task][a], e.origin)}

(* origin # author: inert, but a response to a known task is a failure.     *)
FeedForged(m) ==
  /\ IF m.env.kind = "response" /\ Known(m.env.task)
     THEN failures' = failures \cup
            {[task |-> m.env.task, by |-> m.author, ask |-> Nobody, reason |-> "parse_failed"]}
     ELSE UNCHANGED failures
  /\ UNCHANGED <<initiator, asked, planned, stalled, duplicates>>

FeedNotice(e) ==
  /\ IF Known(e.task)
     THEN duplicates' = duplicates \cup {e.task} /\ UNCHANGED <<initiator, asked>>
     ELSE /\ initiator' = [initiator EXCEPT ![e.task] = e.origin]
          /\ asked' = [asked EXCEPT ![e.task] =
               [a \in Asks |-> IF a \in e.asks THEN AskState("pending", Nobody) ELSE Absent]]
          /\ UNCHANGED duplicates
  /\ UNCHANGED <<planned, stalled, failures>>

FeedPlan(e) ==
  planned' = planned \cup {e.task} /\ UNCHANGED <<initiator, asked, stalled, duplicates, failures>>

FeedResponse(e) ==
  /\ asked' = [asked EXCEPT ![e.task] =
       [a \in Asks |-> IF a \in Counted(e) THEN Outcome(e.decisions[a], e.origin) ELSE @[a]]]
  /\ failures' = failures \cup
       UNION {[task : {e.task}, by : {e.origin}, ask : {a},
               reason : FailureReason(e.decisions[a])] : a \in Counted(e)}
  /\ UNCHANGED <<initiator, planned, stalled, duplicates>>

(* Mutant: the sender is whoever the frame says it is.                      *)
Feed_Trusting(m) ==
  LET e == m.env
  IN IF IsOwner(m) \/ e.kind = "prose" THEN UNCHANGED ledgerVars
     ELSE CASE e.kind = "notice" -> FeedNotice(e)
            [] e.kind = "plan" -> FeedPlan(e)
            [] e.kind = "response" -> FeedResponse(e)

Feed(m) ==
  LET e == m.env
  IN IF IsOwner(m) \/ e.kind = "prose" THEN UNCHANGED ledgerVars
     ELSE IF e.origin # m.author THEN FeedForged(m)
     ELSE CASE e.kind = "notice" -> FeedNotice(e)
            [] e.kind = "plan" -> FeedPlan(e)
            [] e.kind = "response" -> FeedResponse(e)

-----------------------------------------------------------------------------
(* unresolved, plan_worthy, compose_plan, consume_failures *)

Unresolved == {t \in Tasks : IsOpen(t)}

(* Mutant: only what a colleague accepted is planned.                       *)
PlanWorthy_AcceptedOnly ==
  {t \in Tasks \ planned : ~IsOpen(t) /\ \E a \in Asks : asked[t][a].state = "accepted"}

PlanWorthy ==
  {t \in Tasks \ planned :
     /\ ~IsOpen(t)
     /\ \E a \in Asks : asked[t][a].state \in {"accepted", "owner"}}

StepFor(st) ==
  CASE st.state = "done" -> [owner |-> st.decider, status |-> "done"]
    [] st.state \in {"accepted", "redirected"} ->
         [owner |-> st.decider, status |-> "needs-approval"]
    [] OTHER -> [owner |-> Nobody, status |-> "unassigned"]

AsksOf(t) == {a \in Asks : asked[t][a].state # "absent"}

ComposePlan(t) ==
  [kind |-> "plan", task |-> t, origin |-> initiator[t],
   steps |-> [a \in AsksOf(t) |-> StepFor(asked[t][a])]]

MarkPlanned(t) ==
  planned' = planned \cup {t} /\ UNCHANGED <<initiator, asked, stalled, duplicates, failures>>

MarkStalled(t) ==
  stalled' = stalled \cup {t} /\ UNCHANGED <<initiator, asked, planned, duplicates, failures>>

ConsumeFailures ==
  failures' = {} /\ UNCHANGED <<initiator, asked, planned, stalled, duplicates>>
==============================================================================

