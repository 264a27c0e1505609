------------------------------ MODULE Negotiation ------------------------------
(***************************************************************************)
(* Cross-worker handoffs in one room: the round in which personas hear a   *)
(* message and answer (group_chat.py, run_round), the responder that       *)
(* answers envelopes (negotiation.py, negotiating_responder), the reflexes *)
(* it fires (reflex.py) and the sweep after the round (NegotiatedSpace).   *)
(*                                                                         *)
(* The room is one thread of control: phase says where it stands.  The     *)
(* model's part is a choice of decisions; what it says in words can        *)
(* address anybody, and an envelope moves nobody but its recipient, the    *)
(* targets of its redirects and the owners of its steps.                   *)
(*                                                                         *)
(* ran, said, plansPosted, stallsPosted, told and the job's misread are    *)
(* history.                                                                *)
(***************************************************************************)
EXTENDS TaskLedger, Sequences

CONSTANTS
  Registry,      \* the room's personas in registry order, a sequence
  Colleagues,    \* handles with a colleague: whom a redirect may name
  Voiced,        \* colleagues whose soul can be read
  Bank,          \* [Handles -> sequence of [key, ask]]: the rules, in order
  Listed,        \* [Handles -> keys the policy was given]
  NoteName,      \* the name of a reflex's note: a pair standing for all of that name
  MaxApplies,    \* ReflexPolicy.max_applies
  MaxTurns,      \* max_persona_turns
  QuietOnError,  \* quiet_on_error
  Topics,        \* the notices worker code composes
  Errands,       \* whom an owner's message may engage, a set of sets
  Faults,        \* which writes and calls may fail
  MaxCalls,      \* messages put to the room (bound)
  MaxRestarts    \* restarts of the process (bound)

FaultKinds == {"mark", "read", "note", "transcript", "post", "model"}
Rules == [key : Keys, ask : Asks]

(* A room has somebody in it.                                              *)
ASSUME RegistryAssumption ==
  /\ Registry \in Seq(Handles) /\ Registry # <<>>
  /\ Voiced \subseteq Colleagues /\ Colleagues \subseteq Handles
(* A bank registers a capability once (reflex.py: ReflexBank.register).     *)
ASSUME ReflexAssumption ==
  /\ Bank \in [Handles -> Seq(Rules)] /\ Listed \in [Handles -> SUBSET Keys]
  /\ \A p \in Handles : \A i, j \in DOMAIN Bank[p] :
       Bank[p][i].key = Bank[p][j].key => i = j
  /\ MaxApplies \in Nat
(* Two pairs may have one name (reflex.py: _slug_key, _note_name).          *)
ASSUME NoteAssumption == NoteName \in [Tasks \X Keys -> Tasks \X Keys]
ASSUME RoomAssumption ==
  /\ MaxTurns \in Nat /\ QuietOnError \in BOOLEAN /\ MaxCalls \in Nat /\ MaxRestarts \in Nat
  /\ Topics \subseteq Notices /\ Errands \subseteq SUBSET Handles /\ Faults \subseteq FaultKinds

VARIABLES
  phase,      \* idle, hear, rules, mark, answer, feed, plan, stall
  queue,      \* messages not heard by everybody; the head is being heard
  ear,        \* the index in Registry of the persona hearing it
  turns,      \* turns_since_owner
  posted,     \* the round's messages: the inbound one, then the replies
  job,        \* the notice being answered: see Jobs
  marked,     \* [Handles -> SUBSET (Tasks \X Keys)]: ReflexLog._seen
  kept,       \* those whose working note was written, on disk
  applied,    \* [Handles -> Nat]: ReflexPolicy._applied
  noted,      \* working notes on tasks: pairs <<persona, task>>
  plans,      \* plan envelopes posted to the room
  ran,        \* <<persona, task, key>> -> how often the executor applied it
  said,       \* decisions posted to the room
  plansPosted, stallsPosted,  \* [Tasks -> Nat], since the process started
  told,       \* failures passed to on_handoff_failed, since it started
  returned,   \* how the last call ended: TRUE, or FALSE if it raised
  calls, restarts

roundVars == <<queue, ear, turns, posted>>
logVars == <<marked, kept, applied, ran>>
roomVars == <<plans, said, plansPosted, stallsPosted, told>>
boundVars == <<calls, restarts>>
vars == <<phase, roundVars, job, ledgerVars, logVars, noted, roomVars, returned, boundVars>>

(* rule: the next of the persona's rules to try; fired: the asks covered    *)
(* by a firing, with the decision each is reported by; misread: the keys    *)
(* whose note was there and could not be read.                              *)
NoFirings == [a \in {} |-> a]
Jobs == [task : Tasks \cup {Nobody}, asks : SUBSET Asks, replyTo : Handles \cup {Nobody},
         sourced : BOOLEAN, rule : Nat \ {0}, fired : UNION {[S -> Decisions] : S \in SUBSET Asks},
         misread : SUBSET Keys]
NoJob == [task |-> Nobody, asks |-> {}, replyTo |-> Nobody, sourced |-> FALSE,
          rule |-> 1, fired |-> NoFirings, misread |-> {}]

Persona == Registry[ear]
Head1 == Head(queue)
Reflexes == Handles \X Tasks \X Keys

Init ==
  /\ phase = "idle" /\ queue = <<>> /\ ear = 1 /\ turns = 0 /\ posted = <<>> /\ job = NoJob
  /\ LedgerInit
  /\ marked = [p \in Handles |-> {}] /\ kept = [p \in Handles |-> {}]
  /\ applied = [p \in Handles |-> 0] /\ ran = [x \in Reflexes |-> 0]
  /\ noted = {}
  /\ plans = {} /\ said = {} /\ told = {}
  /\ plansPosted = [t \in Tasks |-> 0] /\ stallsPosted = [t \in Tasks |-> 0]
  /\ returned = TRUE /\ calls = 0 /\ restarts = 0

-----------------------------------------------------------------------------
(* What is put to the room: owner_says, agent_says, post_notice *)

Mentions(e) ==
  CASE e.kind = "notice" -> {e.origin, e.recipient}
    [] e.kind = "response" ->
         {e.origin, e.recipient} \cup {e.decisions[a].redirect : a \in DOMAIN e.decisions}
    [] e.kind = "plan" -> {e.steps[a].owner : a \in DOMAIN e.steps}
    [] OTHER -> {}

Message(p, e) == [author |-> p, heard |-> Mentions(e) \ {Nobody}, env |-> e]
Chat(p, S) == [author |-> p, heard |-> S, env |-> Prose]

Begin(m) ==
  /\ phase = "idle" /\ calls < MaxCalls
  /\ phase' = "hear" /\ queue' = <<m>> /\ ear' = 1 /\ turns' = 0 /\ posted' = <<m>>
  /\ calls' = calls + 1
  /\ UNCHANGED <<job, ledgerVars, logVars, noted, roomVars, returned, restarts>>

PostNotice == \E e \in Topics : Begin(Message(e.origin, e))

OwnerSays == \E S \in Errands : Begin(Chat(Nobody, S))

(* A frame already in the room comes back, as another's or as its own.      *)
RedeliverPlan == \E e \in plans, p \in Handles : Begin(Message(p, e))

EchoNotice == \E e \in Topics, p \in Handles : p # e.origin /\ Begin(Message(p, e))

(* A response under a name that is not its author's.                        *)
ForgeResponse ==
  \E e \in Topics, p, q \in Handles :
    /\ p # q /\ e.asks # {}
    /\ Begin(Message(p, [kind |-> "response", task |-> e.task, origin |-> q,
                         recipient |-> e.origin,
                         decisions |-> [a \in e.asks |->
                           [choice |-> "accept", redirect |-> Nobody, key |-> Nobody,
                            applied |-> FALSE]]]))

-----------------------------------------------------------------------------
(* run_round *)

Hearing == phase = "hear" /\ queue # <<>>

ShouldRespond(m, p) == p # m.author /\ p \in m.heard

(* The turn cap stops everything but the answers to an owner.               *)
Heard(m, p) == ShouldRespond(m, p) /\ (turns < MaxTurns \/ IsOwner(m))

(* Mutant: the head is read and not taken.                                  *)
NextEar_Peeks(q) ==
  IF ear < Len(Registry) THEN ear' = ear + 1 /\ queue' = q ELSE ear' = 1 /\ queue' = q

(* The next persona hears the head, or the first one the next message.      *)
NextEar(q) ==
  IF ear < Len(Registry)
  THEN ear' = ear + 1 /\ queue' = q
  ELSE ear' = 1 /\ queue' = Tail(q)

StaysQuiet ==
  /\ NextEar(queue)
  /\ phase' = "hear" /\ job' = NoJob
  /\ UNCHANGED <<turns, posted, ledgerVars, logVars, roomVars, returned, boundVars>>

(* An exception leaves the round: no sweep, and the caller sees it.         *)
Abort ==
  /\ phase' = "idle" /\ returned' = FALSE /\ job' = NoJob
  /\ queue' = <<>> /\ posted' = <<>> /\ ear' = 1 /\ turns' = 0

DecisionsSaid(m) ==
  IF m.env.kind # "response" THEN {}
  ELSE {[by |-> m.author, task |-> m.env.task, ask |-> a, decision |-> m.env.decisions[a]] :
          a \in DOMAIN m.env.decisions}

(* A bound no round reaches: the cap stops it first.                        *)
PostedBound == MaxTurns + Len(Registry)

(* transport.post, the turn, and the reply queued for the others.           *)
PostReply(m) ==
  /\ Len(posted) <= PostedBound
  /\ said' = said \cup DecisionsSaid(m)
  /\ turns' = turns + 1
  /\ posted' = Append(posted, m)
  /\ NextEar(Append(queue, m))
  /\ phase' = "hear" /\ job' = NoJob
  /\ UNCHANGED <<plans, plansPosted, stallsPosted, told, returned>>

Overhear ==
  /\ Hearing /\ ~Heard(Head1, Persona)
  /\ StaysQuiet /\ UNCHANGED noted

EndOfRound ==
  /\ phase = "hear" /\ queue = <<>>
  /\ phase' = "feed"
  /\ UNCHANGED <<roundVars, job, ledgerVars, logVars, noted, roomVars, returned, boundVars>>

-----------------------------------------------------------------------------
(* respond *)

MyAsks(e, p) ==
  {a \in DOMAIN e.decisions : e.decisions[a].choice = "decline" /\ e.decisions[a].redirect = p}

(* Whether the head is answered by this layer, for which asks, and to whom. *)
IsNoticeFor(m, p) == m.env.kind = "notice" /\ m.env.origin = m.author /\ m.env.recipient = p
IsRedirectTo(m, p) ==
  m.env.kind = "response" /\ m.env.origin = m.author /\ m.env.recipient # p /\ MyAsks(m.env, p) # {}

(* inner: ordinary chat, which may address somebody.                        *)
Converse ==
  LET m == Head1 IN
  /\ Hearing /\ Heard(m, Persona) /\ (m.env.kind = "prose" \/ IsOwner(m))
  /\ \/ StaysQuiet
     \/ \E S \in {{}} \cup {{p} : p \in Handles} :
          /\ PostReply(Chat(Persona, S))
          /\ UNCHANGED <<ledgerVars, logVars, boundVars>>
  /\ UNCHANGED noted

(* A response to me, or a plan with a step of mine: a note, no reply.       *)
Note(t) == noted' = noted \cup {<<Persona, t>>}

TakesNote(m, p) ==
  /\ m.env.kind \in {"response", "plan"} /\ m.env.origin = m.author
  /\ IF m.env.kind = "response" THEN m.env.recipient = p
     ELSE \E a \in DOMAIN m.env.steps : m.env.steps[a].owner = p

RecordQuietly ==
  LET m == Head1 IN
  /\ Hearing /\ Heard(m, Persona) /\ ~IsOwner(m) /\ TakesNote(m, Persona)
  /\ \/ StaysQuiet /\ Note(m.env.task)
     \/ /\ "note" \in Faults /\ Abort
        /\ UNCHANGED <<noted, ledgerVars, logVars, roomVars, boundVars>>

(* Forged, or nothing to do with me; or I have no voice.                    *)
Ignore ==
  LET m == Head1 IN
  /\ Hearing /\ Heard(m, Persona) /\ ~IsOwner(m) /\ m.env.kind # "prose"
  /\ ~TakesNote(m, Persona)
  /\ ~(IsNoticeFor(m, Persona) \/ IsRedirectTo(m, Persona)) \/ Persona \notin Voiced
  /\ StaysQuiet /\ UNCHANGED noted

(* A notice to me, or the asks redirected to me, as a notice without facts. *)
JobFor(m, p) ==
  IF m.env.kind = "notice"
  THEN [task |-> m.env.task, asks |-> m.env.asks, replyTo |-> m.env.origin,
        sourced |-> m.env.sourced, rule |-> 1, fired |-> NoFirings, misread |-> {}]
  ELSE [task |-> m.env.task, asks |-> MyAsks(m.env, p), replyTo |-> m.env.recipient,
        sourced |-> FALSE, rule |-> 1, fired |-> NoFirings, misread |-> {}]

Take ==
  LET m == Head1 IN
  /\ Hearing /\ Heard(m, Persona) /\ ~IsOwner(m) /\ Persona \in Voiced
  /\ IsNoticeFor(m, Persona) \/ IsRedirectTo(m, Persona)
  /\ phase' = "rules" /\ job' = JobFor(m, Persona)
  /\ UNCHANGED <<roundVars, ledgerVars, logVars, noted, roomVars, returned, boundVars>>

-----------------------------------------------------------------------------
(* fire_reflexes *)

Rule == Bank[Persona][job.rule]
Trying == phase = "rules" /\ job.rule <= Len(Bank[Persona])
Pair == <<job.task, Rule.key>>

Matches == Rule.ask \in job.asks /\ Rule.ask \notin DOMAIN job.fired

(* A note of that name is on disk; a look-up reads the notes, or cannot.    *)
HasNote(p, x) == \E y \in kept[p] : NoteName[y] = NoteName[x]
Reads == IF "read" \in Faults THEN BOOLEAN ELSE {TRUE}

(* Mutant: only what this process marked is seen.                           *)
Seen_ThisProcess(p, x, read) == x \in marked[p]

(* ReflexLog.seen: in memory, or as a note that can be read.                *)
Seen(p, x, read) == x \in marked[p] \/ (read /\ HasNote(p, x))

(* Mutant: a claim without provenance will do.                              *)
PolicyAllows_Unsourced(p, x, read) ==
  x[2] \in Listed[p] /\ ~Seen(p, x, read) /\ applied[p] < MaxApplies

(* ReflexPolicy, which looks for itself: direction is hardcoded in the      *)
(* proposal.                                                                *)
PolicyAllows(p, x, read) ==
  x[2] \in Listed[p] /\ job.sourced /\ ~Seen(p, x, read) /\ applied[p] < MaxApplies

Firing(ok) == [choice |-> "reflexed", redirect |-> Nobody, key |-> Rule.key, applied |-> ok]

(* What is known unread once this rule's note was looked up.                *)
Misread(read) ==
  IF ~read /\ HasNote(Persona, Pair) THEN job.misread \cup {Rule.key} ELSE job.misread

Covered(ok) ==
  [a \in DOMAIN job.fired \cup {Rule.ask} |-> IF a = Rule.ask THEN Firing(ok) ELSE job.fired[a]]

Cover(ok, misread) ==
  /\ phase' = "rules"
  /\ job' = [job EXCEPT !.rule = @ + 1, !.fired = Covered(ok), !.misread = misread]

SkipRule(misread) ==
  phase' = "rules" /\ job' = [job EXCEPT !.rule = @ + 1, !.misread = misread]

firingRest == <<roundVars, ledgerVars, noted, roomVars, boundVars>>

(* No match, or refused: the ask may still be another rule's, or the model's. *)
PassOver ==
  /\ Trying
  /\ \/ ~Matches /\ SkipRule(job.misread)
     \/ \E read, again \in Reads :
          /\ Matches /\ ~Seen(Persona, Pair, read) /\ ~PolicyAllows(Persona, Pair, again)
          /\ SkipRule(Misread(read))
  /\ UNCHANGED <<logVars, returned, firingRest>>

(* Mutant: what was applied before is skipped without a word.               *)
ReportSeen_Silent ==
  /\ Trying /\ Matches /\ \E read \in Reads : Seen(Persona, Pair, read)
  /\ SkipRule(job.misread)
  /\ UNCHANGED <<logVars, returned, firingRest>>

ReportSeen ==
  /\ Trying /\ Matches /\ \E read \in Reads : Seen(Persona, Pair, read)
  /\ Cover(TRUE, job.misread)
  /\ UNCHANGED <<logVars, returned, firingRest>>

RunReflex ==
  /\ Trying /\ Matches
  /\ \E read, again \in Reads :
       /\ ~Seen(Persona, Pair, read) /\ PolicyAllows(Persona, Pair, again)
       /\ \/ /\ ran' = [ran EXCEPT ![<<Persona, job.task, Rule.key>>] = @ + 1]
             /\ phase' = "mark" /\ job' = [job EXCEPT !.misread = Misread(read)]
          \/ Cover(FALSE, Misread(read)) /\ UNCHANGED ran
  /\ UNCHANGED <<marked, kept, applied, returned, firingRest>>

(* mark, then note_applied; an unwritable note escapes the round.           *)
MarkReflex ==
  /\ phase = "mark"
  /\ marked' = [marked EXCEPT ![Persona] = @ \cup {Pair}]
  /\ \/ /\ kept' = [kept EXCEPT ![Persona] = @ \cup {Pair}]
        /\ applied' = [applied EXCEPT ![Persona] = @ + 1]
        /\ Cover(TRUE, job.misread)
        /\ UNCHANGED <<roundVars, returned>>
     \/ /\ "mark" \in Faults
        /\ Abort
        /\ UNCHANGED <<kept, applied>>
  /\ UNCHANGED <<ran, noted, ledgerVars, roomVars, boundVars>>

AllRulesTried ==
  /\ phase = "rules" /\ job.rule > Len(Bank[Persona])
  /\ phase' = "answer"
  /\ UNCHANGED <<job, logVars, returned, firingRest>>
-----------------------------------------------------------------------------
(* _negotiate, once its reflexes are tried *)

Remaining == job.asks \ DOMAIN job.fired

(* Reconciled: one decision per ask, defer where the model had none or was  *)
(* down; a redirect only in a decline, to a colleague who is not p.         *)
ModelDecisions(p) ==
  [choice : {"accept", "decline", "defer"}, redirect : {Nobody}, key : {Nobody},
   applied : {FALSE}]
  \cup [choice : {"decline"}, redirect : Colleagues \ {p}, key : {Nobody}, applied : {FALSE}]

Response(model) ==
  Message(Persona,
    [kind |-> "response", task |-> job.task, origin |-> Persona, recipient |-> job.replyTo,
     decisions |-> [a \in DOMAIN job.fired \cup DOMAIN model |->
                      IF a \in DOMAIN job.fired THEN job.fired[a] ELSE model[a]]])

Answering == phase = "answer"

(* A notice without asks draws no reply.                                    *)
NoteWithoutAsks ==
  /\ Answering /\ Remaining = {} /\ job.fired = NoFirings
  /\ \/ StaysQuiet /\ Note(job.task)
     \/ /\ "note" \in Faults /\ Abort
        /\ UNCHANGED <<noted, ledgerVars, logVars, roomVars, boundVars>>

(* A model that is down raises only if nobody asked for quiet and nothing   *)
(* fired.                                                                   *)
ModelDown ==
  /\ Answering /\ Remaining # {} /\ "model" \in Faults
  /\ ~QuietOnError /\ job.fired = NoFirings
  /\ Abort
  /\ UNCHANGED <<noted, ledgerVars, logVars, roomVars, boundVars>>

(* The note, the transcript's pair of turns, the post: any of them may fail *)
(* with those before it done.                                               *)
AnswerAsks ==
  /\ Answering /\ (Remaining # {} \/ job.fired # NoFirings)
  /\ \/ /\ \E model \in [Remaining -> ModelDecisions(Persona)] : PostReply(Response(model))
        /\ noted' = noted \cup {<<Persona, job.task>>}
     \/ /\ "note" \in Faults
        /\ Abort /\ UNCHANGED <<noted, roomVars>>
     \/ /\ {"transcript", "post"} \cap Faults # {}
        /\ Abort /\ noted' = noted \cup {<<Persona, job.task>>} /\ UNCHANGED roomVars
  /\ UNCHANGED <<ledgerVars, logVars, boundVars>>

-----------------------------------------------------------------------------
(* _sweep *)

sweepRest == <<queue, ear, turns, job, logVars, noted, boundVars>>

(* The inbound message, then the replies in order.                          *)
FeedNext ==
  /\ phase = "feed" /\ posted # <<>>
  /\ Feed(Head(posted)) /\ posted' = Tail(posted)
  /\ UNCHANGED <<phase, roomVars, returned, sweepRest>>

AllFed ==
  /\ phase = "feed" /\ posted = <<>>
  /\ phase' = "plan"
  /\ UNCHANGED <<posted, ledgerVars, roomVars, returned, sweepRest>>

SweepFails ==
  /\ "post" \in Faults
  /\ phase' = "idle" /\ returned' = FALSE
  /\ UNCHANGED <<ledgerVars, roomVars>>

PostPlan(t) ==
  /\ plans' = plans \cup {ComposePlan(t)}
  /\ plansPosted' = [plansPosted EXCEPT ![t] = @ + 1]
  /\ MarkPlanned(t)
  /\ UNCHANGED <<said, stallsPosted, told, phase, returned>>

SweepPlans ==
  /\ phase = "plan"
  /\ \E t \in PlanWorthy : PostPlan(t) \/ SweepFails
  /\ UNCHANGED <<posted, sweepRest>>

AllPlanned ==
  /\ phase = "plan" /\ PlanWorthy = {}
  /\ phase' = "stall"
  /\ UNCHANGED <<posted, ledgerVars, roomVars, returned, sweepRest>>

Stalled(t) == [task |-> t, by |-> Nobody, ask |-> Nobody, reason |-> "stalled"]

(* The owner is called on in prose, and the callback told.                  *)
PostStall(t) ==
  /\ stallsPosted' = [stallsPosted EXCEPT ![t] = @ + 1]
  /\ MarkStalled(t)
  /\ told' = told \cup {Stalled(t)}
  /\ UNCHANGED <<plans, said, plansPosted, phase, returned>>

SweepStalls ==
  /\ phase = "stall"
  /\ \E t \in Unresolved \ stalled : PostStall(t) \/ SweepFails
  /\ UNCHANGED <<posted, sweepRest>>

DrainFailures ==
  /\ told' = told \cup failures
  /\ ConsumeFailures
  /\ UNCHANGED <<plans, said, plansPosted, stallsPosted>>

EndOfSweep ==
  /\ phase = "stall" /\ Unresolved \subseteq stalled
  /\ DrainFailures
  /\ phase' = "idle" /\ returned' = TRUE
  /\ UNCHANGED <<posted, sweepRest>>

-----------------------------------------------------------------------------
(* The process: the ledger, the in-memory logs and the counters are lost. *)

Restart ==
  /\ restarts < MaxRestarts
  /\ restarts' = restarts + 1
  /\ Abort
  /\ LedgerLost
  /\ marked' = [p \in Handles |-> {}] /\ applied' = [p \in Handles |-> 0]
  /\ plansPosted' = [t \in Tasks |-> 0] /\ stallsPosted' = [t \in Tasks |-> 0]
  /\ told' = {}
  /\ UNCHANGED <<kept, ran, noted, plans, said, calls>>

RoundStep ==
  \/ Overhear \/ EndOfRound \/ Converse \/ RecordQuietly \/ Ignore \/ Take
  \/ PassOver \/ ReportSeen \/ RunReflex \/ MarkReflex \/ AllRulesTried
  \/ NoteWithoutAsks \/ ModelDown \/ AnswerAsks

SweepStep ==
  FeedNext \/ AllFed \/ SweepPlans \/ AllPlanned \/ SweepStalls \/ EndOfSweep

Next ==
  \/ PostNotice \/ OwnerSays \/ RedeliverPlan \/ EchoNotice \/ ForgeResponse
  \/ RoundStep \/ SweepStep
  \/ Restart

Spec == Init /\ [][Next]_vars

(* One thread runs the round and the sweep to their end.                    *)
FairSpec == Spec /\ WF_vars(RoundStep \/ SweepStep)
-----------------------------------------------------------------------------
(* Properties *)

(* Every variable has the values the code gives it.                        *)
NegotiationTypeOK ==
  /\ phase \in {"idle", "hear", "rules", "mark", "answer", "feed", "plan", "stall"}
  /\ ear \in 1..Len(Registry) /\ turns \in Nat
  /\ queue \in Seq(Messages) /\ posted \in Seq(Messages)
  /\ job \in Jobs
  /\ LedgerType
  /\ marked \in [Handles -> SUBSET (Tasks \X Keys)]
  /\ kept \in [Handles -> SUBSET (Tasks \X Keys)]
  /\ applied \in [Handles -> Nat] /\ ran \in [Reflexes -> Nat]
  /\ noted \subseteq Handles \X Tasks
  /\ plans \subseteq Plans
  /\ said \subseteq [by : Handles, task : Tasks, ask : Asks, decision : Decisions]
  /\ plansPosted \in [Tasks -> Nat] /\ stallsPosted \in [Tasks -> Nat]
  /\ told \subseteq FailureRecords \cup {Stalled(t) : t \in Tasks}
  /\ returned \in BOOLEAN /\ calls \in Nat /\ restarts \in Nat

(* A reflex that was recorded does not run again for its task, whatever is  *)
(* redelivered or reused: not in the process that ran it, and after a       *)
(* restart only if its note is there and cannot be read (reflex.py: seen).  *)
Recorded(p) == marked[p] \cup kept[p]
RecordedNeverReruns ==
  [][\A p \in Handles : \A x \in Recorded(p) :
       ran'[<<p, x[1], x[2]>>] # ran[<<p, x[1], x[2]>>] =>
         x \notin marked[p] /\ x[2] \in job'.misread]_vars

(* A reflex runs only for a sourced notice that its own origin put to that  *)
(* persona, on a listed capability and an ask of that notice: never for a   *)
(* redirect, an echo or a reused id without a source (reflex.py:            *)
(* ReflexPolicy, build_proposal; negotiation.py: _is_mine).                 *)
RunsOnlySourced ==
  [][\A p \in Handles, t \in Tasks, k \in Keys :
       ran'[<<p, t, k>>] # ran[<<p, t, k>>] =>
         LET e == Head1.env IN
         /\ e \in Topics /\ e.origin = Head1.author /\ e.recipient = p /\ e.task = t
         /\ e.sourced /\ k \in Listed[p]
         /\ \E i \in DOMAIN Bank[p] : Bank[p][i].key = k /\ Bank[p][i].ask \in e.asks]_vars

(* An answer tells what was applied: the ask of a reflex recorded for the   *)
(* task is answered by a reflex, and not with that capability as unapplied, *)
(* also when the answer is the retry of one cut short, before or after a    *)
(* restart; unless its note could not be read for this very answer          *)
(* (negotiation.py: S6; reflex.py: "previously applied").                   *)
Reports(rule) ==
  /\ Len(posted') > Len(posted)
  /\ LET e == posted'[Len(posted')].env IN
     /\ e.task = job.task /\ rule.ask \in DOMAIN e.decisions
     /\ e.decisions[rule.ask].choice = "reflexed"
     /\ e.decisions[rule.ask].key = rule.key => e.decisions[rule.ask].applied
AppliedIsReported ==
  [][(phase = "answer" /\ phase' = "hear") =>
       \A i \in DOMAIN Bank[Persona] :
         LET rule == Bank[Persona][i] IN
         (/\ rule.ask \in job.asks /\ rule.key \notin job.misread
          /\ <<job.task, rule.key>> \in Recorded(Persona)) => Reports(rule)]_vars

(* A plan tells the owner the truth: a step done was reported applied on    *)
(* that ask by its owner, whose reflex of that name ran; a step that needs  *)
(* approval was accepted by its owner in the room (negotiation.py:          *)
(* compose_plan; group_chat.py: forged frames are inert).                   *)
HasRun(p, t, k) ==
  \E y \in Tasks \X Keys : NoteName[y] = NoteName[<<t, k>>] /\ ran[<<p, y[1], y[2]>>] > 0
Told(p, t, a) == {s.decision : s \in {s \in said : s.by = p /\ s.task = t /\ s.ask = a}}
PlansAreTrue ==
  \A e \in plans : \A a \in DOMAIN e.steps :
    LET step == e.steps[a] IN
    /\ step.status = "done" =>
         \E d \in Told(step.owner, e.task, a) : d.applied /\ HasRun(step.owner, e.task, d.key)
    /\ step.status = "needs-approval" =>
         \E d \in Told(step.owner, e.task, a) : d.choice = "accept"

(* When a call has returned, the owner has heard of every task: called on   *)
(* if something of it is open, given a plan if something is left for him    *)
(* (negotiation.py: _sweep).                                                *)
OwnerHearsOfEveryTask ==
  (phase = "idle" /\ returned) =>
    \A t \in Tasks :
      /\ IsOpen(t) => stallsPosted[t] = 1
      /\ (~IsOpen(t) /\ \E a \in Asks : asked[t][a].state \in {"accepted", "owner"}) =>
           \E e \in plans : e.task = t

(* The failure hook is told of an ask once, and only when it went to the    *)
(* owner by that colleague's refusal; when a call has returned it has been  *)
(* told of every such ask (negotiation.py: feed, consume_failures).         *)
AskFailures == {r \in FailureRecords : r.reason # "parse_failed"}
Deferred(t, a) ==
  \E s \in said : /\ s.by = asked[t][a].decider /\ s.task = t /\ s.ask = a
                   /\ s.decision.choice = "defer"
FailuresAreTrue ==
  /\ \A r \in (failures \cup told) :
       r.reason \in {"declined", "reflex_refused"} =>
         asked[r.task][r.ask] = AskState("owner", r.by)
  /\ \A r \in failures \cap told : r.reason = "parse_failed"
  /\ (phase = "idle" /\ returned) =>
       \A t \in Tasks, a \in Asks :
         asked[t][a].state = "owner" =>
           Deferred(t, a) \/ \E r \in told : r.task = t /\ r.ask = a

(* However often asks are redirected, a round posts no more than its cap,   *)
(* or one reply of each persona to an owner (group_chat.py: run_round).     *)
RoundCap == IF MaxTurns > Len(Registry) THEN MaxTurns ELSE Len(Registry)
RoundIsCapped == Len(posted) <= 1 + RoundCap

(* What a call has still to do: the part it is in, its hearings or messages *)
(* or tasks left in it, and the steps left of the answer at hand.           *)
HearingsLeft == (Len(queue) + RoundCap - turns) * Len(Registry) + 1 - ear
RulesLeft == Len(Bank[Persona]) + 1 - job.rule
CallLeft ==
  CASE phase = "hear"   -> <<3, HearingsLeft, 2 * Len(Bank[Persona]) + 4>>
    [] phase = "rules"  -> <<3, HearingsLeft, 2 * RulesLeft + 2>>
    [] phase = "mark"   -> <<3, HearingsLeft, 2 * RulesLeft + 1>>
    [] phase = "answer" -> <<3, HearingsLeft, 0>>
    [] phase = "feed"   -> <<2, Len(posted), 0>>
    [] phase = "plan"   -> <<1, Cardinality(PlanWorthy), 0>>
    [] phase = "stall"  -> <<0, Cardinality(Unresolved \ stalled), 0>>
    [] OTHER            -> <<0, 0, 0>>

(* Each step of a call ends it or leaves less of it to do: whatever is      *)
(* redirected, redelivered, retried or fails, no call goes on for ever      *)
(* (group_chat.py: run_round; negotiation.py: _sweep).                      *)
Shortens(m, n) ==
  \/ m[1] < n[1]
  \/ m[1] = n[1] /\ (m[2] < n[2] \/ (m[2] = n[2] /\ m[3] < n[3]))
CallsShorten ==
  [][phase # "idle" =>
       /\ CallLeft \in Nat \X Nat \X Nat
       /\ phase' = "idle" \/ Shortens(CallLeft', CallLeft)]_vars

(* A call to the room ends: the round goes quiet and the sweep is done.     *)
CallsEnd == phase # "idle" ~> phase = "idle"

(* Each ask is settled once, by whoever answers it first or, if it was      *)
(* handed on, by that colleague; one plan at most, one call on the owner at *)
(* most.                                                                    *)
Settlement == INSTANCE AskSettlement
  WITH ask <- asked, plans <- plansPosted, calls <- stallsPosted
ImplementsSettlement == Settlement!SettlementSpec
==============================================================================

