----------------------- MODULE NegotiationTruthProofs -----------------------
(***************************************************************************)
(* What a negotiated room guarantees, for every registry, bank of rules,   *)
(* naming of notes, set of notices and combination of faults: a recorded   *)
(* reflex runs again only if its note cannot be read, runs on a sourced    *)
(* notice only and is reported; what a plan and the failure hook say is    *)
(* true; the owner hears of every task, and the asks are settled as        *)
(* AskSettlement says.                                                     *)
(***************************************************************************)
EXTENDS NegotiationProofs

Call == PostNotice \/ OwnerSays \/ RedeliverPlan \/ EchoNotice \/ ForgeResponse

(* The steps that touch no reflex and leave no notice half answered.        *)
CalmStep ==
  \/ Call \/ Overhear \/ EndOfRound \/ Converse \/ RecordQuietly \/ Ignore
  \/ NoteWithoutAsks \/ ModelDown \/ SweepStep

LEMMA CallBegins ==
  ASSUME TypeInv, Call
  PROVE  \E m \in Messages :
           /\ Begin(m)
           /\ m.env.kind = "notice" => m.env \in Topics
           /\ m.env.kind = "plan" => m.env \in plans
           /\ m.env.kind = "response" => m.env.origin # m.author
<1>1. Topics \subseteq Notices /\ Notices \subseteq Envelopes /\ Plans \subseteq Envelopes
      /\ plans \subseteq Plans
  BY RoomAssumption DEF Envelopes, TypeInv, RoomType
<1>2. ASSUME NEW e \in Topics, NEW p \in Handles
      PROVE  /\ Message(p, e) \in Messages /\ Message(p, e).env = e
             /\ e.kind = "notice" /\ e.origin \in Handles
  BY <1>1, MessageType DEF Message, Notices
<1>3. CASE PostNotice
  BY <1>1, <1>2, <1>3 DEF PostNotice, Notices
<1>4. CASE OwnerSays
  <2>1. PICK S \in Errands : Begin(Chat(Nobody, S))
    BY <1>4 DEF OwnerSays
  <2>2. Chat(Nobody, S) \in Messages /\ Chat(Nobody, S).env.kind = "prose"
    BY ChatType, RoomAssumption DEF Chat, Prose
  <2>3. QED
    BY <2>1, <2>2
<1>5. CASE RedeliverPlan
  <2>1. PICK e \in plans, p \in Handles : Begin(Message(p, e))
    BY <1>5 DEF RedeliverPlan
  <2>2. Message(p, e) \in Messages /\ Message(p, e).env = e /\ e.kind = "plan"
    BY <1>1, MessageType DEF Message, Plans
  <2>3. QED
    BY <2>1, <2>2
<1>6. CASE EchoNotice
  BY <1>2, <1>6 DEF EchoNotice
<1>7. CASE ForgeResponse
  <2> DEFINE yes == [choice |-> "accept", redirect |-> Nobody, key |-> Nobody, applied |-> FALSE]
  <2> DEFINE frame(e, q) == [kind |-> "response", task |-> e.task, origin |-> q,
                             recipient |-> e.origin, decisions |-> [a \in e.asks |-> yes]]
  <2>1. PICK e \in Topics, p \in Handles, q \in Handles :
          p # q /\ e.asks # {} /\ Begin(Message(p, frame(e, q)))
    BY <1>7 DEF ForgeResponse
  <2>2. e.task \in Tasks /\ e.origin \in Handles /\ e.asks \in SomeAsks
    BY <1>1, <2>1 DEF Notices, SomeAsks
  <2>3. yes \in Decisions
    BY DEF Decisions
  <2>4. [a \in e.asks |-> yes] \in UNION {[S -> Decisions] : S \in SomeAsks}
    BY <2>2, <2>3
  <2>5. frame(e, q) \in Envelopes
    BY <2>2, <2>4 DEF Responses, Envelopes
  <2>6. Message(p, frame(e, q)) \in Messages
    BY <2>5, MessageType
  <2>7. Message(p, frame(e, q)).env.kind = "response"
        /\ Message(p, frame(e, q)).env.origin # Message(p, frame(e, q)).author
    BY <2>1 DEF Message
  <2>8. QED
    BY <2>1, <2>6, <2>7
<1>8. QED
  BY <1>3, <1>4, <1>5, <1>6, <1>7 DEF Call

LEMMA CalmSteps ==
  ASSUME TypeInv, CalmStep
  PROVE  phase' \notin {"rules", "mark", "answer"} /\ UNCHANGED logVars /\ UNCHANGED said
<1>1. CASE Call
  BY <1>1, CallBegins DEF Begin, roomVars
<1>2. CASE Overhear \/ Ignore \/ EndOfRound
  BY <1>2 DEF Overhear, Ignore, EndOfRound, StaysQuiet, roomVars
<1>3. CASE RecordQuietly \/ NoteWithoutAsks \/ ModelDown
  BY <1>3 DEF RecordQuietly, NoteWithoutAsks, ModelDown, StaysQuiet, Abort, roomVars
<1>4. CASE Converse
  BY <1>4 DEF Converse, StaysQuiet, PostReply, DecisionsSaid, Chat, Prose, roomVars
<1>5. CASE SweepStep
  BY <1>5 DEF SweepStep, FeedNext, AllFed, SweepPlans, AllPlanned, SweepStalls, EndOfSweep,
              PostPlan, PostStall, SweepFails, DrainFailures, roomVars, sweepRest, logVars
<1>6. QED
  BY <1>1, <1>2, <1>3, <1>4, <1>5 DEF CalmStep

LEMMA StepsSplit ==
  ASSUME Next
  PROVE  \/ CalmStep \/ Take \/ PassOver \/ ReportSeen \/ RunReflex \/ MarkReflex
         \/ AllRulesTried \/ AnswerAsks \/ Restart
  BY DEF Next, RoundStep, CalmStep, Call

-----------------------------------------------------------------------------
(* A recorded reflex never runs again *)

LEMMA OnlyRunReflexRuns ==
  ASSUME TypeInv, [Next]_vars, ~RunReflex
  PROVE  UNCHANGED ran
<1>1. CASE CalmStep
  BY <1>1, CalmSteps DEF logVars
<1>2. CASE Take \/ PassOver \/ ReportSeen \/ MarkReflex \/ AllRulesTried \/ AnswerAsks \/ Restart
  BY <1>2 DEF Take, PassOver, ReportSeen, MarkReflex, AllRulesTried, AnswerAsks, Restart, logVars
<1>3. CASE UNCHANGED vars
  BY <1>3 DEF vars, logVars
<1>4. QED
  BY <1>1, <1>2, <1>3, StepsSplit

LEMMA RunsUnrecorded ==
  ASSUME TypeInv, [Next]_vars, NEW p \in Handles, NEW x \in Recorded(p),
         ran'[<<p, x[1], x[2]>>] # ran[<<p, x[1], x[2]>>]
  PROVE  x \notin marked[p] /\ x[2] \in job'.misread
<1>1. RunReflex /\ job \in Jobs /\ x \in Tasks \X Keys
  BY OnlyRunReflexRuns DEF TypeInv, LogType, RoundType, Recorded
<1>2. ran' = [ran EXCEPT ![<<Persona, job.task, Rule.key>>] = @ + 1]
  BY <1>1 DEF RunReflex
<1>3. p = Persona /\ x = Pair /\ x[2] = Rule.key
  <2>1. <<p, x[1], x[2]>> \in Reflexes /\ ran \in [Reflexes -> Nat]
    BY <1>1 DEF TypeInv, LogType, Reflexes
  <2>2. <<p, x[1], x[2]>> = <<Persona, job.task, Rule.key>>
    BY <1>2, <2>1
  <2>3. QED
    BY <1>1, <2>2 DEF Pair
<1>4. PICK read \in Reads : ~Seen(Persona, Pair, read) /\ job'.misread = Misread(read)
  <2>1. PICK read \in Reads : /\ ~Seen(Persona, Pair, read)
                              /\ \/ job' = [job EXCEPT !.misread = Misread(read)]
                                 \/ Cover(FALSE, Misread(read))
    BY <1>1 DEF RunReflex
  <2>2. job'.misread = Misread(read)
    BY <1>1, <2>1 DEF Cover, Jobs
  <2>3. QED
    BY <2>1, <2>2
<1>5. x \notin marked[p] /\ HasNote(Persona, Pair) /\ ~read
  BY <1>3, <1>4 DEF Recorded, Seen, HasNote
<1>6. QED
  BY <1>3, <1>4, <1>5 DEF Misread

(* What was recorded does not run again, unless it was recorded before a    *)
(* restart, on disk, in a note that is there and cannot be read (reflex.py: *)
(* seen; shared_memory.py: load_fact): in every room, with every fault and  *)
(* whatever names the notes have.                                           *)
THEOREM NeverReruns == Spec => RecordedNeverReruns
<1>1. TypeInv /\ [Next]_vars =>
        (\A p \in Handles : \A x \in Recorded(p) :
           ran'[<<p, x[1], x[2]>>] # ran[<<p, x[1], x[2]>>] =>
             x \notin marked[p] /\ x[2] \in job'.misread)
  BY RunsUnrecorded
<1>2. QED
  BY <1>1, TypeInvAlways, PTL DEF Spec, RecordedNeverReruns

-----------------------------------------------------------------------------
(* A reflex runs on a sourced notice only *)

SourcedMsgs(q) == \A i \in 1..Len(q) : q[i].env.kind = "notice" => q[i].env \in Topics

(* The message m is a sourced notice to p, of task t and with those asks.   *)
Gives(m, p, t, asks) ==
  /\ m.env \in Topics /\ m.env.origin = m.author /\ m.env.recipient = p /\ m.env.task = t
  /\ m.env.sourced /\ asks = m.env.asks

SourceInv ==
  /\ SourcedMsgs(queue)
  /\ AtWork /\ job.sourced => Gives(Head1, Persona, job.task, job.asks)

LEMMA NextEarSourced ==
  ASSUME TypeInv, NEW q \in Seq(Messages), q # <<>>, SourcedMsgs(q), NextEar(q)
  PROVE  SourcedMsgs(queue')
<1>1. CASE queue' = q
  BY <1>1
<1>2. CASE queue' = Tail(q)
  BY <1>2, HeadTailProperties DEF SourcedMsgs
<1>3. QED
  BY <1>1, <1>2 DEF NextEar

LEMMA ReplySourced ==
  ASSUME TypeInv, SourcedMsgs(queue), NEW m \in Messages, m.env.kind # "notice", PostReply(m)
  PROVE  SourcedMsgs(queue')
<1>1. queue \in Seq(Messages)
  BY DEF TypeInv, RoundType
<1>2. Append(queue, m) \in Seq(Messages) /\ Append(queue, m) # <<>>
  BY <1>1, AppendProperties
<1>3. SourcedMsgs(Append(queue, m))
  BY <1>1, AppendProperties DEF SourcedMsgs
<1>4. QED
  BY <1>2, <1>3, NextEarSourced DEF PostReply

LEMMA QueueSourced ==
  ASSUME TypeInv, SourcedMsgs(queue), [Next]_vars
  PROVE  SourcedMsgs(queue')
<1>1. queue \in Seq(Messages)
  BY DEF TypeInv, RoundType
<1>2. CASE UNCHANGED queue
  BY <1>2
<1>3. CASE Abort
  BY <1>3 DEF Abort, SourcedMsgs
<1>4. CASE queue # <<>> /\ StaysQuiet
  BY <1>1, <1>4, NextEarSourced DEF StaysQuiet
<1>5. CASE Call
  <2>1. PICK m \in Messages : Begin(m) /\ (m.env.kind = "notice" => m.env \in Topics)
    BY <1>5, CallBegins
  <2>2. QED
    BY <2>1 DEF Begin, SourcedMsgs
<1>6. CASE Converse
  <2>1. CASE StaysQuiet
    BY <1>4, <1>6, <2>1 DEF Converse, Hearing
  <2>2. ASSUME NEW S \in {{}} \cup {{p} : p \in Handles}, PostReply(Chat(Persona, S))
        PROVE  SourcedMsgs(queue')
    <3>1. Chat(Persona, S) \in Messages /\ Chat(Persona, S).env.kind # "notice"
      BY PersonaType, ChatType DEF TypeInv, Chat, Prose
    <3>2. QED
      BY <2>2, <3>1, ReplySourced
  <2>3. QED
    BY <1>6, <2>1, <2>2 DEF Converse
<1>7. CASE AnswerAsks
  <2>1. ASSUME NEW model \in [Remaining -> ModelDecisions(Persona)], PostReply(Response(model))
        PROVE  SourcedMsgs(queue')
    <3>1. Response(model) \in Messages
      BY <1>7, ResponseType DEF AnswerAsks, Answering
    <3>2. Response(model).env.kind # "notice"
      BY DEF Response, Message
    <3>3. QED
      BY <2>1, <3>1, <3>2, ReplySourced
  <2>2. QED
    BY <1>3, <1>7, <2>1 DEF AnswerAsks
<1>8. CASE Overhear \/ EndOfRound \/ RecordQuietly \/ Ignore \/ ModelDown
  BY <1>2, <1>3, <1>4, <1>8
     DEF Overhear, EndOfRound, RecordQuietly, Ignore, ModelDown, Hearing, roundVars
<1>9. CASE NoteWithoutAsks
  <2>1. queue # <<>>
    BY <1>9 DEF NoteWithoutAsks, Answering, TypeInv, JobInv, AtWork
  <2>2. QED
    BY <1>3, <1>4, <1>9, <2>1 DEF NoteWithoutAsks
<1>10. CASE Take \/ PassOver \/ ReportSeen \/ RunReflex \/ MarkReflex \/ AllRulesTried
  BY <1>2, <1>3, <1>10
     DEF Take, PassOver, ReportSeen, RunReflex, MarkReflex, AllRulesTried, firingRest, roundVars
<1>11. CASE SweepStep
  BY <1>2, <1>11
     DEF SweepStep, FeedNext, AllFed, SweepPlans, AllPlanned, SweepStalls, EndOfSweep, sweepRest
<1>12. CASE Restart
  BY <1>3, <1>12 DEF Restart
<1>13. CASE UNCHANGED vars
  BY <1>2, <1>13 DEF vars, roundVars
<1>14. QED
  BY <1>5, <1>6, <1>7, <1>8, <1>9, <1>10, <1>11, <1>12, <1>13 DEF Next, RoundStep, Call

(* A job never becomes another's, nor gets a source, while it is at work.   *)
LEMMA JobStays ==
  ASSUME TypeInv, [Next]_vars, ~Take
  PROVE  \/ phase' \notin {"rules", "mark", "answer"}
         \/ /\ AtWork /\ Persona' = Persona /\ queue' = queue
            /\ job'.task = job.task /\ job'.asks = job.asks /\ job'.sourced = job.sourced
<1>1. CASE CalmStep
  BY <1>1, CalmSteps
<1>2. CASE Abort \/ Restart
  BY <1>2 DEF Abort, Restart
<1>3. job \in Jobs
  BY DEF TypeInv, RoundType
<1>4. ASSUME NEW u, UNCHANGED roundVars, AtWork,
             \/ SkipRule(u) \/ Cover(TRUE, u) \/ Cover(FALSE, u)
             \/ job' = [job EXCEPT !.misread = u] \/ UNCHANGED job
      PROVE  /\ AtWork /\ Persona' = Persona /\ queue' = queue
             /\ job'.task = job.task /\ job'.asks = job.asks /\ job'.sourced = job.sourced
  BY <1>3, <1>4 DEF Jobs, SkipRule, Cover, Persona, roundVars
<1>5. CASE PassOver
  <2>1. PICK u : SkipRule(u)
    BY <1>5 DEF PassOver
  <2>2. QED
    BY <1>4, <1>5, <2>1 DEF PassOver, Trying, AtWork, firingRest
<1>6. CASE ReportSeen \/ AllRulesTried
  BY <1>4, <1>6 DEF ReportSeen, AllRulesTried, Trying, AtWork, firingRest
<1>7. CASE RunReflex
  <2>1. PICK u : Cover(FALSE, u) \/ job' = [job EXCEPT !.misread = u]
    BY <1>7 DEF RunReflex
  <2>2. QED
    BY <1>4, <1>7, <2>1 DEF RunReflex, Trying, AtWork, firingRest
<1>8. CASE MarkReflex
  BY <1>2, <1>4, <1>8 DEF MarkReflex, AtWork
<1>9. CASE AnswerAsks
  BY <1>2, <1>9 DEF AnswerAsks, PostReply
<1>10. CASE UNCHANGED vars
  BY <1>10 DEF vars, roundVars, Persona, AtWork
<1>11. QED
  BY <1>1, <1>2, <1>5, <1>6, <1>7, <1>8, <1>9, <1>10, StepsSplit

LEMMA SourceNext ==
  ASSUME TypeInv, SourceInv, [Next]_vars
  PROVE  SourceInv'
<1>1. SourcedMsgs(queue')
  BY QueueSourced DEF SourceInv
<1>2. (AtWork /\ job.sourced => Gives(Head1, Persona, job.task, job.asks))'
  <2>1. CASE Take
    <3>1. /\ Head1 \in Messages /\ Head1 = queue[1] /\ 1 \in 1..Len(queue)
          /\ Head1' = Head1 /\ Persona' = Persona
      BY <2>1, HeadType DEF Take, Hearing, TypeInv, RoundType, Head1, Persona, roundVars
    <3>2. CASE job'.sourced
      <4>1. IsNoticeFor(Head1, Persona) /\ job' = JobFor(Head1, Persona)
        BY <2>1, <3>2 DEF Take, IsRedirectTo, JobFor
      <4>2. Head1.env \in Topics
        BY <3>1, <4>1 DEF SourceInv, SourcedMsgs, IsNoticeFor
      <4>3. Gives(Head1, Persona, job'.task, job'.asks)
        BY <3>2, <4>1, <4>2 DEF Gives, JobFor, IsNoticeFor
      <4>4. QED
        BY <3>1, <4>3 DEF Gives
    <3>3. QED
      BY <3>2
  <2>2. CASE ~Take
    BY <2>2, JobStays DEF SourceInv, AtWork, Gives, Head1
  <2>3. QED
    BY <2>1, <2>2
<1>3. QED
  BY <1>1, <1>2 DEF SourceInv

LEMMA RunsSourced ==
  ASSUME TypeInv, SourceInv, [Next]_vars, NEW p \in Handles, NEW t \in Tasks, NEW k \in Keys,
         ran'[<<p, t, k>>] # ran[<<p, t, k>>]
  PROVE  LET e == Head1.env IN
         /\ e \in Topics /\ e.origin = Head1.author /\ e.recipient = p /\ e.task = t
         /\ e.sourced /\ k \in Listed[p]
         /\ \E i \in DOMAIN Bank[p] : Bank[p][i].key = k /\ Bank[p][i].ask \in e.asks
<1>1. RunReflex
  BY OnlyRunReflexRuns
<1>2. /\ ran' = [ran EXCEPT ![<<Persona, job.task, Rule.key>>] = @ + 1]
      /\ AtWork /\ job.sourced /\ Rule.key \in Listed[Persona] /\ Rule.ask \in job.asks
      /\ job.rule \in DOMAIN Bank[Persona]
  BY <1>1, TryingType DEF RunReflex, Trying, AtWork, Matches, PolicyAllows, Pair
<1>3. <<p, t, k>> = <<Persona, job.task, Rule.key>>
  <2>1. <<p, t, k>> \in Reflexes /\ ran \in [Reflexes -> Nat]
    BY DEF TypeInv, LogType, Reflexes
  <2>2. QED
    BY <1>2, <2>1
<1>4. p = Persona /\ t = job.task /\ k = Rule.key
  BY <1>3
<1>5. Gives(Head1, p, t, job.asks)
  BY <1>2, <1>4 DEF SourceInv
<1>6. \E i \in DOMAIN Bank[p] : Bank[p][i].key = k /\ Bank[p][i].ask \in job.asks
  BY <1>2, <1>4 DEF Rule
<1>7. QED
  BY <1>2, <1>4, <1>5, <1>6 DEF Gives

(* A reflex runs only while a sourced notice is answered that its own       *)
(* origin put to that persona, on a listed capability and an ask of that    *)
(* notice: never on what a redirect's target, an echo or a forged frame     *)
(* says (reflex.py: ReflexPolicy; negotiation.py: the synthetic notice), in *)
(* every room and with every fault.                                         *)
THEOREM OnlySourcedReflexesRun == Spec => RunsOnlySourced
<1>1. Init => SourceInv
  BY DEF Init, SourceInv, SourcedMsgs, AtWork
<1>2. TypeInv /\ SourceInv /\ [Next]_vars => SourceInv'
  BY SourceNext
<1>3. TypeInv /\ SourceInv /\ [Next]_vars =>
        (\A p \in Handles, t \in Tasks, k \in Keys :
           ran'[<<p, t, k>>] # ran[<<p, t, k>>] =>
             LET e == Head1.env IN
             /\ e \in Topics /\ e.origin = Head1.author /\ e.recipient = p /\ e.task = t
             /\ e.sourced /\ k \in Listed[p]
             /\ \E i \in DOMAIN Bank[p] : Bank[p][i].key = k /\ Bank[p][i].ask \in e.asks)
  BY RunsSourced
<1>4. QED
  BY <1>1, <1>2, <1>3, TypeInvAlways, PTL DEF Spec, RunsOnlySourced

-----------------------------------------------------------------------------
(* The asks are settled once, the owner hears of every task *)

(* The counters are what the ledger marks; what is planned has a plan.      *)
OnceInv ==
  \A t \in Tasks :
    /\ plansPosted[t] > 0 => t \in planned
    /\ stallsPosted[t] = (IF t \in stalled THEN 1 ELSE 0)
    /\ t \in planned => \E e \in plans : e.task = t
PlanMsgs(q) == \A i \in 1..Len(q) : q[i].env.kind = "plan" => q[i].env \in plans
SweptInv ==
  /\ phase = "stall" => PlanWorthy = {}
  /\ phase = "idle" /\ returned => PlanWorthy = {} /\ Unresolved \subseteq stalled
HearsInv == OnceInv /\ PlanMsgs(posted) /\ SweptInv

LEMMA FeedMarks ==
  ASSUME TypeInv, NEW m \in Messages, Feed(m)
  PROVE  /\ UNCHANGED stalled
         /\ planned' = planned \/ (m.env.kind = "plan" /\ planned' = planned \cup {m.env.task})
<1>1. m.env \in Envelopes
  BY DEF Messages
<1>2. CASE IsOwner(m) \/ m.env.kind = "prose" \/ m.env.origin # m.author
  BY <1>2 DEF Feed, FeedForged, ledgerVars
<1>3. CASE ~(IsOwner(m) \/ m.env.kind = "prose" \/ m.env.origin # m.author)
  <2>1. CASE m.env \in Notices
    BY <1>3, <2>1 DEF Feed, FeedNotice, Notices
  <2>2. CASE m.env \in Responses
    BY <1>3, <2>2 DEF Feed, FeedResponse, Responses
  <2>3. CASE m.env \in Plans
    BY <1>3, <2>3 DEF Feed, FeedPlan, Plans
  <2>4. QED
    BY <1>1, <1>3, <2>1, <2>2, <2>3 DEF Envelopes, Prose
<1>4. QED
  BY <1>2, <1>3

(* The steps outside the sweep.                                             *)
RoundOnly ==
  \/ Call \/ RoundStep \/ UNCHANGED vars

LEMMA RoundOnlySame ==
  ASSUME TypeInv, RoundOnly
  PROVE  UNCHANGED ledgerVars /\ UNCHANGED <<plans, plansPosted, stallsPosted>>
<1>1. CASE Call
  BY <1>1, CallBegins DEF Begin, roomVars
<1>2. CASE Overhear \/ Ignore \/ EndOfRound \/ Take
  BY <1>2 DEF Overhear, Ignore, EndOfRound, StaysQuiet, Take, roomVars
<1>3. CASE RecordQuietly \/ NoteWithoutAsks \/ ModelDown
  BY <1>3 DEF RecordQuietly, NoteWithoutAsks, ModelDown, StaysQuiet, roomVars
<1>4. CASE Converse \/ AnswerAsks
  BY <1>4 DEF Converse, AnswerAsks, StaysQuiet, PostReply, roomVars
<1>5. CASE PassOver \/ ReportSeen \/ RunReflex \/ MarkReflex \/ AllRulesTried
  BY <1>5 DEF PassOver, ReportSeen, RunReflex, MarkReflex, AllRulesTried, firingRest, roomVars
<1>6. CASE UNCHANGED vars
  BY <1>6 DEF vars, roomVars
<1>7. QED
  BY <1>1, <1>2, <1>3, <1>4, <1>5, <1>6 DEF RoundOnly, RoundStep

LEMMA RoundOnlyPosted ==
  ASSUME TypeInv, PlanMsgs(posted), RoundOnly
  PROVE  PlanMsgs(posted)'
<1>1. posted \in Seq(Messages) /\ UNCHANGED plans
  BY RoundOnlySame DEF TypeInv, RoundType
<1>2. CASE UNCHANGED posted
  BY <1>1, <1>2 DEF PlanMsgs
<1>3. CASE Abort
  BY <1>3 DEF Abort, PlanMsgs
<1>4. CASE Call
  <2>1. PICK m \in Messages : Begin(m) /\ (m.env.kind = "plan" => m.env \in plans)
    BY <1>4, CallBegins
  <2>2. QED
    BY <1>1, <2>1 DEF Begin, PlanMsgs
<1>5. ASSUME NEW m \in Messages, m.env.kind # "plan", PostReply(m)
      PROVE  PlanMsgs(posted)'
  BY <1>1, <1>5, AppendProperties DEF PostReply, PlanMsgs
<1>6. CASE Converse
  <2>1. ASSUME NEW S \in {{}} \cup {{p} : p \in Handles}, PostReply(Chat(Persona, S))
        PROVE  PlanMsgs(posted)'
    <3>1. Chat(Persona, S) \in Messages /\ Chat(Persona, S).env.kind # "plan"
      BY PersonaType, ChatType DEF TypeInv, Chat, Prose
    <3>2. QED
      BY <1>5, <2>1, <3>1
  <2>2. QED
    BY <1>2, <1>6, <2>1 DEF Converse, StaysQuiet
<1>7. CASE AnswerAsks
  <2>1. ASSUME NEW model \in [Remaining -> ModelDecisions(Persona)], PostReply(Response(model))
        PROVE  PlanMsgs(posted)'
    <3>1. Response(model) \in Messages
      BY <1>7, ResponseType DEF AnswerAsks, Answering
    <3>2. Response(model).env.kind # "plan"
      BY DEF Response, Message
    <3>3. QED
      BY <1>5, <2>1, <3>1, <3>2
  <2>2. QED
    BY <1>3, <1>7, <2>1 DEF AnswerAsks
<1>8. CASE Overhear \/ Ignore \/ EndOfRound \/ Take \/ RecordQuietly \/ NoteWithoutAsks \/ ModelDown
  BY <1>2, <1>3, <1>8
     DEF Overhear, Ignore, EndOfRound, Take, RecordQuietly, NoteWithoutAsks, ModelDown,
         StaysQuiet, roundVars
<1>9. CASE PassOver \/ ReportSeen \/ RunReflex \/ MarkReflex \/ AllRulesTried
  BY <1>2, <1>3, <1>9
     DEF PassOver, ReportSeen, RunReflex, MarkReflex, AllRulesTried, firingRest, roundVars
<1>10. CASE UNCHANGED vars
  BY <1>2, <1>10 DEF vars, roundVars
<1>11. QED
  BY <1>4, <1>6, <1>7, <1>8, <1>9, <1>10 DEF RoundOnly, RoundStep

(* Outside the sweep a call neither returns nor reaches the sweep's end.    *)
LEMMA RoundOnlyPhase ==
  ASSUME TypeInv, RoundOnly
  PROVE  \/ UNCHANGED <<phase, returned>>
         \/ phase' \notin {"stall", "idle"}
         \/ phase' = "idle" /\ returned' = FALSE
<1>1. CASE Call
  BY <1>1, CallBegins DEF Begin
<1>2. CASE Abort
  BY <1>2 DEF Abort
<1>3. CASE Overhear \/ Ignore \/ EndOfRound \/ Take
  BY <1>3 DEF Overhear, Ignore, EndOfRound, StaysQuiet, Take
<1>4. CASE RecordQuietly \/ NoteWithoutAsks \/ ModelDown
  BY <1>2, <1>4 DEF RecordQuietly, NoteWithoutAsks, ModelDown, StaysQuiet
<1>5. CASE Converse \/ AnswerAsks
  BY <1>2, <1>5 DEF Converse, AnswerAsks, StaysQuiet, PostReply
<1>6. CASE PassOver \/ ReportSeen \/ RunReflex \/ MarkReflex \/ AllRulesTried
  BY <1>2, <1>6 DEF PassOver, ReportSeen, RunReflex, MarkReflex, AllRulesTried, SkipRule, Cover
<1>7. CASE UNCHANGED vars
  BY <1>7 DEF vars
<1>8. QED
  BY <1>1, <1>3, <1>4, <1>5, <1>6, <1>7 DEF RoundOnly, RoundStep

LEMMA HearsRound ==
  ASSUME TypeInv, HearsInv, RoundOnly
  PROVE  HearsInv'
<1>1. PlanMsgs(posted)'
  BY RoundOnlyPosted DEF HearsInv
<1>2. UNCHANGED ledgerVars /\ UNCHANGED <<plans, plansPosted, stallsPosted>>
  BY RoundOnlySame
<1>3. OnceInv'
  BY <1>2 DEF HearsInv, OnceInv, ledgerVars
<1>4. SweptInv'
  <2>1. PlanWorthy' = PlanWorthy /\ Unresolved' = Unresolved /\ stalled' = stalled
    BY <1>2 DEF PlanWorthy, Unresolved, IsOpen, ledgerVars
  <2>2. SweptInv
    BY DEF HearsInv
  <2>3. CASE UNCHANGED <<phase, returned>>
    BY <2>1, <2>2, <2>3 DEF SweptInv
  <2>4. CASE phase' \notin {"stall", "idle"}
    BY <2>4 DEF SweptInv
  <2>5. CASE phase' = "idle" /\ returned' = FALSE
    BY <2>5 DEF SweptInv
  <2>6. QED
    BY <2>3, <2>4, <2>5, RoundOnlyPhase
<1>5. QED
  BY <1>1, <1>3, <1>4 DEF HearsInv

LEMMA HearsFeed ==
  ASSUME TypeInv, HearsInv, FeedNext
  PROVE  HearsInv'
<1>1. posted \in Seq(Messages) /\ posted # <<>> /\ Head(posted) = posted[1] /\ 1 \in 1..Len(posted)
  BY DEF FeedNext, TypeInv, RoundType
<1>2. Head(posted) \in Messages
  BY <1>1
<1>3. UNCHANGED <<plans, plansPosted, stallsPosted>>
  BY DEF FeedNext, roomVars
<1>4. PlanMsgs(posted)'
  BY <1>1, <1>3, HeadTailProperties DEF FeedNext, HearsInv, PlanMsgs
<1>5. OnceInv'
  <2>1. UNCHANGED stalled
    BY <1>2, FeedMarks DEF FeedNext
  <2>2. \A t \in planned' \ planned : \E e \in plans : e.task = t
    BY <1>1, <1>2, FeedMarks DEF FeedNext, HearsInv, PlanMsgs
  <2>3. planned \subseteq planned'
    BY <1>2, FeedMarks DEF FeedNext
  <2>4. QED
    BY <1>3, <2>1, <2>2, <2>3 DEF HearsInv, OnceInv
<1>6. SweptInv'
  <2>1. phase' = "feed"
    BY DEF FeedNext
  <2>2. QED
    BY <2>1 DEF SweptInv
<1>7. QED
  BY <1>4, <1>5, <1>6 DEF HearsInv

LEMMA HearsSweep ==
  ASSUME TypeInv, HearsInv, AllFed \/ SweepPlans \/ AllPlanned \/ SweepStalls \/ EndOfSweep
  PROVE  HearsInv'
<1>1. UNCHANGED posted /\ plans \subseteq plans'
  BY DEF AllFed, SweepPlans, AllPlanned, SweepStalls, EndOfSweep, PostPlan, PostStall, SweepFails,
         DrainFailures, roomVars
<1>2. PlanMsgs(posted)'
  BY <1>1 DEF HearsInv, PlanMsgs
<1>3. CASE AllFed \/ AllPlanned
  BY <1>2, <1>3 DEF AllFed, AllPlanned, HearsInv, OnceInv, SweptInv, PlanWorthy, IsOpen,
                    ledgerVars, roomVars
<1>4. CASE SweepFails
  BY <1>2, <1>4 DEF SweepFails, HearsInv, OnceInv, SweptInv, ledgerVars, roomVars
<1>5. ASSUME NEW t \in PlanWorthy, PostPlan(t), phase = "plan"
      PROVE  HearsInv'
  <2>1. t \in Tasks /\ ComposePlan(t).task = t
    BY DEF PlanWorthy, ComposePlan
  <2>2. planned' = planned \cup {t} /\ plans' = plans \cup {ComposePlan(t)}
        /\ UNCHANGED <<stalled, stallsPosted>>
    BY <1>5 DEF PostPlan, MarkPlanned
  <2>3. \A u \in Tasks : plansPosted'[u] > 0 => u \in planned'
    BY <1>5, <2>1, <2>2 DEF PostPlan, HearsInv, OnceInv, TypeInv, RoomType
  <2>4. OnceInv'
    BY <2>1, <2>2, <2>3 DEF HearsInv, OnceInv
  <2>5. SweptInv'
    BY <1>5 DEF PostPlan, SweptInv
  <2>6. QED
    BY <1>2, <2>4, <2>5 DEF HearsInv
<1>6. ASSUME NEW t \in Unresolved \ stalled, PostStall(t), phase = "stall"
      PROVE  HearsInv'
  <2>1. t \in Tasks
    BY DEF Unresolved
  <2>2. stalled' = stalled \cup {t} /\ UNCHANGED <<initiator, asked, planned, plans, plansPosted, phase>>
    BY <1>6 DEF PostStall, MarkStalled
  <2>3. stallsPosted' = [stallsPosted EXCEPT ![t] = 1]
    <3>1. t \notin stalled
      BY <1>6
    <3>2. stallsPosted[t] = 0
      BY <2>1, <3>1 DEF HearsInv, OnceInv
    <3>3. stallsPosted' = [stallsPosted EXCEPT ![t] = stallsPosted[t] + 1]
      BY <1>6 DEF PostStall
    <3>4. QED
      BY <3>2, <3>3
  <2>4. OnceInv'
    BY <2>1, <2>2, <2>3 DEF HearsInv, OnceInv, TypeInv, RoomType
  <2>5. SweptInv'
    BY <1>6, <2>2 DEF HearsInv, SweptInv, PlanWorthy, IsOpen
  <2>6. QED
    BY <1>2, <2>4, <2>5 DEF HearsInv
<1>7. CASE EndOfSweep
  <2>1. UNCHANGED <<initiator, asked, planned, stalled, plans, plansPosted, stallsPosted>>
    BY <1>7 DEF EndOfSweep, DrainFailures, ConsumeFailures
  <2>2. OnceInv'
    BY <2>1 DEF HearsInv, OnceInv
  <2>3. SweptInv'
    BY <1>7, <2>1 DEF EndOfSweep, HearsInv, SweptInv, PlanWorthy, Unresolved, IsOpen
  <2>4. QED
    BY <1>2, <2>2, <2>3 DEF HearsInv
<1>8. QED
  BY <1>3, <1>4, <1>5, <1>6, <1>7 DEF SweepPlans, SweepStalls

LEMMA HearsRestart ==
  ASSUME TypeInv, HearsInv, Restart
  PROVE  HearsInv'
<1>1. OnceInv'
  BY DEF Restart, LedgerLost, OnceInv
<1>2. PlanMsgs(posted)' /\ SweptInv'
  BY DEF Restart, Abort, PlanMsgs, SweptInv
<1>3. QED
  BY <1>1, <1>2 DEF HearsInv

LEMMA HearsNext ==
  ASSUME TypeInv, HearsInv, [Next]_vars
  PROVE  HearsInv'
  BY HearsRound, HearsFeed, HearsSweep, HearsRestart DEF Next, SweepStep, RoundOnly, Call

LEMMA HearsInit == ASSUME Init PROVE HearsInv
<1>1. PlanWorthy = {} /\ Unresolved = {}
  BY DEF Init, LedgerInit, NoAsks, Absent, AskState, PlanWorthy, Unresolved, IsOpen, OpenStates
<1>2. QED
  BY <1>1 DEF Init, LedgerInit, HearsInv, OnceInv, PlanMsgs, SweptInv

(* The counters and what is planned agree with the ledger, and a call that *)
(* returned left nothing of it unreported.                                 *)
THEOREM HearsAlways == Spec => []HearsInv
<1>1. Init => HearsInv
  BY HearsInit
<1>2. TypeInv /\ HearsInv /\ [Next]_vars => HearsInv'
  BY HearsNext
<1>3. QED
  BY <1>1, <1>2, TypeInvAlways, PTL DEF Spec

LEMMA HearsEnough ==
  ASSUME TypeInv, HearsInv
  PROVE  OwnerHearsOfEveryTask
<1>1. SUFFICES ASSUME phase = "idle", returned, NEW t \in Tasks
               PROVE  /\ IsOpen(t) => stallsPosted[t] = 1
                      /\ (~IsOpen(t) /\ \E a \in Asks : asked[t][a].state \in {"accepted", "owner"}) =>
                           \E e \in plans : e.task = t
  BY DEF OwnerHearsOfEveryTask
<1>2. PlanWorthy = {} /\ Unresolved \subseteq stalled
  BY <1>1 DEF HearsInv, SweptInv
<1>3. QED
  BY <1>1, <1>2 DEF HearsInv, OnceInv, PlanWorthy, Unresolved

(* When a call has returned, the owner has been called on for every task    *)
(* with something open and been given a plan of every other with something  *)
(* left for him (negotiation.py: _sweep), in every room and with every      *)
(* fault.                                                                   *)
THEOREM OwnerAlwaysHears == Spec => []OwnerHearsOfEveryTask
  BY TypeInvAlways, HearsAlways, HearsEnough, PTL

SettlementStep == [Settlement!SettlementNext]_(Settlement!settlementVars)

LEMMA SettlementStutters ==
  ASSUME UNCHANGED <<asked, plansPosted, stallsPosted>>
  PROVE  SettlementStep
  BY DEF SettlementStep, Settlement!settlementVars

LEMMA NoticeRaises ==
  ASSUME TypeInv, NEW e \in Notices, FeedNotice(e), UNCHANGED <<plansPosted, stallsPosted>>
  PROVE  SettlementStep
<1>1. CASE Known(e.task)
  BY <1>1, SettlementStutters DEF FeedNotice
<1>2. CASE ~Known(e.task)
  <2>1. e.task \in Tasks /\ e.asks \in SUBSET Asks
    BY DEF Notices
  <2>2. Settlement!Untouched(e.task)
    BY <1>2, <2>1 DEF TypeInv, KnownInv, Settlement!Untouched, Settlement!Absent, Absent, AskState
  <2>3. Settlement!Raise(e.task, e.asks)
    BY <1>2, <2>2 DEF FeedNotice, Settlement!Raise, Settlement!Pending, Settlement!Absent,
                      Absent, AskState
  <2>4. QED
    BY <2>1, <2>3 DEF SettlementStep, Settlement!SettlementNext
<1>3. QED
  BY <1>1, <1>2

LEMMA OutcomeAnswers ==
  ASSUME NEW d \in Decisions, NEW p \in Handles, NEW cur, Counts(cur, p)
  PROVE  Settlement!AnswersFor(p, cur, Outcome(d, p))
<1>1. \/ Outcome(d, p).state \in {"done", "accepted", "owner"} /\ Outcome(d, p).decider = p
      \/ Outcome(d, p).state = "redirected" /\ Outcome(d, p).decider \in Handles
  BY DEF Outcome, AskState, Decisions
<1>2. QED
  BY <1>1 DEF Counts, Settlement!AnswersFor, Settlement!SettledStates

LEMMA ResponseAnswers ==
  ASSUME TypeInv, NEW e \in Responses, FeedResponse(e), UNCHANGED <<plansPosted, stallsPosted>>
  PROVE  SettlementStep
<1>1. e.task \in Tasks /\ e.origin \in Handles
  BY DEF Responses
<1>2. asked' \in [Tasks -> [Asks -> Settlement!AskStates]]
  <2>1. LedgerType'
    BY FeedResponseType DEF TypeInv
  <2>2. AskStates = Settlement!AskStates
    BY DEF AskStates, OpenStates, TerminalStates, Settlement!AskStates, Settlement!OpenStates,
           Settlement!SettledStates
  <2>3. QED
    BY <2>1, <2>2 DEF LedgerType
<1>3. \A u \in Tasks \ {e.task} : asked'[u] = asked[u]
  BY DEF FeedResponse, TypeInv, LedgerType
<1>4. ASSUME NEW a \in Asks, asked'[e.task][a] # asked[e.task][a]
      PROVE  Settlement!AnswersFor(e.origin, asked[e.task][a], asked'[e.task][a])
  <2>1. asked'[e.task][a] = (IF a \in Counted(e) THEN Outcome(e.decisions[a], e.origin)
                                                ELSE asked[e.task][a])
    BY <1>1 DEF FeedResponse, TypeInv, LedgerType
  <2>2. a \in Counted(e) /\ asked'[e.task][a] = Outcome(e.decisions[a], e.origin)
    BY <1>4, <2>1
  <2>3. e.decisions[a] \in Decisions /\ Counts(asked[e.task][a], e.origin)
    BY <2>2, DecisionsType DEF Counted
  <2>4. QED
    BY <1>1, <2>2, <2>3, OutcomeAnswers
<1>5. Settlement!Answer(e.task, e.origin)
  BY <1>2, <1>3, <1>4 DEF Settlement!Answer
<1>6. QED
  BY <1>1, <1>5 DEF SettlementStep, Settlement!SettlementNext

LEMMA FeedSettles ==
  ASSUME TypeInv, NEW m \in Messages, Feed(m), UNCHANGED <<plansPosted, stallsPosted>>
  PROVE  SettlementStep
<1>1. m.env \in Envelopes
  BY DEF Messages
<1>2. CASE IsOwner(m) \/ m.env.kind = "prose" \/ m.env.origin # m.author
  BY <1>2, SettlementStutters DEF Feed, FeedForged, ledgerVars
<1>3. CASE ~(IsOwner(m) \/ m.env.kind = "prose" \/ m.env.origin # m.author)
  <2>1. CASE m.env \in Notices
    BY <1>3, <2>1, NoticeRaises DEF Feed, Notices
  <2>2. CASE m.env \in Responses
    BY <1>3, <2>2, ResponseAnswers DEF Feed, Responses
  <2>3. CASE m.env \in Plans
    BY <1>3, <2>3, SettlementStutters DEF Feed, FeedPlan, Plans
  <2>4. QED
    BY <1>1, <1>3, <2>1, <2>2, <2>3 DEF Envelopes, Prose
<1>4. QED
  BY <1>2, <1>3

LEMMA PlanSettles ==
  ASSUME TypeInv, HearsInv, NEW t \in PlanWorthy, PostPlan(t)
  PROVE  SettlementStep
<1>1. t \in Tasks /\ ~Settlement!IsOpen(t) /\ ~Settlement!Untouched(t)
  BY DEF PlanWorthy, IsOpen, OpenStates, Settlement!IsOpen, Settlement!OpenStates,
         Settlement!Untouched, Settlement!Absent
<1>2. plansPosted[t] = 0
  BY <1>1 DEF HearsInv, OnceInv, PlanWorthy, TypeInv, RoomType
<1>3. plansPosted' = [plansPosted EXCEPT ![t] = 1]
  BY <1>2 DEF PostPlan
<1>4. UNCHANGED <<asked, stallsPosted>>
  BY DEF PostPlan, MarkPlanned
<1>5. Settlement!PostPlan(t)
  BY <1>1, <1>2, <1>3, <1>4 DEF Settlement!PostPlan
<1>6. QED
  BY <1>1, <1>5 DEF SettlementStep, Settlement!SettlementNext

LEMMA StallSettles ==
  ASSUME TypeInv, HearsInv, NEW t \in Unresolved \ stalled, PostStall(t)
  PROVE  SettlementStep
<1>1. t \in Tasks /\ Settlement!IsOpen(t) /\ t \notin stalled
  BY DEF Unresolved, IsOpen, OpenStates, Settlement!IsOpen, Settlement!OpenStates
<1>2. stallsPosted[t] = 0
  BY <1>1 DEF HearsInv, OnceInv
<1>3. stallsPosted' = [stallsPosted EXCEPT ![t] = 1]
  BY <1>2 DEF PostStall
<1>4. UNCHANGED <<asked, plansPosted>>
  BY DEF PostStall, MarkStalled
<1>5. Settlement!CallOwner(t)
  BY <1>1, <1>2, <1>3, <1>4 DEF Settlement!CallOwner
<1>6. QED
  BY <1>1, <1>5 DEF SettlementStep, Settlement!SettlementNext

LEMMA RestartForgets == ASSUME Restart PROVE SettlementStep
<1>1. Settlement!Forget
  BY DEF Restart, LedgerLost, NoAsks, Absent, AskState, Settlement!Forget, Settlement!NoAsks,
         Settlement!Absent, Settlement!Zero
<1>2. QED
  BY <1>1 DEF SettlementStep, Settlement!SettlementNext

LEMMA SettlementSteps ==
  ASSUME TypeInv, HearsInv, [Next]_vars
  PROVE  SettlementStep
<1>1. CASE RoundOnly
  BY <1>1, RoundOnlySame, SettlementStutters DEF ledgerVars
<1>2. CASE FeedNext
  <2>1. Head(posted) \in Messages /\ Feed(Head(posted)) /\ UNCHANGED <<plansPosted, stallsPosted>>
    BY <1>2 DEF FeedNext, TypeInv, RoundType, roomVars
  <2>2. QED
    BY <2>1, FeedSettles
<1>3. CASE AllFed \/ AllPlanned \/ SweepFails
  BY <1>3, SettlementStutters DEF AllFed, AllPlanned, SweepFails, ledgerVars, roomVars
<1>4. CASE SweepPlans
  BY <1>3, <1>4, PlanSettles DEF SweepPlans
<1>5. CASE SweepStalls
  BY <1>3, <1>5, StallSettles DEF SweepStalls
<1>6. CASE EndOfSweep
  BY <1>6, SettlementStutters DEF EndOfSweep, DrainFailures, ConsumeFailures
<1>7. CASE Restart
  BY <1>7, RestartForgets
<1>8. QED
  BY <1>1, <1>2, <1>3, <1>4, <1>5, <1>6, <1>7 DEF Next, SweepStep, RoundOnly, Call

(* Each ask is settled once, by whoever answers it first or, if it was      *)
(* handed on, by that colleague; a task has one plan at most, and its owner *)
(* is called on once at most (negotiation.py: feed, _sweep), in every room  *)
(* and with every fault.                                                    *)
THEOREM NegotiationSettles == Spec => ImplementsSettlement
<1>1. Init => Settlement!SettlementInit
  BY DEF Init, LedgerInit, NoAsks, Absent, AskState, Settlement!SettlementInit, Settlement!NoAsks,
         Settlement!Absent, Settlement!Zero
<1>2. TypeInv /\ HearsInv /\ [Next]_vars => [Settlement!SettlementNext]_(Settlement!settlementVars)
  BY SettlementSteps DEF SettlementStep
<1>3. QED
  BY <1>1, <1>2, TypeInvAlways, HearsAlways, PTL
     DEF Spec, ImplementsSettlement, Settlement!SettlementSpec

-----------------------------------------------------------------------------
(* What is recorded, reported and planned is true *)

FiredTruly(j) == \A a \in DOMAIN j.fired :
  j.fired[a].applied => HasRun(Persona, j.task, j.fired[a].key)

RecordsInv ==
  /\ \A p \in Handles : \A x \in marked[p] \cup kept[p] : ran[<<p, x[1], x[2]>>] > 0
  /\ phase = "mark" => ran[<<Persona, job.task, Rule.key>>] > 0
  /\ AtWork => FiredTruly(job)
  /\ \A s \in said : s.decision.applied => HasRun(s.by, s.task, s.decision.key)

(* HasRun of the state a step leads to.                                     *)
WillHaveRun(p, t, k) ==
  \E y \in Tasks \X Keys : NoteName[y] = NoteName[<<t, k>>] /\ ran'[<<p, y[1], y[2]>>] > 0

LEMMA AppliedKey ==
  ASSUME NEW d \in Decisions, d.applied
  PROVE  d.key \in Keys
  BY DEF Decisions

LEMMA FiredDecisions ==
  ASSUME TypeInv, NEW a \in DOMAIN job.fired
  PROVE  job.fired[a] \in Decisions
<1>1. PICK S \in SUBSET Asks : job.fired \in [S -> Decisions]
  BY DEF TypeInv, RoundType, Jobs
<1>2. QED
  BY <1>1

LEMMA RanGrows ==
  ASSUME TypeInv, [Next]_vars, NEW x \in Reflexes, ran[x] > 0
  PROVE  ran'[x] > 0
<1>1. ran \in [Reflexes -> Nat]
  BY DEF TypeInv, LogType
<1>2. CASE UNCHANGED ran
  BY <1>2
<1>3. CASE ran' = [ran EXCEPT ![<<Persona, job.task, Rule.key>>] = @ + 1]
  <2>1. ran[x] \in Nat
    BY <1>1
  <2>2. ran'[x] = ran[x] \/ ran'[x] = ran[x] + 1
    BY <1>1, <1>3
  <2>3. QED
    BY <2>1, <2>2
<1>4. QED
  BY <1>2, <1>3, OnlyRunReflexRuns DEF RunReflex

LEMMA HasRunStays ==
  ASSUME TypeInv, [Next]_vars, NEW p \in Handles, NEW t, NEW k, HasRun(p, t, k)
  PROVE  WillHaveRun(p, t, k)
<1>1. PICK y \in Tasks \X Keys : NoteName[y] = NoteName[<<t, k>>] /\ ran[<<p, y[1], y[2]>>] > 0
  BY DEF HasRun
<1>2. <<p, y[1], y[2]>> \in Reflexes
  BY DEF Reflexes
<1>3. ran'[<<p, y[1], y[2]>>] > 0
  BY <1>1, <1>2, RanGrows
<1>4. QED
  BY <1>1, <1>3 DEF WillHaveRun

LEMMA SaidType ==
  ASSUME TypeInv, NEW s \in said
  PROVE  s.by \in Handles /\ s.task \in Tasks /\ s.ask \in Asks /\ s.decision \in Decisions
  BY DEF TypeInv, RoomType

(* Each of the four parts survives what leaves its own state alone.         *)
LEMMA RecordedStays ==
  ASSUME TypeInv, RecordsInv, [Next]_vars, NEW p \in Handles, NEW x \in marked[p] \cup kept[p]
  PROVE  ran'[<<p, x[1], x[2]>>] > 0
<1>1. <<p, x[1], x[2]>> \in Reflexes
  BY DEF TypeInv, LogType, Reflexes
<1>2. QED
  BY <1>1, RanGrows DEF RecordsInv

LEMMA SaidStays ==
  ASSUME TypeInv, RecordsInv, [Next]_vars, NEW s \in said, s.decision.applied
  PROVE  WillHaveRun(s.by, s.task, s.decision.key)
<1>1. s.by \in Handles /\ HasRun(s.by, s.task, s.decision.key)
  BY SaidType DEF RecordsInv
<1>2. QED
  BY <1>1, HasRunStays

LEMMA FiredStays ==
  ASSUME TypeInv, RecordsInv, [Next]_vars, AtWork, NEW a \in DOMAIN job.fired, job.fired[a].applied
  PROVE  WillHaveRun(Persona, job.task, job.fired[a].key)
<1>1. Persona \in Handles /\ HasRun(Persona, job.task, job.fired[a].key)
  BY PersonaType DEF TypeInv, RecordsInv, FiredTruly
<1>2. QED
  BY <1>1, HasRunStays

(* A rule's firing may be reported as applied once its reflex has run.      *)
LEMMA CoverTruly ==
  ASSUME TypeInv, RecordsInv, [Next]_vars, AtWork, UNCHANGED roundVars, NEW ok \in BOOLEAN, NEW u,
         Cover(ok, u), ok => WillHaveRun(Persona, job.task, Rule.key)
  PROVE  FiredTruly(job)' /\ phase' = "rules"
<1>1. phase' = "rules" /\ job'.task = job.task /\ job'.fired = Covered(ok)
  BY DEF Cover, TypeInv, RoundType, Jobs
<1>2. Persona' = Persona
  BY DEF Persona, roundVars
<1>3. ASSUME NEW a \in DOMAIN job'.fired, job'.fired[a].applied
      PROVE  WillHaveRun(Persona, job.task, job'.fired[a].key)
  <2>1. CASE a = Rule.ask
    <3>1. job'.fired[a] = Firing(ok)
      BY <1>1, <1>3, <2>1 DEF Covered
    <3>2. Firing(ok).applied = ok /\ Firing(ok).key = Rule.key
      BY DEF Firing
    <3>3. ok
      BY <1>3, <3>1, <3>2
    <3>4. QED
      BY <3>1, <3>2, <3>3
  <2>2. CASE a # Rule.ask
    <3>1. a \in DOMAIN job.fired /\ job'.fired[a] = job.fired[a]
      BY <1>1, <1>3, <2>2 DEF Covered
    <3>2. QED
      BY <1>3, <3>1, FiredStays
  <2>3. QED
    BY <2>1, <2>2
<1>4. QED
  BY <1>1, <1>2, <1>3 DEF FiredTruly, HasRun, WillHaveRun

LEMMA CalmRecords ==
  ASSUME TypeInv, RecordsInv, [Next]_vars, phase' \notin {"rules", "mark", "answer"},
         UNCHANGED kept, UNCHANGED said, \A p \in Handles : marked'[p] \subseteq marked[p]
  PROVE  RecordsInv'
<1>1. \A p \in Handles : \A x \in marked'[p] \cup kept'[p] : ran'[<<p, x[1], x[2]>>] > 0
  BY RecordedStays
<1>2. \A s \in said' : s.decision.applied => WillHaveRun(s.by, s.task, s.decision.key)
  BY SaidStays
<1>3. QED
  BY <1>1, <1>2 DEF RecordsInv, AtWork, HasRun, WillHaveRun

LEMMA LogSame ==
  ASSUME TypeInv, RecordsInv, [Next]_vars, UNCHANGED <<marked, kept, said>>
  PROVE  /\ \A p \in Handles : \A x \in marked'[p] \cup kept'[p] : ran'[<<p, x[1], x[2]>>] > 0
         /\ \A s \in said' : s.decision.applied => WillHaveRun(s.by, s.task, s.decision.key)
<1>1. \A p \in Handles : \A x \in marked'[p] \cup kept'[p] : ran'[<<p, x[1], x[2]>>] > 0
  BY RecordedStays
<1>2. QED
  BY <1>1, SaidStays

LEMMA TakeRecords == ASSUME TypeInv, RecordsInv, [Next]_vars, Take PROVE RecordsInv'
<1>1. UNCHANGED <<marked, kept, said>> /\ phase' = "rules" /\ job'.fired = NoFirings
  BY DEF Take, JobFor, logVars, roomVars
<1>2. FiredTruly(job)'
  BY <1>1 DEF FiredTruly, NoFirings
<1>3. QED
  BY <1>1, <1>2, LogSame DEF RecordsInv, HasRun, WillHaveRun

LEMMA SkipRecords ==
  ASSUME TypeInv, RecordsInv, [Next]_vars, PassOver \/ AllRulesTried
  PROVE  RecordsInv'
<1>1. UNCHANGED <<marked, kept, said>> /\ phase' \in {"rules", "answer"} /\ UNCHANGED roundVars /\ AtWork
  BY DEF PassOver, Trying, AllRulesTried, SkipRule, AtWork, firingRest, logVars, roomVars
<1>2. job'.fired = job.fired /\ job'.task = job.task
  <2>1. CASE AllRulesTried
    BY <2>1 DEF AllRulesTried, firingRest
  <2>2. CASE PassOver
    <3>1. PICK u : SkipRule(u)
      BY <2>2 DEF PassOver
    <3>2. QED
      BY <3>1 DEF SkipRule, TypeInv, RoundType, Jobs
  <2>3. QED
    BY <2>1, <2>2
<1>3. Persona' = Persona
  BY <1>1 DEF Persona, roundVars
<1>4. FiredTruly(job)'
  BY <1>1, <1>2, <1>3, FiredStays DEF FiredTruly, HasRun, WillHaveRun
<1>5. QED
  BY <1>1, <1>4, LogSame DEF RecordsInv, HasRun, WillHaveRun

LEMMA ReportSeenRecords == ASSUME TypeInv, RecordsInv, [Next]_vars, ReportSeen PROVE RecordsInv'
<1>1. AtWork /\ Cover(TRUE, job.misread) /\ UNCHANGED roundVars /\ UNCHANGED <<marked, kept, said>>
  BY DEF ReportSeen, Trying, AtWork, firingRest, logVars, roomVars
<1>2. Persona \in Handles /\ (Pair \in marked[Persona] \/ HasNote(Persona, Pair))
  BY PersonaType DEF ReportSeen, Seen, TypeInv
<1>3. PICK y \in marked[Persona] \cup kept[Persona] : NoteName[y] = NoteName[Pair]
  BY <1>2 DEF HasNote
<1>4. y \in Tasks \X Keys /\ ran'[<<Persona, y[1], y[2]>>] > 0
  BY <1>2, RecordedStays DEF TypeInv, LogType
<1>5. WillHaveRun(Persona, job.task, Rule.key)
  BY <1>3, <1>4 DEF WillHaveRun, Pair
<1>6. FiredTruly(job)' /\ phase' = "rules"
  BY <1>1, <1>5, CoverTruly
<1>7. QED
  BY <1>1, <1>6, LogSame DEF RecordsInv, HasRun, WillHaveRun

LEMMA RunReflexRecords == ASSUME TypeInv, RecordsInv, [Next]_vars, RunReflex PROVE RecordsInv'
<1>1. AtWork /\ UNCHANGED roundVars /\ UNCHANGED <<marked, kept, said>>
  BY DEF RunReflex, Trying, AtWork, firingRest, roomVars
<1>2. ASSUME NEW u, Cover(FALSE, u)
      PROVE  RecordsInv'
  <2>1. FiredTruly(job)' /\ phase' = "rules"
    BY <1>1, <1>2, CoverTruly
  <2>2. QED
    BY <1>1, <2>1, LogSame DEF RecordsInv, HasRun, WillHaveRun
<1>3. ASSUME NEW u, ran' = [ran EXCEPT ![<<Persona, job.task, Rule.key>>] = @ + 1],
             phase' = "mark", job' = [job EXCEPT !.misread = u]
      PROVE  RecordsInv'
  <2>1. <<Persona, job.task, Rule.key>> \in Reflexes
    BY <1>1, PersonaType, RuleType, TryingType DEF RunReflex, TypeInv, JobInv, Reflexes
  <2>2. ran[<<Persona, job.task, Rule.key>>] \in Nat /\ ran \in [Reflexes -> Nat]
    BY <2>1 DEF TypeInv, LogType
  <2>3. ran'[<<Persona, job.task, Rule.key>>] > 0
    BY <1>3, <2>1, <2>2
  <2>4. job'.task = job.task /\ job'.rule = job.rule /\ job'.fired = job.fired
    BY <1>3 DEF TypeInv, RoundType, Jobs
  <2>5. Persona' = Persona /\ Rule' = Rule
    BY <1>1, <2>4 DEF Persona, Rule, roundVars
  <2>6. FiredTruly(job)'
    BY <1>1, <2>4, <2>5, FiredStays DEF FiredTruly, HasRun, WillHaveRun
  <2>7. QED
    BY <1>1, <1>3, <2>3, <2>4, <2>5, <2>6, LogSame DEF RecordsInv, HasRun, WillHaveRun
<1>4. QED
  BY <1>2, <1>3 DEF RunReflex

LEMMA MarkReflexRecords == ASSUME TypeInv, RecordsInv, [Next]_vars, MarkReflex PROVE RecordsInv'
<1>1. AtWork /\ Persona \in Handles /\ UNCHANGED <<ran, said>>
  BY PersonaType DEF MarkReflex, AtWork, TypeInv, roomVars
<1>2. ran'[<<Persona, job.task, Rule.key>>] > 0
  BY <1>1 DEF MarkReflex, RecordsInv
<1>3. ASSUME NEW p \in Handles, NEW x \in marked'[p] \cup kept'[p]
      PROVE  ran'[<<p, x[1], x[2]>>] > 0
  <2>1. CASE x \in marked[p] \cup kept[p]
    BY <2>1, RecordedStays
  <2>2. CASE x \notin marked[p] \cup kept[p]
    <3>1. p = Persona /\ x = Pair
      <4>1. marked' = [marked EXCEPT ![Persona] = marked[Persona] \cup {Pair}]
        BY DEF MarkReflex
      <4>2. kept' = kept \/ kept' = [kept EXCEPT ![Persona] = kept[Persona] \cup {Pair}]
        BY DEF MarkReflex
      <4>3. marked \in [Handles -> SUBSET (Tasks \X Keys)] /\ kept \in [Handles -> SUBSET (Tasks \X Keys)]
        BY DEF TypeInv, LogType
      <4>4. x \in marked'[p] => x \in marked[p] \/ (p = Persona /\ x = Pair)
        BY <4>1, <4>3
      <4>5. x \in kept'[p] => x \in kept[p] \/ (p = Persona /\ x = Pair)
        BY <4>2, <4>3
      <4>6. QED
        BY <1>3, <2>2, <4>4, <4>5
    <3>2. QED
      BY <1>2, <3>1 DEF Pair
  <2>3. QED
    BY <2>1, <2>2
<1>4. \A s \in said' : s.decision.applied => WillHaveRun(s.by, s.task, s.decision.key)
  BY <1>1, SaidStays
<1>5. CASE Cover(TRUE, job.misread) /\ UNCHANGED roundVars
  <2>1. WillHaveRun(Persona, job.task, Rule.key)
    <3>1. <<job.task, Rule.key>> \in Tasks \X Keys
      BY <1>1, RuleType DEF MarkReflex, TypeInv, JobInv, MarkInv
    <3>2. QED
      BY <1>2, <3>1 DEF WillHaveRun
  <2>2. FiredTruly(job)' /\ phase' = "rules"
    BY <1>1, <1>5, <2>1, CoverTruly
  <2>3. QED
    BY <1>3, <1>4, <2>2 DEF RecordsInv, HasRun, WillHaveRun
<1>6. CASE Abort
  BY <1>3, <1>4, <1>6 DEF Abort, RecordsInv, AtWork, HasRun, WillHaveRun
<1>7. QED
  BY <1>5, <1>6 DEF MarkReflex

LEMMA AnswerRecords == ASSUME TypeInv, RecordsInv, [Next]_vars, AnswerAsks PROVE RecordsInv'
<1>1. phase' \notin {"rules", "mark", "answer"} /\ UNCHANGED <<marked, kept, ran>>
  BY DEF AnswerAsks, PostReply, Abort, logVars
<1>2. CASE UNCHANGED said
  BY <1>1, <1>2, CalmRecords
<1>3. ASSUME NEW model \in [Remaining -> ModelDecisions(Persona)],
             said' = said \cup DecisionsSaid(Response(model))
      PROVE  RecordsInv'
  <2>1. ASSUME NEW s \in DecisionsSaid(Response(model)), s.decision.applied
        PROVE  WillHaveRun(s.by, s.task, s.decision.key)
    <3>1. PICK a \in DOMAIN job.fired \cup DOMAIN model :
            /\ s.by = Persona /\ s.task = job.task
            /\ s.decision = (IF a \in DOMAIN job.fired THEN job.fired[a] ELSE model[a])
      BY <2>1 DEF DecisionsSaid, Response, Message
    <3>2. CASE a \in DOMAIN job.fired
      BY <1>1, <2>1, <3>1, <3>2, FiredStays DEF AnswerAsks, Answering, AtWork
    <3>3. CASE a \notin DOMAIN job.fired
      <4>1. model[a] \in ModelDecisions(Persona)
        BY <3>1, <3>3
      <4>2. ~model[a].applied
        BY <4>1 DEF ModelDecisions
      <4>3. QED
        BY <2>1, <3>1, <3>3, <4>2
    <3>4. QED
      BY <3>2, <3>3
  <2>2. \A s \in said' : s.decision.applied => WillHaveRun(s.by, s.task, s.decision.key)
    BY <1>3, <2>1, SaidStays
  <2>3. \A p \in Handles : \A x \in marked'[p] \cup kept'[p] : ran'[<<p, x[1], x[2]>>] > 0
    BY <1>1, RecordedStays
  <2>4. QED
    BY <1>1, <2>2, <2>3 DEF RecordsInv, AtWork, HasRun, WillHaveRun
<1>4. QED
  BY <1>2, <1>3 DEF AnswerAsks, PostReply, roomVars

LEMMA RecordsNext == ASSUME TypeInv, RecordsInv, [Next]_vars PROVE RecordsInv'
<1>1. CASE CalmStep
  BY <1>1, CalmSteps, CalmRecords DEF logVars
<1>2. CASE Restart
  <2>1. phase' = "idle" /\ UNCHANGED kept /\ UNCHANGED said /\ \A p \in Handles : marked'[p] = {}
    BY <1>2 DEF Restart, Abort
  <2>2. QED
    BY <2>1, CalmRecords
<1>3. CASE UNCHANGED vars
  <2>1. UNCHANGED <<marked, kept, said, phase, job, ran>> /\ Persona' = Persona /\ Rule' = Rule
    BY <1>3 DEF vars, logVars, roomVars, roundVars, Persona, Rule
  <2>2. QED
    BY <2>1, LogSame DEF RecordsInv, AtWork, FiredTruly, HasRun, WillHaveRun
<1>4. QED
  BY <1>1, <1>2, <1>3, StepsSplit, TakeRecords, SkipRecords, ReportSeenRecords, RunReflexRecords,
     MarkReflexRecords, AnswerRecords

LEMMA RecordsInit == ASSUME Init PROVE RecordsInv
  BY DEF Init, RecordsInv, AtWork

(* What is recorded, and what the room was told was applied, did run.       *)
THEOREM RecordsAlways == Spec => []RecordsInv
<1>1. TypeInv /\ RecordsInv /\ [Next]_vars => RecordsInv'
  BY RecordsNext
<1>2. QED
  BY <1>1, RecordsInit, TypeInvAlways, PTL DEF Spec

-----------------------------------------------------------------------------
(* A plan says what the room heard *)

SaidYes(p, t, a) ==
  \E s \in said : s.by = p /\ s.task = t /\ s.ask = a /\ s.decision.choice = "accept"
SaidDone(p, t, a) ==
  \E s \in said : s.by = p /\ s.task = t /\ s.ask = a /\ s.decision.applied

AskBacked(st, t, a) ==
  /\ st.state = "done" => SaidDone(st.decider, t, a)
  /\ st.state = "accepted" => SaidYes(st.decider, t, a)
AsksBacked == \A t \in Tasks, a \in Asks : AskBacked(asked[t][a], t, a)

StepBacked(step, t, a) ==
  /\ step.status = "done" => SaidDone(step.owner, t, a)
  /\ step.status = "needs-approval" => SaidYes(step.owner, t, a)
PlansBacked == \A e \in plans : \A a \in DOMAIN e.steps : StepBacked(e.steps[a], e.task, a)

Genuine(m) == m.env.kind = "response" /\ m.env.origin = m.author
PostedSaid(q) == \A i \in 1..Len(q) : Genuine(q[i]) => DecisionsSaid(q[i]) \subseteq said

TruthInv == PostedSaid(posted) /\ AsksBacked /\ PlansBacked

LEMMA SaidGrows == ASSUME TypeInv, [Next]_vars PROVE said \subseteq said'
<1>1. CASE CalmStep
  BY <1>1, CalmSteps
<1>2. CASE Take \/ PassOver \/ ReportSeen \/ RunReflex \/ MarkReflex \/ AllRulesTried
  BY <1>2 DEF Take, PassOver, ReportSeen, RunReflex, MarkReflex, AllRulesTried, firingRest, roomVars
<1>3. CASE AnswerAsks \/ Restart
  BY <1>3 DEF AnswerAsks, PostReply, Restart, roomVars
<1>4. CASE UNCHANGED vars
  BY <1>4 DEF vars, roomVars
<1>5. QED
  BY <1>1, <1>2, <1>3, <1>4, StepsSplit

LEMMA PostedStaysSaid ==
  ASSUME TypeInv, PostedSaid(posted), [Next]_vars
  PROVE  PostedSaid(posted)'
<1>1. posted \in Seq(Messages) /\ said \subseteq said'
  BY SaidGrows DEF TypeInv, RoundType
<1>2. CASE UNCHANGED posted
  BY <1>1, <1>2 DEF PostedSaid, Genuine, DecisionsSaid
<1>3. CASE Abort
  BY <1>3 DEF Abort, PostedSaid
<1>4. CASE Call
  <2>1. PICK m \in Messages : Begin(m) /\ (m.env.kind = "response" => m.env.origin # m.author)
    BY <1>4, CallBegins
  <2>2. QED
    BY <2>1 DEF Begin, PostedSaid, Genuine
<1>5. ASSUME NEW m \in Messages, PostReply(m)
      PROVE  PostedSaid(posted)'
  <2>1. DecisionsSaid(m) \subseteq said' /\ posted' = Append(posted, m)
    BY <1>5 DEF PostReply
  <2>2. ASSUME NEW i \in 1..Len(posted'), Genuine(posted'[i])
        PROVE  DecisionsSaid(posted'[i]) \subseteq said'
    <3>1. CASE i = Len(posted) + 1
      <4>1. posted'[i] = m
        BY <1>1, <2>1, <3>1, AppendProperties
      <4>2. QED
        BY <2>1, <4>1
    <3>2. CASE i # Len(posted) + 1
      <4>1. i \in 1..Len(posted) /\ posted'[i] = posted[i]
        BY <1>1, <2>1, <2>2, <3>2, AppendProperties
      <4>2. QED
        BY <1>1, <2>2, <4>1 DEF PostedSaid
    <3>3. QED
      BY <3>1, <3>2
  <2>3. QED
    BY <2>2 DEF PostedSaid, Genuine, DecisionsSaid
<1>6. CASE Converse
  BY <1>2, <1>5, <1>6, PersonaType, ChatType DEF TypeInv, Converse, StaysQuiet
<1>7. CASE AnswerAsks
  BY <1>3, <1>5, <1>7, ResponseType DEF AnswerAsks, Answering
<1>8. CASE Overhear \/ Ignore \/ EndOfRound \/ Take \/ RecordQuietly \/ NoteWithoutAsks \/ ModelDown
  BY <1>2, <1>3, <1>8
     DEF Overhear, Ignore, EndOfRound, Take, RecordQuietly, NoteWithoutAsks, ModelDown,
         StaysQuiet, roundVars
<1>9. CASE PassOver \/ ReportSeen \/ RunReflex \/ MarkReflex \/ AllRulesTried
  BY <1>2, <1>3, <1>9
     DEF PassOver, ReportSeen, RunReflex, MarkReflex, AllRulesTried, firingRest, roundVars
<1>10. CASE FeedNext
  BY <1>1, <1>10, HeadTailProperties DEF FeedNext, roomVars, PostedSaid, Genuine, DecisionsSaid
<1>11. CASE AllFed \/ SweepPlans \/ AllPlanned \/ SweepStalls \/ EndOfSweep
  BY <1>2, <1>11 DEF AllFed, SweepPlans, AllPlanned, SweepStalls, EndOfSweep
<1>12. CASE Restart
  BY <1>3, <1>12 DEF Restart
<1>13. CASE UNCHANGED vars
  BY <1>2, <1>13 DEF vars, roundVars
<1>14. QED
  BY <1>4, <1>6, <1>7, <1>8, <1>9, <1>10, <1>11, <1>12, <1>13
     DEF Next, RoundStep, SweepStep, Call

(* What was said stays said.                                                *)
LEMMA BackedStays ==
  ASSUME said \subseteq said'
  PROVE  /\ UNCHANGED asked /\ AsksBacked => AsksBacked'
         /\ UNCHANGED plans /\ PlansBacked => PlansBacked'
<1>1. \A p, t, a : /\ SaidYes(p, t, a) => SaidYes(p, t, a)'
                   /\ SaidDone(p, t, a) => SaidDone(p, t, a)'
  BY DEF SaidYes, SaidDone
<1>2. ASSUME UNCHANGED asked, AsksBacked PROVE AsksBacked'
  BY <1>1, <1>2 DEF AsksBacked, AskBacked
<1>3. ASSUME UNCHANGED plans, PlansBacked PROVE PlansBacked'
  BY <1>1, <1>3 DEF PlansBacked, StepBacked
<1>4. QED
  BY <1>2, <1>3

LEMMA ResponseBacks ==
  ASSUME TypeInv, AsksBacked, NEW m \in Messages, m.env \in Responses, Genuine(m),
         DecisionsSaid(m) \subseteq said, FeedResponse(m.env), UNCHANGED said
  PROVE  AsksBacked'
<1> DEFINE e == m.env
<1>1. e.task \in Tasks
  BY DEF Responses
<1>2. ASSUME NEW t \in Tasks, NEW a \in Asks
      PROVE  AskBacked(asked'[t][a], t, a)
  <2>1. CASE t = e.task /\ a \in Counted(e)
    <3>1. asked'[t][a] = Outcome(e.decisions[a], e.origin)
      BY <1>1, <2>1 DEF FeedResponse, TypeInv, LedgerType
    <3>2. a \in DOMAIN e.decisions
      BY <2>1 DEF Counted
    <3>3. [by |-> m.author, task |-> t, ask |-> a, decision |-> e.decisions[a]] \in said
      BY <2>1, <3>2 DEF DecisionsSaid, Genuine
    <3>4. e.decisions[a].applied => SaidDone(m.author, t, a)
      BY <3>3 DEF SaidDone
    <3>5. e.decisions[a].choice = "accept" => SaidYes(m.author, t, a)
      BY <3>3 DEF SaidYes
    <3>6. /\ Outcome(e.decisions[a], e.origin).state = "done" =>
               e.decisions[a].applied /\ Outcome(e.decisions[a], e.origin).decider = e.origin
          /\ Outcome(e.decisions[a], e.origin).state = "accepted" =>
               e.decisions[a].choice = "accept" /\ Outcome(e.decisions[a], e.origin).decider = e.origin
      BY DEF Outcome, AskState
    <3>7. e.origin = m.author
      BY DEF Genuine
    <3>8. QED
      BY <3>1, <3>4, <3>5, <3>6, <3>7 DEF AskBacked
  <2>2. CASE ~(t = e.task /\ a \in Counted(e))
    <3>1. asked'[t][a] = asked[t][a]
      BY <1>1, <2>2 DEF FeedResponse, TypeInv, LedgerType
    <3>2. QED
      BY <3>1 DEF AsksBacked
  <2>3. QED
    BY <2>1, <2>2
<1>3. QED
  BY <1>2 DEF AsksBacked, AskBacked, SaidDone, SaidYes

LEMMA NoticeBacks ==
  ASSUME TypeInv, AsksBacked, NEW e \in Notices, FeedNotice(e), UNCHANGED said
  PROVE  AsksBacked'
<1>1. ASSUME NEW t \in Tasks, NEW a \in Asks
      PROVE  asked'[t][a] = asked[t][a] \/ asked'[t][a].state \in {"pending", "absent"}
  BY <1>1 DEF FeedNotice, TypeInv, LedgerType, AskState, Absent, Notices
<1>2. QED
  BY <1>1 DEF AsksBacked, AskBacked, SaidDone, SaidYes

LEMMA FeedBacks ==
  ASSUME TypeInv, AsksBacked, NEW m \in Messages, Feed(m), UNCHANGED said,
         Genuine(m) => DecisionsSaid(m) \subseteq said
  PROVE  AsksBacked'
<1>1. m.env \in Envelopes
  BY DEF Messages
<1>2. CASE UNCHANGED asked
  BY <1>2, BackedStays
<1>3. CASE IsOwner(m) \/ m.env.kind = "prose" \/ m.env.origin # m.author
  BY <1>2, <1>3 DEF Feed, FeedForged, ledgerVars
<1>4. CASE ~(IsOwner(m) \/ m.env.kind = "prose" \/ m.env.origin # m.author)
  <2>1. CASE m.env \in Notices
    BY <1>4, <2>1, NoticeBacks DEF Feed, Notices
  <2>2. CASE m.env \in Responses
    BY <1>4, <2>2, ResponseBacks DEF Feed, Responses, Genuine
  <2>3. CASE m.env \in Plans
    BY <1>2, <1>4, <2>3 DEF Feed, FeedPlan, Plans
  <2>4. QED
    BY <1>1, <1>4, <2>1, <2>2, <2>3 DEF Envelopes, Prose
<1>5. QED
  BY <1>3, <1>4

LEMMA PlanBacked ==
  ASSUME TypeInv, AsksBacked, PlansBacked, NEW t \in PlanWorthy, PostPlan(t)
  PROVE  PlansBacked'
<1>1. plans' = plans \cup {ComposePlan(t)} /\ UNCHANGED said
  BY DEF PostPlan
<1>2. ASSUME NEW a \in DOMAIN ComposePlan(t).steps
      PROVE  StepBacked(ComposePlan(t).steps[a], t, a)
  <2>1. a \in Asks /\ t \in Tasks /\ ComposePlan(t).steps[a] = StepFor(asked[t][a])
    BY <1>2 DEF ComposePlan, AsksOf, PlanWorthy
  <2>2. asked[t][a].state # "redirected"
    BY <2>1 DEF PlanWorthy, IsOpen, OpenStates
  <2>3. AskBacked(asked[t][a], t, a)
    BY <2>1 DEF AsksBacked
  <2>4. /\ StepFor(asked[t][a]).status = "done" =>
             asked[t][a].state = "done" /\ StepFor(asked[t][a]).owner = asked[t][a].decider
        /\ StepFor(asked[t][a]).status = "needs-approval" =>
             asked[t][a].state = "accepted" /\ StepFor(asked[t][a]).owner = asked[t][a].decider
    BY <2>2 DEF StepFor
  <2>5. QED
    BY <2>1, <2>3, <2>4 DEF StepBacked, AskBacked
<1>3. ComposePlan(t).task = t
  BY DEF ComposePlan
<1>4. \A e \in plans' : \A a \in DOMAIN e.steps : StepBacked(e.steps[a], e.task, a)
  BY <1>1, <1>2, <1>3 DEF PlansBacked
<1>5. QED
  BY <1>1, <1>4 DEF PlansBacked, StepBacked, SaidDone, SaidYes

LEMMA TruthNext ==
  ASSUME TypeInv, TruthInv, [Next]_vars
  PROVE  TruthInv'
<1>1. PostedSaid(posted)'
  BY PostedStaysSaid DEF TruthInv
<1>2. AsksBacked /\ PlansBacked /\ said \subseteq said'
  BY SaidGrows DEF TruthInv
<1>3. CASE UNCHANGED <<asked, plans>>
  BY <1>1, <1>2, <1>3, BackedStays DEF TruthInv
<1>4. CASE RoundOnly
  BY <1>3, <1>4, RoundOnlySame DEF ledgerVars
<1>5. CASE FeedNext
  <2>1. /\ Head(posted) \in Messages /\ Feed(Head(posted)) /\ UNCHANGED <<said, plans>>
        /\ Head(posted) = posted[1] /\ 1 \in 1..Len(posted)
    BY <1>5 DEF FeedNext, TypeInv, RoundType, roomVars
  <2>2. Genuine(Head(posted)) => DecisionsSaid(Head(posted)) \subseteq said
    BY <2>1 DEF TruthInv, PostedSaid
  <2>3. AsksBacked'
    BY <1>2, <2>1, <2>2, FeedBacks
  <2>4. PlansBacked'
    BY <1>2, <2>1, BackedStays
  <2>5. QED
    BY <1>1, <2>3, <2>4 DEF TruthInv
<1>6. CASE SweepPlans
  <2>1. CASE SweepFails
    BY <1>3, <2>1 DEF SweepFails, ledgerVars, roomVars
  <2>2. ASSUME NEW t \in PlanWorthy, PostPlan(t)
        PROVE  TruthInv'
    <3>1. PlansBacked'
      BY <1>2, <2>2, PlanBacked
    <3>2. AsksBacked'
      BY <1>2, <2>2, BackedStays DEF PostPlan, MarkPlanned
    <3>3. QED
      BY <1>1, <3>1, <3>2 DEF TruthInv
  <2>3. QED
    BY <1>6, <2>1, <2>2 DEF SweepPlans
<1>7. CASE AllFed \/ AllPlanned \/ SweepStalls \/ EndOfSweep
  BY <1>3, <1>7
     DEF AllFed, AllPlanned, SweepStalls, EndOfSweep, PostStall, MarkStalled, SweepFails,
         DrainFailures, ConsumeFailures, ledgerVars, roomVars
<1>8. CASE Restart
  <2>1. AsksBacked'
    BY <1>8 DEF Restart, LedgerLost, NoAsks, Absent, AskState, AsksBacked, AskBacked
  <2>2. PlansBacked'
    BY <1>2, <1>8, BackedStays DEF Restart
  <2>3. QED
    BY <1>1, <2>1, <2>2 DEF TruthInv
<1>9. QED
  BY <1>4, <1>5, <1>6, <1>7, <1>8 DEF Next, SweepStep, RoundOnly, Call

LEMMA TruthInit == ASSUME Init PROVE TruthInv
  BY DEF Init, LedgerInit, NoAsks, Absent, AskState, TruthInv, PostedSaid, AsksBacked, AskBacked,
         PlansBacked

LEMMA TruthEnough ==
  ASSUME TypeInv, RecordsInv, TruthInv
  PROVE  PlansAreTrue
<1>1. ASSUME NEW e \in plans, NEW a \in DOMAIN e.steps
      PROVE  LET step == e.steps[a] IN
             /\ step.status = "done" =>
                  \E d \in Told(step.owner, e.task, a) : d.applied /\ HasRun(step.owner, e.task, d.key)
             /\ step.status = "needs-approval" =>
                  \E d \in Told(step.owner, e.task, a) : d.choice = "accept"
  <2>1. StepBacked(e.steps[a], e.task, a)
    BY <1>1 DEF TruthInv, PlansBacked
  <2>2. \A s \in said : s.by = e.steps[a].owner /\ s.task = e.task /\ s.ask = a =>
          s.decision \in Told(e.steps[a].owner, e.task, a)
    BY DEF Told
  <2>3. ASSUME e.steps[a].status = "done"
        PROVE  \E d \in Told(e.steps[a].owner, e.task, a) :
                 d.applied /\ HasRun(e.steps[a].owner, e.task, d.key)
    <3>1. PICK s \in said : /\ s.by = e.steps[a].owner /\ s.task = e.task /\ s.ask = a
                             /\ s.decision.applied
      BY <2>1, <2>3 DEF StepBacked, SaidDone
    <3>2. s.decision \in Told(e.steps[a].owner, e.task, a)
      BY <2>2, <3>1
    <3>3. HasRun(e.steps[a].owner, e.task, s.decision.key)
      BY <3>1 DEF RecordsInv
    <3>4. QED
      BY <3>1, <3>2, <3>3
  <2>4. QED
    BY <2>1, <2>2, <2>3 DEF StepBacked, SaidYes
<1>2. QED
  BY <1>1 DEF PlansAreTrue

(* A step a plan calls done was reported applied on that ask by its owner,  *)
(* whose reflex of that note's name ran; a step that needs approval was     *)
(* accepted by its owner in the room (negotiation.py: compose_plan; forged  *)
(* frames are inert), in every room and with every fault.                   *)
THEOREM PlansAlwaysTrue == Spec => []PlansAreTrue
<1>1. TypeInv /\ TruthInv /\ [Next]_vars => TruthInv'
  BY TruthNext
<1>2. TypeInv /\ RecordsInv /\ TruthInv => PlansAreTrue
  BY TruthEnough
<1>3. QED
  BY <1>1, <1>2, TruthInit, TypeInvAlways, RecordsAlways, PTL DEF Spec
-----------------------------------------------------------------------------
(* What was recorded is reported *)

Behind == {j \in DOMAIN Bank[Persona] : j < job.rule}

(* A covered ask is covered by the firing of a rule tried.                  *)
CoversBehind ==
  \A a \in DOMAIN job.fired :
    /\ job.fired[a].choice = "reflexed"
    /\ \E j \in Behind : Bank[Persona][j].ask = a /\ Bank[Persona][j].key = job.fired[a].key

(* A rule tried whose reflex is on record, in a note that could be read,    *)
(* left its ask covered, and did not cover it as unapplied.                 *)
IsHeeded(rule) ==
  (/\ rule.ask \in job.asks /\ rule.key \notin job.misread
   /\ <<job.task, rule.key>> \in Recorded(Persona))
  => /\ rule.ask \in DOMAIN job.fired
     /\ job.fired[rule.ask].key = rule.key => job.fired[rule.ask].applied
HeedsRecords == \A i \in Behind : IsHeeded(Bank[Persona][i])

HeedInv ==
  AtWork => /\ CoversBehind /\ HeedsRecords
            /\ phase = "mark" => Matches
            /\ phase = "answer" => job.rule > Len(Bank[Persona])

(* A bank is a sequence of rules, no two of one capability.                 *)
LEMMA BankType ==
  ASSUME NEW p \in Handles
  PROVE  /\ Bank[p] \in Seq(Rules) /\ DOMAIN Bank[p] = 1..Len(Bank[p]) /\ DOMAIN Bank[p] \subseteq Nat
         /\ \A i \in DOMAIN Bank[p] : Bank[p][i].key \in Keys /\ Bank[p][i].ask \in Asks
         /\ \A i, j \in DOMAIN Bank[p] : Bank[p][i].key = Bank[p][j].key => i = j
<1>1. Bank[p] \in Seq(Rules) /\ \A i, j \in DOMAIN Bank[p] : Bank[p][i].key = Bank[p][j].key => i = j
  BY ReflexAssumption
<1>2. \A i \in DOMAIN Bank[p] : Bank[p][i] \in Rules
  BY <1>1, ElementOfSeq
<1>3. QED
  BY <1>1, <1>2 DEF Rules

(* A rule covers an ask of its own.                                         *)
LEMMA CoverShape ==
  ASSUME TypeInv, NEW ok \in BOOLEAN, NEW u, Cover(ok, u)
  PROVE  /\ job'.task = job.task /\ job'.asks = job.asks /\ job'.misread = u
         /\ job'.rule = job.rule + 1
         /\ DOMAIN job'.fired = DOMAIN job.fired \cup {Rule.ask}
         /\ job'.fired[Rule.ask] = Firing(ok)
         /\ \A a \in DOMAIN job.fired \ {Rule.ask} : job'.fired[a] = job.fired[a]
<1>1. job \in Jobs
  BY DEF TypeInv, RoundType
<1>2. job'.fired = Covered(ok)
  BY <1>1 DEF Cover, Jobs
<1>3. job'.task = job.task /\ job'.asks = job.asks /\ job'.misread = u /\ job'.rule = job.rule + 1
  BY <1>1 DEF Cover, Jobs
<1>4. QED
  BY <1>2, <1>3 DEF Covered

(* A rule left alone leaves the job as it was, one rule further.            *)
LEMMA SkipShape ==
  ASSUME TypeInv, NEW u, SkipRule(u)
  PROVE  /\ job'.task = job.task /\ job'.asks = job.asks /\ job'.misread = u
         /\ job'.rule = job.rule + 1 /\ job'.fired = job.fired
<1>1. job \in Jobs
  BY DEF TypeInv, RoundType
<1>2. QED
  BY <1>1 DEF SkipRule, Jobs

(* The rules tried after a step that tries one more.                        *)
LEMMA BehindGrows ==
  ASSUME TypeInv, job.rule \in DOMAIN Bank[Persona], job'.rule = job.rule + 1, Persona' = Persona
  PROVE  Behind' = Behind \cup {job.rule} /\ job.rule \notin Behind
<1>1. DOMAIN Bank[Persona] \subseteq Nat
  BY PersonaType, BankType DEF TypeInv
<1>2. \A j \in DOMAIN Bank[Persona] : j < job.rule + 1 <=> (j < job.rule \/ j = job.rule)
  BY <1>1
<1>3. QED
  BY <1>1, <1>2 DEF Behind

(* Only a mark records; a restart may forget.                               *)
LEMMA RecordedByMark ==
  ASSUME TypeInv, [Next]_vars, ~MarkReflex
  PROVE  \A p \in Handles : Recorded(p)' \subseteq Recorded(p)
<1>1. CASE CalmStep
  BY <1>1, CalmSteps DEF logVars, Recorded
<1>2. CASE Take \/ PassOver \/ ReportSeen \/ AllRulesTried \/ AnswerAsks \/ UNCHANGED vars
  BY <1>2 DEF Take, PassOver, ReportSeen, AllRulesTried, AnswerAsks, logVars, vars, Recorded
<1>3. CASE RunReflex
  BY <1>3 DEF RunReflex, Recorded
<1>4. CASE Restart
  BY <1>4 DEF Restart, Recorded
<1>5. QED
  BY <1>1, <1>2, <1>3, <1>4, StepsSplit

(* What a look-up that found nothing leaves of a record: a note not read.   *)
LEMMA UnseenIsMisread ==
  ASSUME TypeInv, AtWork, NEW read \in BOOLEAN, ~Seen(Persona, Pair, read)
  PROVE  /\ Pair \in Recorded(Persona) => Rule.key \in Misread(read)
         /\ job.misread \subseteq Misread(read)
<1>1. ASSUME Pair \in Recorded(Persona)
      PROVE  Rule.key \in Misread(read)
  <2>1. Pair \in kept[Persona] /\ ~read
    BY <1>1 DEF Seen, Recorded, HasNote
  <2>2. HasNote(Persona, Pair)
    BY <2>1 DEF HasNote
  <2>3. QED
    BY <2>1, <2>2 DEF Misread
<1>2. QED
  BY <1>1 DEF Misread

(* The rules tried before this one are of other capabilities, and stay as   *)
(* heeded as they were when it is tried.                                    *)
LEMMA OthersStayHeeded ==
  ASSUME TypeInv, HeedInv, AtWork, job.rule \in DOMAIN Bank[Persona],
         Persona' = Persona, job'.task = job.task, job'.asks = job.asks,
         job.misread \subseteq job'.misread,
         Recorded(Persona)' \subseteq Recorded(Persona) \cup {Pair},
         \A a \in DOMAIN job.fired : a \in DOMAIN job'.fired /\ job'.fired[a] = job.fired[a],
         NEW i \in Behind
  PROVE  IsHeeded(Bank[Persona][i])' /\ Bank[Persona][i].key # Rule.key
<1>1. i \in DOMAIN Bank[Persona] /\ i # job.rule /\ Persona \in Handles
  BY PersonaType DEF TypeInv, Behind, RoundType, Jobs
<1>2. Bank[Persona][i].key # Rule.key
  BY <1>1, BankType DEF Rule
<1>3. <<job.task, Bank[Persona][i].key>> # Pair
  BY <1>2 DEF Pair
<1>4. IsHeeded(Bank[Persona][i])
  BY DEF HeedInv, HeedsRecords
<1>5. IsHeeded(Bank[Persona][i])'
  <2> DEFINE rule == Bank[Persona][i]
  <2>1. rule' = rule
    OBVIOUS
  <2>2. SUFFICES ASSUME rule.ask \in job'.asks, rule.key \notin job'.misread,
                        <<job'.task, rule.key>> \in Recorded(Persona)'
                 PROVE  /\ rule.ask \in DOMAIN job'.fired
                        /\ job'.fired[rule.ask].key = rule.key => job'.fired[rule.ask].applied
    BY <2>1 DEF IsHeeded
  <2>3. <<job.task, rule.key>> \in Recorded(Persona)
    BY <1>3, <2>2
  <2>4. rule.ask \in DOMAIN job.fired /\ (job.fired[rule.ask].key = rule.key => job.fired[rule.ask].applied)
    BY <1>4, <2>2, <2>3 DEF IsHeeded
  <2>5. QED
    BY <2>4
<1>6. QED
  BY <1>2, <1>5

(* A rule that is passed over is not on record, or its ask is covered.      *)
LEMMA SkipHeeds ==
  ASSUME TypeInv, HeedInv, AtWork, job.rule \in DOMAIN Bank[Persona], NEW u, SkipRule(u),
         UNCHANGED roundVars, job.misread \subseteq u,
         Recorded(Persona)' \subseteq Recorded(Persona),
         \/ Rule.ask \notin job.asks \/ Rule.ask \in DOMAIN job.fired
         \/ Pair \in Recorded(Persona) => Rule.key \in u
  PROVE  HeedInv'
<1>1. /\ job'.task = job.task /\ job'.asks = job.asks /\ job'.misread = u
      /\ job'.rule = job.rule + 1 /\ job'.fired = job.fired /\ phase' = "rules"
      /\ Persona' = Persona
  BY SkipShape DEF SkipRule, Persona, roundVars
<1>2. Behind' = Behind \cup {job.rule}
  BY <1>1, BehindGrows
<1>3. CoversBehind'
  BY <1>1, <1>2 DEF HeedInv, CoversBehind
<1>4. \A i \in Behind : IsHeeded(Bank[Persona][i])' /\ Bank[Persona][i].key # Rule.key
  BY <1>1, OthersStayHeeded
<1>6. ASSUME Rule.ask \in job.asks, Rule.key \notin u, Pair \in Recorded(Persona)
      PROVE  Rule.ask \in DOMAIN job.fired /\ job.fired[Rule.ask].key # Rule.key
  <2>1. Rule.ask \in DOMAIN job.fired
    BY <1>6
  <2>2. PICK j \in Behind : Bank[Persona][j].key = job.fired[Rule.ask].key
    BY <2>1 DEF HeedInv, CoversBehind
  <2>3. QED
    BY <1>4, <2>1, <2>2
<1>7. \A i \in Behind' : IsHeeded(Bank[Persona][i])'
  <2>1. ASSUME NEW i, i = job.rule
        PROVE  IsHeeded(Bank[Persona][i])'
    BY <1>1, <1>6, <2>1 DEF IsHeeded, Rule, Pair
  <2>2. QED
    BY <1>2, <1>4, <2>1
<1>8. QED
  BY <1>1, <1>3, <1>7 DEF HeedInv, HeedsRecords

(* A rule that covers its ask covers it as applied if it is on record.      *)
LEMMA CoverHeeds ==
  ASSUME TypeInv, HeedInv, AtWork, job.rule \in DOMAIN Bank[Persona], NEW ok \in BOOLEAN, NEW u,
         Cover(ok, u), Matches, UNCHANGED roundVars, job.misread \subseteq u,
         Recorded(Persona)' \subseteq Recorded(Persona) \cup {Pair},
         ok \/ (Pair \in Recorded(Persona)' => Rule.key \in u)
  PROVE  HeedInv'
<1>1. /\ job'.task = job.task /\ job'.asks = job.asks /\ job'.misread = u
      /\ job'.rule = job.rule + 1 /\ phase' = "rules" /\ Persona' = Persona
      /\ DOMAIN job'.fired = DOMAIN job.fired \cup {Rule.ask}
      /\ job'.fired[Rule.ask] = Firing(ok)
      /\ \A a \in DOMAIN job.fired \ {Rule.ask} : job'.fired[a] = job.fired[a]
  BY CoverShape DEF Cover, Persona, roundVars
<1>2. Behind' = Behind \cup {job.rule}
  BY <1>1, BehindGrows
<1>3. Rule.ask \notin DOMAIN job.fired /\ Rule = Bank[Persona][job.rule]
      /\ Firing(ok).choice = "reflexed" /\ Firing(ok).key = Rule.key /\ Firing(ok).applied = ok
  BY DEF Matches, Rule, Firing
<1>4. \A i \in Behind : IsHeeded(Bank[Persona][i])' /\ Bank[Persona][i].key # Rule.key
  BY <1>1, <1>3, OthersStayHeeded
<1>5. CoversBehind'
  <2>1. ASSUME NEW a \in DOMAIN job'.fired
        PROVE  /\ job'.fired[a].choice = "reflexed"
               /\ \E j \in Behind' : Bank[Persona][j].ask = a /\ Bank[Persona][j].key = job'.fired[a].key
    <3>1. CASE a = Rule.ask
      BY <1>1, <1>2, <1>3, <3>1
    <3>2. CASE a # Rule.ask
      <4>1. a \in DOMAIN job.fired /\ job'.fired[a] = job.fired[a]
        BY <1>1, <2>1, <3>2
      <4>2. QED
        BY <1>2, <4>1 DEF HeedInv, CoversBehind
    <3>3. QED
      BY <3>1, <3>2
  <2>2. QED
    BY <1>1, <2>1 DEF CoversBehind
<1>6. \A i \in Behind' : IsHeeded(Bank[Persona][i])'
  <2>1. ASSUME NEW i, i = job.rule
        PROVE  IsHeeded(Bank[Persona][i])'
    BY <1>1, <1>3, <2>1 DEF IsHeeded, Pair
  <2>2. QED
    BY <1>2, <1>4, <2>1
<1>7. QED
  BY <1>1, <1>5, <1>6 DEF HeedInv, HeedsRecords

(* A step that leaves the rules where they were and records nothing.        *)
LEMMA StillHeeds ==
  ASSUME TypeInv, HeedInv, AtWork, UNCHANGED roundVars, UNCHANGED <<marked, kept>>,
         job'.task = job.task, job'.asks = job.asks, job'.rule = job.rule, job'.fired = job.fired,
         job.misread \subseteq job'.misread,
         phase' = "mark" => Matches, phase' = "answer" => job.rule > Len(Bank[Persona])
  PROVE  HeedInv'
<1>1. Persona' = Persona /\ Behind' = Behind /\ Recorded(Persona)' = Recorded(Persona) /\ Rule' = Rule
  BY DEF Persona, Behind, Recorded, Rule, roundVars
<1>2. CoversBehind' /\ (phase' = "mark" => Matches')
  BY <1>1 DEF HeedInv, CoversBehind, Matches
<1>3. ASSUME NEW i \in Behind
      PROVE  IsHeeded(Bank[Persona][i])'
  <2>1. IsHeeded(Bank[Persona][i])
    BY DEF HeedInv, HeedsRecords
  <2>2. QED
    BY <1>1, <2>1 DEF IsHeeded
<1>4. HeedsRecords'
  BY <1>1, <1>3 DEF HeedsRecords
<1>5. QED
  BY <1>1, <1>2, <1>4 DEF HeedInv

(* A job taken up has tried no rule.                                        *)
LEMMA TakeHeeds == ASSUME TypeInv, Take PROVE HeedInv'
<1>1. phase' = "rules" /\ job'.rule = 1 /\ job'.fired = NoFirings /\ Persona' = Persona
  BY DEF Take, JobFor, roundVars, Persona
<1>2. Behind' = {}
  <2>1. DOMAIN Bank[Persona] = 1..Len(Bank[Persona]) /\ Bank[Persona] \in Seq(Rules)
    BY PersonaType, BankType DEF TypeInv
  <2>2. \A j \in 1..Len(Bank[Persona]) : ~(j < 1)
    BY <2>1
  <2>3. QED
    BY <1>1, <2>1, <2>2 DEF Behind
<1>3. CoversBehind' /\ HeedsRecords'
  BY <1>1, <1>2 DEF CoversBehind, HeedsRecords, NoFirings
<1>4. QED
  BY <1>1, <1>3 DEF HeedInv

LEMMA PassOverHeeds == ASSUME TypeInv, HeedInv, PassOver PROVE HeedInv'
<1>1. /\ AtWork /\ UNCHANGED roundVars /\ job.rule \in DOMAIN Bank[Persona]
      /\ Recorded(Persona)' = Recorded(Persona)
  BY TryingType DEF PassOver, Trying, AtWork, firingRest, logVars, roundVars, Recorded, Persona
<1>2. CASE ~Matches /\ SkipRule(job.misread)
  BY <1>1, <1>2, SkipHeeds DEF Matches
<1>3. ASSUME NEW read \in Reads, ~Seen(Persona, Pair, read), SkipRule(Misread(read))
      PROVE  HeedInv'
  <2>1. read \in BOOLEAN
    BY DEF Reads
  <2>2. (Pair \in Recorded(Persona) => Rule.key \in Misread(read)) /\ job.misread \subseteq Misread(read)
    BY <1>1, <1>3, <2>1, UnseenIsMisread
  <2>3. QED
    BY <1>1, <1>3, <2>2, SkipHeeds
<1>4. QED
  BY <1>2, <1>3 DEF PassOver

LEMMA ReportSeenHeeds == ASSUME TypeInv, HeedInv, ReportSeen PROVE HeedInv'
<1>1. /\ AtWork /\ UNCHANGED roundVars /\ job.rule \in DOMAIN Bank[Persona] /\ Matches
      /\ Cover(TRUE, job.misread) /\ Recorded(Persona)' = Recorded(Persona)
  BY TryingType DEF ReportSeen, Trying, AtWork, firingRest, logVars, roundVars, Recorded, Persona
<1>2. QED
  BY <1>1, CoverHeeds

LEMMA RunReflexHeeds == ASSUME TypeInv, HeedInv, RunReflex PROVE HeedInv'
<1>1. /\ AtWork /\ UNCHANGED roundVars /\ job.rule \in DOMAIN Bank[Persona] /\ Matches
      /\ UNCHANGED <<marked, kept>> /\ Recorded(Persona)' = Recorded(Persona)
  BY TryingType DEF RunReflex, Trying, AtWork, firingRest, roundVars, Recorded, Persona
<1>2. PICK read \in Reads :
        /\ ~Seen(Persona, Pair, read)
        /\ \/ phase' = "mark" /\ job' = [job EXCEPT !.misread = Misread(read)]
           \/ Cover(FALSE, Misread(read))
  BY DEF RunReflex
<1>3. (Pair \in Recorded(Persona) => Rule.key \in Misread(read)) /\ job.misread \subseteq Misread(read)
  BY <1>1, <1>2, UnseenIsMisread DEF Reads
<1>4. CASE Cover(FALSE, Misread(read))
  BY <1>1, <1>3, <1>4, CoverHeeds
<1>5. CASE phase' = "mark" /\ job' = [job EXCEPT !.misread = Misread(read)]
  <2>1. /\ job'.task = job.task /\ job'.asks = job.asks /\ job'.rule = job.rule
        /\ job'.fired = job.fired /\ job'.misread = Misread(read)
    BY <1>5 DEF TypeInv, RoundType, Jobs
  <2>2. QED
    BY <1>1, <1>3, <1>5, <2>1, StillHeeds
<1>6. QED
  BY <1>2, <1>4, <1>5

LEMMA MarkReflexHeeds == ASSUME TypeInv, HeedInv, MarkReflex PROVE HeedInv'
<1>1. /\ AtWork /\ Matches /\ job.rule \in DOMAIN Bank[Persona] /\ Persona \in Handles
      /\ marked' = [marked EXCEPT ![Persona] = @ \cup {Pair}]
  BY PersonaType DEF MarkReflex, AtWork, HeedInv, TypeInv, MarkInv
<1>2. CASE Abort
  BY <1>2 DEF Abort, HeedInv, AtWork
<1>3. CASE /\ Cover(TRUE, job.misread) /\ UNCHANGED roundVars
           /\ kept' = [kept EXCEPT ![Persona] = @ \cup {Pair}]
  <2>1. Recorded(Persona)' \subseteq Recorded(Persona) \cup {Pair}
    <3>1. Persona' = Persona
      BY <1>3 DEF roundVars, Persona
    <3>2. marked'[Persona] = marked[Persona] \cup {Pair} /\ kept'[Persona] = kept[Persona] \cup {Pair}
      BY <1>1, <1>3 DEF TypeInv, LogType
    <3>3. QED
      BY <3>1, <3>2 DEF Recorded
  <2>2. QED
    BY <1>1, <1>3, <2>1, CoverHeeds
<1>4. QED
  BY <1>2, <1>3 DEF MarkReflex

LEMMA HeedNext == ASSUME TypeInv, HeedInv, [Next]_vars PROVE HeedInv'
<1>1. CASE CalmStep
  BY <1>1, CalmSteps DEF HeedInv, AtWork
<1>2. CASE AnswerAsks \/ Restart
  BY <1>2 DEF AnswerAsks, PostReply, Restart, Abort, HeedInv, AtWork
<1>3. CASE AllRulesTried
  <2>1. /\ AtWork /\ UNCHANGED roundVars /\ UNCHANGED <<marked, kept, job>> /\ phase' = "answer"
        /\ job.rule > Len(Bank[Persona])
    BY <1>3 DEF AllRulesTried, AtWork, firingRest, logVars
  <2>2. QED
    BY <2>1, StillHeeds
<1>4. CASE UNCHANGED vars
  <2>1. UNCHANGED roundVars /\ UNCHANGED <<marked, kept, job, phase>>
    BY <1>4 DEF vars, logVars
  <2>2. CASE AtWork
    BY <2>1, <2>2, StillHeeds DEF HeedInv
  <2>3. CASE ~AtWork
    BY <2>1, <2>3 DEF HeedInv, AtWork
  <2>4. QED
    BY <2>2, <2>3
<1>5. QED
  BY <1>1, <1>2, <1>3, <1>4, StepsSplit, TakeHeeds, PassOverHeeds, ReportSeenHeeds,
     RunReflexHeeds, MarkReflexHeeds

(* Only an answer, or a note in its place, goes from an answer to the next  *)
(* hearing.                                                                 *)
LEMMA StepsFromAnswer ==
  ASSUME [Next]_vars, phase = "answer", phase' = "hear"
  PROVE  NoteWithoutAsks \/ AnswerAsks
<1>1. ~(Overhear \/ EndOfRound \/ Converse \/ RecordQuietly \/ Ignore \/ Take)
  BY DEF Overhear, EndOfRound, Converse, RecordQuietly, Ignore, Take, Hearing
<1>2. ~(PassOver \/ ReportSeen \/ RunReflex \/ MarkReflex \/ AllRulesTried \/ ModelDown)
  BY DEF PassOver, ReportSeen, RunReflex, Trying, MarkReflex, AllRulesTried, ModelDown, Abort
<1>3. ~(PostNotice \/ OwnerSays \/ RedeliverPlan \/ EchoNotice \/ ForgeResponse)
  BY DEF PostNotice, OwnerSays, RedeliverPlan, EchoNotice, ForgeResponse, Begin
<1>4. ~(SweepStep \/ Restart \/ UNCHANGED vars)
  BY DEF SweepStep, FeedNext, AllFed, SweepPlans, AllPlanned, SweepStalls, EndOfSweep, Restart,
         Abort, vars
<1>5. QED
  BY <1>1, <1>2, <1>3, <1>4 DEF Next, RoundStep

(* An answer that gets through says of every rule on record what it did.    *)
LEMMA AnswerReports ==
  ASSUME TypeInv, HeedInv, [Next]_vars, phase = "answer", phase' = "hear",
         NEW i \in DOMAIN Bank[Persona], Bank[Persona][i].ask \in job.asks,
         Bank[Persona][i].key \notin job.misread,
         <<job.task, Bank[Persona][i].key>> \in Recorded(Persona)
  PROVE  Reports(Bank[Persona][i])
<1> DEFINE rule == Bank[Persona][i]
<1>1. AtWork /\ CoversBehind /\ HeedsRecords /\ job.rule > Len(Bank[Persona])
  BY DEF AtWork, HeedInv
<1>2. i \in Behind
  <2>1. DOMAIN Bank[Persona] = 1..Len(Bank[Persona]) /\ Len(Bank[Persona]) \in Nat /\ job.rule \in Nat
    BY PersonaType, BankType DEF TypeInv, RoundType, Jobs
  <2>2. QED
    BY <1>1, <2>1 DEF Behind
<1>3. /\ rule.ask \in DOMAIN job.fired /\ job.fired[rule.ask].choice = "reflexed"
      /\ job.fired[rule.ask].key = rule.key => job.fired[rule.ask].applied
  BY <1>1, <1>2 DEF HeedsRecords, IsHeeded, CoversBehind
<1>4. \E model \in [Remaining -> ModelDecisions(Persona)] : PostReply(Response(model))
  <2>1. NoteWithoutAsks \/ AnswerAsks
    BY StepsFromAnswer
  <2>2. ~NoteWithoutAsks
    BY <1>3 DEF NoteWithoutAsks, NoFirings
  <2>3. QED
    BY <2>1, <2>2 DEF AnswerAsks, Abort
<1>5. PICK model \in [Remaining -> ModelDecisions(Persona)] : PostReply(Response(model))
  BY <1>4
<1>6. /\ Response(model).env.task = job.task /\ rule.ask \in DOMAIN Response(model).env.decisions
      /\ Response(model).env.decisions[rule.ask] = job.fired[rule.ask]
  BY <1>3 DEF Response, Message
<1>7. /\ posted \in Seq(Messages) /\ posted' = Append(posted, Response(model))
      /\ Response(model) \in Messages
  <2>1. job.fired # NoFirings
    BY <1>3 DEF NoFirings
  <2>2. QED
    BY <1>5, <2>1, ResponseType DEF PostReply, TypeInv, RoundType
<1>8. Len(posted') > Len(posted) /\ posted'[Len(posted')] = Response(model)
  BY <1>7, AppendProperties
<1>9. QED
  BY <1>3, <1>6, <1>8 DEF Reports

(* An answer tells what was applied: the ask of a reflex on record for the  *)
(* task is answered by a reflex, and not as unapplied by that capability,   *)
(* unless its note could not be read while this very answer was made; the   *)
(* retry of an answer that was cut short tells it too (negotiation.py: S6;  *)
(* reflex.py: the seen-precheck), in every room, with every bank and fault. *)
THEOREM AppliedAlwaysReported == Spec => AppliedIsReported
<1>1. Init => HeedInv
  BY DEF Init, HeedInv, AtWork
<1>2. TypeInv /\ HeedInv /\ [Next]_vars => HeedInv'
  BY HeedNext
<1>3. TypeInv /\ HeedInv /\ [Next]_vars =>
        ((phase = "answer" /\ phase' = "hear") =>
           \A i \in DOMAIN Bank[Persona] :
             LET rule == Bank[Persona][i] IN
             (/\ rule.ask \in job.asks /\ rule.key \notin job.misread
              /\ <<job.task, rule.key>> \in Recorded(Persona)) => Reports(rule))
  BY AnswerReports
<1>4. QED
  BY <1>1, <1>2, <1>3, TypeInvAlways, PTL DEF Spec, AppliedIsReported

-----------------------------------------------------------------------------
(* The failure hook hears the truth, once *)

Refusals == {"declined", "reflex_refused"}

RefusalsStand ==
  \A r \in failures \cup told : r.reason \in Refusals =>
    r.task \in Tasks /\ r.ask \in Asks /\ asked[r.task][r.ask] = AskState("owner", r.by)
ToldOnce == \A r \in failures \cap told : r.reason = "parse_failed"

Accounted(t, a) == Deferred(t, a) \/ \E r \in told \cup failures : r.task = t /\ r.ask = a
NoneForgotten == \A t \in Tasks, a \in Asks : asked[t][a].state = "owner" => Accounted(t, a)

ToldAll == phase = "idle" /\ returned => failures = {}

FailInv == RefusalsStand /\ ToldOnce /\ NoneForgotten /\ ToldAll

(* What touches no ask and no failure keeps the truth about them.           *)
LEMMA FailuresStay ==
  ASSUME FailInv, UNCHANGED <<asked, failures, told>>, said \subseteq said',
         phase' = "idle" /\ returned' => phase = "idle" /\ returned
  PROVE  FailInv'
<1>1. RefusalsStand' /\ ToldOnce'
  BY DEF FailInv, RefusalsStand, ToldOnce
<1>2. NoneForgotten'
  BY DEF FailInv, NoneForgotten, Accounted, Deferred
<1>3. ToldAll'
  BY DEF FailInv, ToldAll
<1>4. QED
  BY <1>1, <1>2, <1>3 DEF FailInv

(* The hook is told in the sweep only.                                      *)
LEMMA RoundTellsNobody ==
  ASSUME TypeInv, RoundOnly
  PROVE  UNCHANGED told
<1>1. CASE Call
  BY <1>1, CallBegins DEF Begin, roomVars
<1>2. CASE Overhear \/ Ignore \/ EndOfRound \/ Take \/ Converse
  BY <1>2 DEF Overhear, Ignore, EndOfRound, Take, Converse, PostReply, StaysQuiet, roomVars
<1>3. CASE RecordQuietly \/ NoteWithoutAsks \/ ModelDown \/ AnswerAsks
  BY <1>3 DEF RecordQuietly, NoteWithoutAsks, ModelDown, AnswerAsks, PostReply, StaysQuiet, roomVars
<1>4. CASE PassOver \/ ReportSeen \/ RunReflex \/ MarkReflex \/ AllRulesTried
  BY <1>4 DEF PassOver, ReportSeen, RunReflex, MarkReflex, AllRulesTried, firingRest, roomVars
<1>5. CASE UNCHANGED vars
  BY <1>5 DEF vars, roomVars
<1>6. QED
  BY <1>1, <1>2, <1>3, <1>4, <1>5 DEF RoundOnly, RoundStep

(* The round keeps the truth about failures.                                *)
LEMMA RoundFails ==
  ASSUME TypeInv, FailInv, [Next]_vars, RoundOnly
  PROVE  FailInv'
<1>1. UNCHANGED <<asked, failures, told>> /\ said \subseteq said'
  BY RoundOnlySame, RoundTellsNobody, SaidGrows DEF ledgerVars
<1>2. phase' = "idle" /\ returned' => phase = "idle" /\ returned
  BY RoundOnlyPhase
<1>3. QED
  BY <1>1, <1>2, FailuresStay

-----------------------------------------------------------------------------
(* What a message fed to the ledger makes of its failures *)

(* What a decision that counts records, and why an ask goes to the owner.   *)
LEMMA OutcomeFails ==
  ASSUME NEW d, NEW p
  PROVE  /\ FailureReason(d) \subseteq Refusals
         /\ FailureReason(d) # {} => Outcome(d, p) = AskState("owner", p)
         /\ Outcome(d, p).state = "owner" => FailureReason(d) # {} \/ d.choice \notin {"reflexed", "decline"}
BY DEF FailureReason, Refusals, Outcome, AskState

(* An ask that goes to the owner without a failure was deferred.            *)
LEMMA OwnerByDefer ==
  ASSUME NEW d \in Decisions, NEW p, Outcome(d, p).state = "owner", FailureReason(d) = {}
  PROVE  d.choice = "defer" /\ Outcome(d, p).decider = p
BY DEF Decisions, FailureReason, Outcome, AskState

(* What counts is a decision about an open ask.                             *)
LEMMA CountedOpen ==
  ASSUME TypeInv, NEW e \in Responses, NEW a \in Counted(e)
  PROVE  a \in Asks /\ e.decisions[a] \in Decisions
         /\ asked[e.task][a].state \in OpenStates
<1>1. a \in DOMAIN e.decisions /\ Counts(asked[e.task][a], e.origin)
  BY DEF Counted
<1>2. a \in Asks /\ e.decisions[a] \in Decisions
  BY <1>1, DecisionsType
<1>3. QED
  BY <1>1, <1>2 DEF Counts, OpenStates

(* The records a response adds.                                             *)
RefusedBy(e) ==
  UNION {[task : {e.task}, by : {e.origin}, ask : {a}, reason : FailureReason(e.decisions[a])] :
           a \in Counted(e)}

(* A response records its refusals that count, of its own asks.             *)
LEMMA RefusedByShape ==
  ASSUME NEW e
  PROVE  /\ \A r \in RefusedBy(e) :
              /\ r.task = e.task /\ r.by = e.origin /\ r.ask \in Counted(e)
              /\ r.reason \in FailureReason(e.decisions[r.ask])
         /\ \A a \in Counted(e) : FailureReason(e.decisions[a]) # {} =>
              \E r \in RefusedBy(e) : r.task = e.task /\ r.ask = a
<1> DEFINE R(a) == [task : {e.task}, by : {e.origin}, ask : {a}, reason : FailureReason(e.decisions[a])]
<1>1. \A r : r \in RefusedBy(e) <=> \E a \in Counted(e) : r \in R(a)
  BY DEF RefusedBy
<1>2. \A a : \A r \in R(a) : /\ r.task = e.task /\ r.by = e.origin /\ r.ask = a
                             /\ r.reason \in FailureReason(e.decisions[a])
  OBVIOUS
<1>3. ASSUME NEW a \in Counted(e), FailureReason(e.decisions[a]) # {}
      PROVE  \E r \in RefusedBy(e) : r.task = e.task /\ r.ask = a
  <2>1. PICK why \in FailureReason(e.decisions[a]) : TRUE
    BY <1>3
  <2>2. [task |-> e.task, by |-> e.origin, ask |-> a, reason |-> why] \in R(a)
    OBVIOUS
  <2>3. QED
    BY <1>1, <1>2, <2>2
<1>4. QED
  BY <1>1, <1>2, <1>3

(* A response: no ask it settles was refused before.                        *)
LEMMA ResponseFails ==
  ASSUME TypeInv, FailInv, NEW m \in Messages, m.env \in Responses, Genuine(m),
         DecisionsSaid(m) \subseteq said, FeedResponse(m.env), UNCHANGED <<said, told>>,
         phase' # "idle"
  PROVE  FailInv'
<1> DEFINE e == m.env
<1>1. e.task \in Tasks /\ asked \in [Tasks -> [Asks -> AskStates]]
  BY DEF Responses, TypeInv, LedgerType
<1>2. failures' = failures \cup RefusedBy(e)
  BY DEF FeedResponse, RefusedBy
<1>3. \A a \in Counted(e) : a \in Asks /\ e.decisions[a] \in Decisions
                            /\ asked[e.task][a].state \in OpenStates
  BY CountedOpen
<1>4. \A a \in Counted(e) : asked'[e.task][a] = Outcome(e.decisions[a], e.origin)
  BY <1>1, <1>3 DEF FeedResponse
<1>5. \A t \in Tasks, a \in Asks : ~(t = e.task /\ a \in Counted(e)) => asked'[t][a] = asked[t][a]
  BY <1>1 DEF FeedResponse
<1>6. \A p : AskState("owner", p).state = "owner" /\ "owner" \notin OpenStates
  BY DEF AskState, OpenStates
<1> HIDE DEF e
<1>7. ASSUME NEW r \in failures \cup told, r.reason \in Refusals
      PROVE  /\ r.task \in Tasks /\ r.ask \in Asks /\ asked[r.task][r.ask] = AskState("owner", r.by)
             /\ ~(r.task = e.task /\ r.ask \in Counted(e))
  <2>1. r.task \in Tasks /\ r.ask \in Asks /\ asked[r.task][r.ask] = AskState("owner", r.by)
    BY <1>7 DEF FailInv, RefusalsStand
  <2>2. QED
    BY <1>3, <1>6, <2>1
<1>8. ASSUME NEW r \in RefusedBy(e)
      PROVE  /\ r.task = e.task /\ r.by = e.origin /\ r.ask \in Counted(e) /\ r.ask \in Asks
             /\ r.reason \in Refusals /\ Outcome(e.decisions[r.ask], e.origin) = AskState("owner", r.by)
  <2>1. /\ r.task = e.task /\ r.by = e.origin /\ r.ask \in Counted(e)
        /\ r.reason \in FailureReason(e.decisions[r.ask])
    BY RefusedByShape
  <2>2. /\ FailureReason(e.decisions[r.ask]) \subseteq Refusals
        /\ Outcome(e.decisions[r.ask], e.origin) = AskState("owner", e.origin)
    BY <2>1, OutcomeFails
  <2>3. QED
    BY <1>3, <2>1, <2>2
<1>9. RefusalsStand'
  <2>1. ASSUME NEW r \in failures' \cup told', r.reason \in Refusals
        PROVE  r.task \in Tasks /\ r.ask \in Asks /\ asked'[r.task][r.ask] = AskState("owner", r.by)
    <3>1. CASE r \in RefusedBy(e)
      BY <1>1, <1>4, <1>8, <3>1
    <3>2. CASE r \in failures \cup told
      BY <1>5, <1>7, <2>1, <3>2
    <3>3. QED
      BY <1>2, <2>1, <3>1, <3>2
  <2>2. QED
    BY <2>1 DEF RefusalsStand
<1>10. ToldOnce'
  <2>1. ASSUME NEW r \in failures' \cap told'
        PROVE  r.reason = "parse_failed"
    <3>1. r \notin RefusedBy(e)
      BY <1>7, <1>8, <2>1
    <3>2. QED
      BY <1>2, <2>1, <3>1 DEF FailInv, ToldOnce
  <2>2. QED
    BY <2>1 DEF ToldOnce
<1>11. NoneForgotten'
  <2>1. ASSUME NEW t \in Tasks, NEW a \in Asks, asked'[t][a].state = "owner"
        PROVE  Accounted(t, a)'
    <3>1. CASE t = e.task /\ a \in Counted(e)
      <4>1. Outcome(e.decisions[a], e.origin).state = "owner" /\ e.decisions[a] \in Decisions
            /\ asked'[t][a] = Outcome(e.decisions[a], e.origin)
        BY <1>3, <1>4, <2>1, <3>1
      <4>2. CASE FailureReason(e.decisions[a]) # {}
        <5>1. PICK r \in RefusedBy(e) : r.task = e.task /\ r.ask = a
          BY <3>1, <4>2, RefusedByShape
        <5>2. QED
          BY <1>2, <3>1, <5>1 DEF Accounted
      <4>3. CASE FailureReason(e.decisions[a]) = {}
        <5>1. e.decisions[a].choice = "defer" /\ asked'[t][a].decider = e.origin
          BY <4>1, <4>3, OwnerByDefer
        <5>2. a \in DOMAIN e.decisions /\ m.author = e.origin /\ e = m.env /\ m.env.kind = "response"
          BY <3>1 DEF Counted, Genuine, e
        <5>3. [by |-> m.author, task |-> e.task, ask |-> a, decision |-> e.decisions[a]] \in said
          BY <5>2 DEF DecisionsSaid
        <5>4. Deferred(t, a)'
          BY <3>1, <5>1, <5>2, <5>3 DEF Deferred
        <5>5. QED
          BY <5>4 DEF Accounted
      <4>4. QED
        BY <4>2, <4>3
    <3>2. CASE ~(t = e.task /\ a \in Counted(e))
      <4>1. asked'[t][a] = asked[t][a]
        BY <1>5, <3>2
      <4>2. Accounted(t, a)
        BY <2>1, <4>1 DEF FailInv, NoneForgotten
      <4>3. QED
        BY <1>2, <4>1, <4>2 DEF Accounted, Deferred
    <3>3. QED
      BY <3>1, <3>2
  <2>2. QED
    BY <2>1 DEF NoneForgotten
<1>12. QED
  BY <1>9, <1>10, <1>11 DEF FailInv, ToldAll

(* The first notice of a task finds no ask of it.                           *)
LEMMA NoticeFails ==
  ASSUME TypeInv, FailInv, NEW e \in Notices, FeedNotice(e), UNCHANGED <<said, told>>,
         phase' # "idle"
  PROVE  FailInv'
<1>1. CASE Known(e.task)
  <2>1. UNCHANGED <<asked, failures, told>>
    BY <1>1 DEF FeedNotice
  <2>2. QED
    BY <2>1, FailuresStay
<1>2. CASE ~Known(e.task)
  <2>1. /\ UNCHANGED failures /\ e.task \in Tasks /\ asked \in [Tasks -> [Asks -> AskStates]]
        /\ asked' = [asked EXCEPT ![e.task] =
             [a \in Asks |-> IF a \in e.asks THEN AskState("pending", Nobody) ELSE Absent]]
    BY <1>2 DEF FeedNotice, Notices, TypeInv, LedgerType
  <2>2. \A a \in Asks : asked[e.task][a] = Absent /\ asked'[e.task][a].state # "owner"
    BY <1>2, <2>1 DEF TypeInv, KnownInv, AskState, Absent
  <2>3. \A t \in Tasks, a \in Asks : t # e.task => asked'[t][a] = asked[t][a]
    BY <2>1
  <2>4. \A p : AskState("owner", p) # Absent
    BY DEF AskState, Absent
  <2>5. RefusalsStand'
    BY <2>1, <2>2, <2>3, <2>4 DEF FailInv, RefusalsStand
  <2>6. ToldOnce'
    BY <2>1 DEF FailInv, ToldOnce
  <2>7. NoneForgotten'
    BY <2>1, <2>2, <2>3 DEF FailInv, NoneForgotten, Accounted, Deferred
  <2>8. QED
    BY <2>5, <2>6, <2>7 DEF FailInv, ToldAll
<1>3. QED
  BY <1>1, <1>2

(* A forged response is recorded as such, and settles nothing.              *)
LEMMA ForgedFails ==
  ASSUME TypeInv, FailInv, NEW m \in Messages, FeedForged(m), UNCHANGED <<said, told>>,
         phase' # "idle"
  PROVE  FailInv'
<1>1. \A r \in failures' : r \in failures \/ r.reason = "parse_failed"
  BY DEF FeedForged
<1>2. failures \subseteq failures' /\ UNCHANGED asked
  BY DEF FeedForged
<1>3. RefusalsStand'
  BY <1>1, <1>2 DEF FailInv, RefusalsStand, Refusals
<1>4. ToldOnce'
  BY <1>1 DEF FailInv, ToldOnce
<1>5. NoneForgotten'
  BY <1>2 DEF FailInv, NoneForgotten, Accounted, Deferred
<1>6. QED
  BY <1>3, <1>4, <1>5 DEF FailInv, ToldAll

(* Whatever is fed, the failures stay true.                                 *)
LEMMA FeedFails ==
  ASSUME TypeInv, FailInv, TruthInv, FeedNext
  PROVE  FailInv'
<1> DEFINE m == Head(posted)
<1>1. /\ m \in Messages /\ Feed(m) /\ UNCHANGED <<said, told, phase>> /\ phase = "feed"
      /\ m = posted[1] /\ 1 \in 1..Len(posted)
  BY DEF FeedNext, TypeInv, RoundType, roomVars
<1>2. Genuine(m) => DecisionsSaid(m) \subseteq said
  BY <1>1 DEF TruthInv, PostedSaid
<1>3. m.env \in Envelopes
  BY <1>1 DEF Messages
<1> HIDE DEF m
<1>4. CASE UNCHANGED <<asked, failures>>
  BY <1>1, <1>4, FailuresStay
<1>5. CASE IsOwner(m) \/ m.env.kind = "prose"
  BY <1>1, <1>4, <1>5 DEF Feed, ledgerVars
<1>6. CASE ~(IsOwner(m) \/ m.env.kind = "prose") /\ m.env.origin # m.author
  BY <1>1, <1>6, ForgedFails DEF Feed
<1>7. CASE ~(IsOwner(m) \/ m.env.kind = "prose") /\ m.env.origin = m.author
  <2>1. CASE m.env \in Notices
    BY <1>1, <1>7, <2>1, NoticeFails DEF Feed, Notices
  <2>2. CASE m.env \in Responses
    BY <1>1, <1>2, <1>7, <2>2, ResponseFails DEF Feed, Responses, Genuine
  <2>3. CASE m.env \in Plans
    BY <1>1, <1>4, <1>7, <2>3 DEF Feed, FeedPlan, Plans
  <2>4. QED
    BY <1>3, <1>7, <2>1, <2>2, <2>3 DEF Envelopes, Prose
<1>8. QED
  BY <1>5, <1>6, <1>7

(* A plan, or a post that fails.                                            *)
LEMMA PlansFail ==
  ASSUME TypeInv, FailInv, SweepPlans
  PROVE  FailInv'
<1>1. CASE SweepFails
  <2>1. UNCHANGED <<asked, failures, told, said>> /\ returned' = FALSE
    BY <1>1 DEF SweepFails, ledgerVars, roomVars
  <2>2. QED
    BY <2>1, FailuresStay
<1>2. ASSUME NEW t \in PlanWorthy, PostPlan(t)
      PROVE  FailInv'
  <2>1. UNCHANGED <<asked, failures, told, said, phase, returned>>
    BY <1>2 DEF PostPlan, MarkPlanned
  <2>2. QED
    BY <2>1, FailuresStay
<1>3. QED
  BY <1>1, <1>2 DEF SweepPlans

(* That a task stalls is told, and is no refusal.                           *)
LEMMA StallsFail ==
  ASSUME TypeInv, FailInv, SweepStalls
  PROVE  FailInv'
<1>1. CASE SweepFails
  <2>1. UNCHANGED <<asked, failures, told, said>> /\ returned' = FALSE
    BY <1>1 DEF SweepFails, ledgerVars, roomVars
  <2>2. QED
    BY <2>1, FailuresStay
<1>2. ASSUME NEW t \in Unresolved \ stalled, PostStall(t)
      PROVE  FailInv'
  <2>1. UNCHANGED <<asked, failures, said>> /\ phase' = "stall" /\ told' = told \cup {Stalled(t)}
    BY <1>2 DEF PostStall, MarkStalled, SweepStalls
  <2>2. Stalled(t).reason = "stalled"
    BY DEF Stalled
  <2>3. Stalled(t) \notin failures
    BY <2>2 DEF TypeInv, LedgerType, FailureRecords
  <2>4. RefusalsStand'
    BY <2>1, <2>2 DEF FailInv, RefusalsStand, Refusals
  <2>5. ToldOnce'
    BY <2>1, <2>3 DEF FailInv, ToldOnce
  <2>6. NoneForgotten'
    BY <2>1 DEF FailInv, NoneForgotten, Accounted, Deferred
  <2>7. QED
    BY <2>1, <2>4, <2>5, <2>6 DEF FailInv, ToldAll
<1>3. QED
  BY <1>1, <1>2 DEF SweepStalls

(* At the end of the sweep the hook hears of all of them.                   *)
LEMMA DrainFails ==
  ASSUME FailInv, EndOfSweep
  PROVE  FailInv'
<1>1. told' = told \cup failures /\ failures' = {} /\ UNCHANGED <<asked, said>>
  BY DEF EndOfSweep, DrainFailures, ConsumeFailures
<1>2. QED
  BY <1>1 DEF FailInv, RefusalsStand, ToldOnce, NoneForgotten, Accounted, Deferred, ToldAll

(* A restart forgets asks and failures together.                            *)
LEMMA RestartFails ==
  ASSUME Restart
  PROVE  FailInv'
<1>1. failures' = {} /\ told' = {} /\ returned' = FALSE /\ asked' = NoAsks
  BY DEF Restart, LedgerLost, Abort
<1>2. \A t \in Tasks, a \in Asks : NoAsks[t][a].state = "absent"
  BY DEF NoAsks, Absent, AskState
<1>3. QED
  BY <1>1, <1>2 DEF FailInv, RefusalsStand, ToldOnce, NoneForgotten, ToldAll

(* Every step keeps the failures true.                                      *)
LEMMA FailNext == ASSUME TypeInv, TruthInv, FailInv, [Next]_vars PROVE FailInv'
<1>1. CASE RoundOnly
  BY <1>1, RoundFails
<1>2. CASE FeedNext \/ SweepPlans \/ SweepStalls
  BY <1>2, FeedFails, PlansFail, StallsFail
<1>3. CASE AllFed \/ AllPlanned
  <2>1. UNCHANGED <<asked, failures, told, said>> /\ phase' # "idle"
    BY <1>3 DEF AllFed, AllPlanned, ledgerVars, roomVars
  <2>2. QED
    BY <2>1, FailuresStay
<1>4. CASE EndOfSweep \/ Restart
  BY <1>4, DrainFails, RestartFails
<1>5. QED
  BY <1>1, <1>2, <1>3, <1>4 DEF Next, SweepStep, RoundOnly, Call

(* At first there are none.                                                 *)
LEMMA FailInit == ASSUME Init PROVE FailInv
  BY DEF Init, LedgerInit, NoAsks, Absent, AskState, FailInv, RefusalsStand, ToldOnce, NoneForgotten,
         ToldAll

(* What the invariant says of a room at rest.                               *)
LEMMA FailEnough ==
  ASSUME FailInv
  PROVE  FailuresAreTrue
<1>1. \A r \in (failures \cup told) :
        r.reason \in {"declined", "reflex_refused"} => asked[r.task][r.ask] = AskState("owner", r.by)
  BY DEF FailInv, RefusalsStand, Refusals
<1>2. \A r \in failures \cap told : r.reason = "parse_failed"
  BY DEF FailInv, ToldOnce
<1>3. ASSUME phase = "idle" /\ returned, NEW t \in Tasks, NEW a \in Asks, asked[t][a].state = "owner"
      PROVE  Deferred(t, a) \/ \E r \in told : r.task = t /\ r.ask = a
  <2>1. failures = {}
    BY <1>3 DEF FailInv, ToldAll
  <2>2. QED
    BY <1>3, <2>1 DEF FailInv, NoneForgotten, Accounted
<1>4. QED
  BY <1>1, <1>2, <1>3 DEF FailuresAreTrue

(* The failure hook is told of an ask once, by whom it was refused, and     *)
(* only of one that stays the owner's for good; after a call that returned  *)
(* there is none it has not heard of (negotiation.py: feed,                 *)
(* consume_failures), in every room, with forged and repeated frames and    *)
(* every fault.                                                             *)
THEOREM FailuresAlwaysTrue == Spec => []FailuresAreTrue
<1>1. TypeInv /\ TruthInv /\ [Next]_vars => TruthInv'
  BY TruthNext
<1>2. TypeInv /\ TruthInv /\ FailInv /\ [Next]_vars => FailInv'
  BY FailNext
<1>3. Init => TruthInv /\ FailInv
  BY TruthInit, FailInit
<1>4. FailInv => FailuresAreTrue
  BY FailEnough
<1>5. QED
  BY <1>1, <1>2, <1>3, <1>4, TypeInvAlways, PTL DEF Spec
=============================================================================
