-------------------------- MODULE NegotiationProofs --------------------------
(***************************************************************************)
(* The negotiated room, for every registry, bank of rules, set of notices  *)
(* and combination of faults: its types, the cap on a round, and that each *)
(* step of a call leaves less of it to do.                                 *)
(***************************************************************************)
EXTENDS Negotiation, SequenceTheorems, FiniteSetTheorems, TLAPS

(* What the room is at besides the types: a notice is being answered, by a  *)
(* rule that exists, or nothing is.                                         *)
AtWork == phase \in {"rules", "mark", "answer"}
JobInv ==
  IF AtWork THEN job.task \in Tasks /\ job.replyTo \in Handles /\ queue # <<>> ELSE job = NoJob
MarkInv == phase = "mark" => job.rule \in DOMAIN Bank[Persona]

RoundType ==
  /\ phase \in {"idle", "hear", "rules", "mark", "answer", "feed", "plan", "stall"}
  /\ ear \in 1..Len(Registry) /\ turns \in Nat
  /\ queue \in Seq(Messages) /\ posted \in Seq(Messages)
  /\ job \in Jobs
LogType ==
  /\ marked \in [Handles -> SUBSET (Tasks \X Keys)]
  /\ kept \in [Handles -> SUBSET (Tasks \X Keys)]
  /\ applied \in [Handles -> Nat] /\ ran \in [Reflexes -> Nat]
MemoryType == noted \subseteq Handles \X Tasks
RoomType ==
  /\ plans \subseteq Plans
  /\ said \subseteq [by : Handles, task : Tasks, ask : Asks, decision : Decisions]
  /\ plansPosted \in [Tasks -> Nat] /\ stallsPosted \in [Tasks -> Nat]
  /\ told \subseteq FailureRecords \cup {Stalled(t) : t \in Tasks}
KnownInv == \A t \in Tasks : ~Known(t) => \A a \in Asks : asked[t][a] = Absent
BoundType == returned \in BOOLEAN /\ calls \in Nat /\ restarts \in Nat

TypeInv ==
  /\ RoundType /\ LedgerType /\ LogType /\ MemoryType /\ RoomType /\ BoundType
  /\ JobInv /\ MarkInv /\ KnownInv

-----------------------------------------------------------------------------
(* The ledger *)

LEMMA OutcomeType ==
  ASSUME NEW d \in Decisions, NEW p \in Handles
  PROVE  Outcome(d, p) \in AskStates
  BY DEF Outcome, Decisions, AskStates, AskState, TerminalStates, OpenStates

LEMMA FeedForgedType ==
  ASSUME LedgerType, NEW m \in Messages, ~IsOwner(m), m.env # Prose, FeedForged(m)
  PROVE  LedgerType'
<1>1. m.env \in Envelopes /\ m.env.task \in Tasks /\ m.author \in Handles
  BY DEF Messages, Envelopes, Notices, Responses, Plans, IsOwner
<1>2. [task |-> m.env.task, by |-> m.author, ask |-> Nobody, reason |-> "parse_failed"]
        \in FailureRecords
  BY <1>1 DEF FailureRecords
<1>3. QED
  BY <1>2 DEF FeedForged, LedgerType

LEMMA FeedNoticeType ==
  ASSUME LedgerType, NEW e \in Notices, FeedNotice(e)
  PROVE  LedgerType'
<1>1. e.task \in Tasks /\ e.origin \in Handles
  BY DEF Notices
<1>2. AskState("pending", Nobody) \in AskStates /\ Absent \in AskStates
  BY DEF AskStates, AskState, Absent, OpenStates
<1>3. [a \in Asks |-> IF a \in e.asks THEN AskState("pending", Nobody) ELSE Absent]
        \in [Asks -> AskStates]
  BY <1>2
<1>4. QED
  BY <1>1, <1>3 DEF FeedNotice, LedgerType

LEMMA FeedPlanType ==
  ASSUME LedgerType, NEW e \in Plans, FeedPlan(e)
  PROVE  LedgerType'
  BY DEF Plans, FeedPlan, LedgerType

LEMMA DecisionsType ==
  ASSUME NEW e \in Responses
  PROVE  /\ DOMAIN e.decisions \subseteq Asks /\ DOMAIN e.decisions # {}
         /\ \A a \in DOMAIN e.decisions : e.decisions[a] \in Decisions
<1>1. PICK S \in SomeAsks : e.decisions \in [S -> Decisions]
  BY DEF Responses
<1>2. QED
  BY <1>1 DEF SomeAsks

LEMMA FailureReasonType ==
  ASSUME NEW d \in Decisions
  PROVE  FailureReason(d) \subseteq {"declined", "reflex_refused", "parse_failed"}
  BY DEF FailureReason

LEMMA FeedResponseType ==
  ASSUME LedgerType, NEW e \in Responses, FeedResponse(e)
  PROVE  LedgerType'
<1>1. e.task \in Tasks /\ e.origin \in Handles
  BY DEF Responses
<1>2. \A a \in Counted(e) : a \in Asks /\ e.decisions[a] \in Decisions
  BY DecisionsType DEF Counted
<1>3. \A a \in Counted(e) : Outcome(e.decisions[a], e.origin) \in AskStates
  BY <1>1, <1>2, OutcomeType
<1>4. [a \in Asks |-> IF a \in Counted(e) THEN Outcome(e.decisions[a], e.origin)
                                           ELSE asked[e.task][a]] \in [Asks -> AskStates]
  BY <1>1, <1>3 DEF LedgerType
<1>5. asked' \in [Tasks -> [Asks -> AskStates]]
  BY <1>1, <1>4 DEF FeedResponse, LedgerType
<1>6. \A a \in Counted(e) :
        [task : {e.task}, by : {e.origin}, ask : {a}, reason : FailureReason(e.decisions[a])]
          \subseteq FailureRecords
  BY <1>1, <1>2, FailureReasonType DEF FailureRecords
<1>7. failures' \subseteq FailureRecords
  BY <1>6 DEF FeedResponse, LedgerType
<1>8. QED
  BY <1>5, <1>7 DEF FeedResponse, LedgerType

LEMMA FeedType ==
  ASSUME LedgerType, NEW m \in Messages, Feed(m)
  PROVE  LedgerType'
<1>1. m.env \in Envelopes
  BY DEF Messages
<1>2. CASE IsOwner(m) \/ m.env.kind = "prose"
  BY <1>2 DEF Feed, LedgerType, ledgerVars
<1>3. CASE ~IsOwner(m) /\ m.env.kind # "prose" /\ m.env.origin # m.author
  BY <1>3, FeedForgedType DEF Feed, Prose
<1>4. CASE ~IsOwner(m) /\ m.env.kind # "prose" /\ m.env.origin = m.author
  <2>1. CASE m.env \in Notices
    BY <1>4, <2>1, FeedNoticeType DEF Feed, Notices
  <2>2. CASE m.env \in Plans
    BY <1>4, <2>2, FeedPlanType DEF Feed, Plans
  <2>3. CASE m.env \in Responses
    BY <1>4, <2>3, FeedResponseType DEF Feed, Responses
  <2>4. QED
    BY <1>1, <1>4, <2>1, <2>2, <2>3 DEF Envelopes, Prose
<1>5. QED
  BY <1>2, <1>3, <1>4

LEMMA FeedKeepsKnown ==
  ASSUME LedgerType, KnownInv, NEW m \in Messages, Feed(m)
  PROVE  KnownInv'
<1>1. CASE UNCHANGED <<initiator, asked>>
  BY <1>1 DEF KnownInv, Known
<1>2. ASSUME NEW e \in Notices, FeedNotice(e)
      PROVE  KnownInv'
  <2>1. e.task \in Tasks /\ e.origin \in Handles
    BY DEF Notices
  <2>2. QED
    BY <1>2, <2>1, NobodyAssumption DEF FeedNotice, KnownInv, Known, LedgerType
<1>3. ASSUME NEW e \in Responses, FeedResponse(e)
      PROVE  KnownInv'
  <2>1. e.task \in Tasks
    BY DEF Responses
  <2>2. ~Known(e.task) => \A a \in Asks : a \notin Counted(e)
    BY <2>1 DEF KnownInv, Counted, Counts, Absent, AskState
  <2>3. QED
    BY <1>3, <2>1, <2>2 DEF FeedResponse, KnownInv, Known, LedgerType
<1>4. m.env \in Envelopes
  BY DEF Messages
<1>5. CASE IsOwner(m) \/ m.env.kind = "prose" \/ m.env.origin # m.author
  BY <1>1, <1>5 DEF Feed, FeedForged, ledgerVars
<1>6. CASE ~(IsOwner(m) \/ m.env.kind = "prose" \/ m.env.origin # m.author)
  <2>1. CASE m.env \in Notices
    BY <1>2, <1>6, <2>1 DEF Feed, Notices
  <2>2. CASE m.env \in Responses
    BY <1>3, <1>6, <2>2 DEF Feed, Responses
  <2>3. CASE m.env \in Plans
    BY <1>1, <1>6, <2>3 DEF Feed, FeedPlan, Plans
  <2>4. QED
    BY <1>4, <1>6, <2>1, <2>2, <2>3 DEF Envelopes, Prose
<1>7. QED
  BY <1>5, <1>6

-----------------------------------------------------------------------------
(* The round *)

LEMMA PersonaType ==
  ASSUME RoundType
  PROVE  Persona \in Handles
  BY RegistryAssumption DEF RoundType, Persona

LEMMA HeadType ==
  ASSUME RoundType, queue # <<>>
  PROVE  Head1 \in Messages /\ Tail(queue) \in Seq(Messages)
  BY DEF RoundType, Head1

LEMMA NextEarType ==
  ASSUME RoundType, NEW q \in Seq(Messages), q # <<>>, NextEar(q)
  PROVE  ear' \in 1..Len(Registry) /\ queue' \in Seq(Messages)
<1>1. Len(Registry) \in Nat /\ Len(Registry) >= 1
  BY RegistryAssumption, EmptySeq
<1>2. ear \in 1..Len(Registry)
  BY DEF RoundType
<1>3. CASE ear < Len(Registry)
  BY <1>1, <1>2, <1>3 DEF NextEar
<1>4. CASE ~(ear < Len(Registry))
  <2>1. Tail(q) \in Seq(Messages)
    BY HeadTailProperties
  <2>2. QED
    BY <1>1, <1>4, <2>1 DEF NextEar
<1>5. QED
  BY <1>3, <1>4

LEMMA NoJobType == NoJob \in Jobs
<1>1. NoFirings \in [{} -> Decisions]
  BY DEF NoFirings
<1>2. NoFirings \in UNION {[S -> Decisions] : S \in SUBSET Asks}
  BY <1>1
<1>3. QED
  BY <1>2 DEF NoJob, Jobs

LEMMA QuietType ==
  ASSUME TypeInv, queue # <<>>, StaysQuiet, MemoryType'
  PROVE  TypeInv'
<1>1. RoundType'
  BY NextEarType, NoJobType DEF TypeInv, RoundType, StaysQuiet
<1>2. JobInv' /\ MarkInv'
  BY DEF JobInv, MarkInv, AtWork, StaysQuiet
<1>3. LedgerType' /\ LogType' /\ RoomType' /\ BoundType' /\ KnownInv'
  BY DEF TypeInv, StaysQuiet, LedgerType, LogType, RoomType, BoundType, KnownInv, Known,
         ledgerVars, logVars, roomVars, boundVars
<1>4. QED
  BY <1>1, <1>2, <1>3 DEF TypeInv

LEMMA AbortType ==
  ASSUME TypeInv, Abort
  PROVE  RoundType' /\ JobInv' /\ MarkInv' /\ returned' \in BOOLEAN
<1>1. 1 \in 1..Len(Registry)
  BY RegistryAssumption, EmptySeq
<1>2. RoundType'
  BY <1>1, NoJobType DEF Abort, RoundType
<1>3. JobInv' /\ MarkInv' /\ returned' \in BOOLEAN
  BY DEF Abort, JobInv, MarkInv, AtWork
<1>4. QED
  BY <1>2, <1>3

(* An abort that changes no more than what was noted.                       *)
LEMMA AbortKeeps ==
  ASSUME TypeInv, Abort, noted' \subseteq Handles \X Tasks,
         UNCHANGED <<ledgerVars, logVars, roomVars, boundVars>>
  PROVE  TypeInv'
<1>1. LedgerType' /\ LogType' /\ RoomType' /\ KnownInv' /\ calls' \in Nat /\ restarts' \in Nat
  BY DEF TypeInv, LedgerType, LogType, RoomType, BoundType, KnownInv, Known,
         ledgerVars, logVars, roomVars, boundVars
<1>2. QED
  BY <1>1, AbortType DEF TypeInv, MemoryType, BoundType

LEMMA MentionsType ==
  ASSUME NEW e \in Envelopes
  PROVE  Mentions(e) \ {Nobody} \subseteq Handles
<1>1. CASE e \in Notices
  BY <1>1 DEF Mentions, Notices
<1>2. CASE e \in Responses
  <2>1. \A a \in DOMAIN e.decisions : e.decisions[a].redirect \in Handles \cup {Nobody}
    BY <1>2, DecisionsType DEF Decisions
  <2>2. QED
    BY <1>2, <2>1 DEF Mentions, Responses
<1>3. CASE e \in Plans
  <2>1. PICK S \in SomeAsks : e.steps \in [S -> Steps]
    BY <1>3 DEF Plans
  <2>2. \A a \in DOMAIN e.steps : e.steps[a].owner \in Handles \cup {Nobody}
    BY <2>1 DEF Steps
  <2>3. QED
    BY <1>3, <2>2 DEF Mentions, Plans
<1>4. CASE e = Prose
  BY <1>4 DEF Mentions, Prose
<1>5. QED
  BY <1>1, <1>2, <1>3, <1>4 DEF Envelopes

LEMMA MessageType ==
  ASSUME NEW p \in Handles, NEW e \in Envelopes
  PROVE  Message(p, e) \in Messages
  BY MentionsType DEF Message, Messages

LEMMA ChatType ==
  ASSUME NEW p \in Handles \cup {Nobody}, NEW S \in SUBSET Handles
  PROVE  Chat(p, S) \in Messages
  BY DEF Chat, Messages, Envelopes

LEMMA BeginType ==
  ASSUME TypeInv, NEW m \in Messages, Begin(m)
  PROVE  TypeInv'
<1>1. 1 \in 1..Len(Registry) /\ <<m>> \in Seq(Messages)
  BY RegistryAssumption, EmptySeq
<1>2. RoundType'
  BY <1>1 DEF Begin, TypeInv, RoundType
<1>3. job = NoJob
  BY DEF Begin, TypeInv, JobInv, AtWork
<1>4. JobInv' /\ MarkInv'
  BY <1>3 DEF Begin, JobInv, MarkInv, AtWork
<1>5. LedgerType' /\ LogType' /\ MemoryType' /\ RoomType' /\ BoundType' /\ KnownInv'
  BY DEF Begin, TypeInv, LedgerType, LogType, MemoryType, RoomType, BoundType, KnownInv, Known,
         ledgerVars, logVars, roomVars
<1>6. QED
  BY <1>2, <1>4, <1>5 DEF TypeInv

LEMMA DecisionsSaidType ==
  ASSUME NEW m \in Messages, m.author \in Handles
  PROVE  DecisionsSaid(m) \subseteq [by : Handles, task : Tasks, ask : Asks, decision : Decisions]
<1>1. CASE m.env \in Responses
  <2>1. m.env.task \in Tasks
    BY <1>1 DEF Responses
  <2>2. QED
    BY <1>1, <2>1, DecisionsType DEF DecisionsSaid
<1>2. CASE m.env \notin Responses
  <2>1. m.env.kind # "response"
    BY <1>2 DEF Messages, Envelopes, Notices, Plans, Prose
  <2>2. QED
    BY <2>1 DEF DecisionsSaid
<1>3. QED
  BY <1>1, <1>2

(* A reply, with whatever else its author writes down.                      *)
LEMMA ReplyType ==
  ASSUME TypeInv, queue # <<>>, NEW m \in Messages, m.author \in Handles, PostReply(m),
         MemoryType', UNCHANGED <<ledgerVars, logVars, boundVars>>
  PROVE  TypeInv'
<1>1. queue \in Seq(Messages) /\ posted \in Seq(Messages) /\ turns \in Nat
  BY DEF TypeInv, RoundType
<1>2. Append(queue, m) \in Seq(Messages) /\ Append(posted, m) \in Seq(Messages)
  BY <1>1, AppendProperties
<1>3. Append(queue, m) # <<>>
  BY <1>1, AppendProperties
<1>4. ear' \in 1..Len(Registry) /\ queue' \in Seq(Messages)
  BY <1>2, <1>3, NextEarType DEF TypeInv, PostReply
<1>5. RoundType'
  BY <1>1, <1>2, <1>4, NoJobType DEF RoundType, PostReply
<1>6. JobInv' /\ MarkInv'
  BY DEF PostReply, JobInv, MarkInv, AtWork
<1>7. RoomType' /\ BoundType'
  BY DecisionsSaidType DEF PostReply, TypeInv, RoomType, BoundType, boundVars
<1>8. LedgerType' /\ LogType' /\ KnownInv'
  BY DEF TypeInv, LedgerType, LogType, KnownInv, Known, ledgerVars, logVars
<1>9. QED
  BY <1>5, <1>6, <1>7, <1>8 DEF TypeInv

LEMMA OverhearType == ASSUME TypeInv, Overhear PROVE TypeInv'
<1>1. MemoryType'
  BY DEF Overhear, TypeInv, MemoryType
<1>2. QED
  BY <1>1, QuietType DEF Overhear, Hearing

LEMMA IgnoreType == ASSUME TypeInv, Ignore PROVE TypeInv'
<1>1. MemoryType'
  BY DEF Ignore, TypeInv, MemoryType
<1>2. QED
  BY <1>1, QuietType DEF Ignore, Hearing

LEMMA ConverseType == ASSUME TypeInv, Converse PROVE TypeInv'
<1>1. MemoryType' /\ queue # <<>>
  BY DEF Converse, Hearing, TypeInv, MemoryType
<1>2. CASE StaysQuiet
  BY <1>1, <1>2, QuietType
<1>3. ASSUME NEW S \in {{}} \cup {{p} : p \in Handles},
             PostReply(Chat(Persona, S)), UNCHANGED <<ledgerVars, logVars, boundVars>>
      PROVE  TypeInv'
  <2>1. Persona \in Handles
    BY PersonaType DEF TypeInv
  <2>2. UNCHANGED logVars
    BY <1>3
  <2>3. Chat(Persona, S) \in Messages /\ Chat(Persona, S).author \in Handles
    BY <2>1, ChatType DEF Chat
  <2>4. QED
    BY <1>1, <1>3, <2>3, ReplyType
<1>4. QED
  BY <1>2, <1>3 DEF Converse

LEMMA NoteType ==
  ASSUME TypeInv, NEW t \in Tasks, Note(t)
  PROVE  MemoryType'
  BY PersonaType DEF TypeInv, MemoryType, Note

LEMMA RecordQuietlyType == ASSUME TypeInv, RecordQuietly PROVE TypeInv'
<1>1. queue # <<>> /\ Head1 \in Messages
  BY HeadType DEF RecordQuietly, Hearing, TypeInv
<1>2. Head1.env.task \in Tasks
  BY <1>1 DEF RecordQuietly, TakesNote, Messages, Envelopes, Notices, Responses, Plans, Prose
<1>3. CASE StaysQuiet /\ Note(Head1.env.task)
  BY <1>1, <1>2, <1>3, NoteType, QuietType
<1>4. CASE Abort /\ UNCHANGED <<noted, ledgerVars, logVars, roomVars, boundVars>>
  BY <1>4, AbortKeeps DEF TypeInv, MemoryType
<1>5. QED
  BY <1>3, <1>4 DEF RecordQuietly

LEMMA EndOfRoundType == ASSUME TypeInv, EndOfRound PROVE TypeInv'
<1>1. RoundType' /\ JobInv' /\ MarkInv'
  BY DEF EndOfRound, TypeInv, RoundType, JobInv, MarkInv, AtWork, roundVars
<1>2. LedgerType' /\ LogType' /\ MemoryType' /\ RoomType' /\ BoundType' /\ KnownInv'
  BY DEF EndOfRound, TypeInv, LedgerType, LogType, MemoryType, RoomType, BoundType, KnownInv, Known,
         ledgerVars, logVars, roomVars, boundVars
<1>3. QED
  BY <1>1, <1>2 DEF TypeInv

LEMMA JobForType ==
  ASSUME NEW m \in Messages, NEW p \in Handles, IsNoticeFor(m, p) \/ IsRedirectTo(m, p)
  PROVE  JobFor(m, p) \in Jobs /\ JobFor(m, p).task \in Tasks /\ JobFor(m, p).replyTo \in Handles
<1>1. NoFirings \in UNION {[S -> Decisions] : S \in SUBSET Asks}
  BY NoJobType DEF NoJob, Jobs
<1>2. CASE m.env \in Notices
  BY <1>1, <1>2 DEF JobFor, Jobs, Notices
<1>3. CASE m.env \in Responses
  <2>1. MyAsks(m.env, p) \subseteq Asks
    BY <1>3, DecisionsType DEF MyAsks
  <2>2. QED
    BY <1>1, <1>3, <2>1 DEF JobFor, Jobs, Responses
<1>4. QED
  BY <1>2, <1>3 DEF IsNoticeFor, IsRedirectTo, Messages, Envelopes, Plans, Prose

LEMMA TakeType == ASSUME TypeInv, Take PROVE TypeInv'
<1>1. Head1 \in Messages /\ Persona \in Handles
  BY HeadType, PersonaType DEF Take, Hearing, TypeInv
<1>2. job' \in Jobs /\ job'.task \in Tasks /\ job'.replyTo \in Handles
  BY <1>1, JobForType DEF Take
<1>3. RoundType' /\ JobInv' /\ MarkInv'
  BY <1>2 DEF Take, Hearing, TypeInv, RoundType, JobInv, MarkInv, AtWork, roundVars
<1>4. LedgerType' /\ LogType' /\ MemoryType' /\ RoomType' /\ BoundType' /\ KnownInv'
  BY DEF Take, TypeInv, LedgerType, LogType, MemoryType, RoomType, BoundType, KnownInv, Known,
         ledgerVars, logVars, roomVars, boundVars
<1>5. QED
  BY <1>3, <1>4 DEF TypeInv

-----------------------------------------------------------------------------
(* The reflexes *)

LEMMA RuleType ==
  ASSUME TypeInv, job.rule \in DOMAIN Bank[Persona]
  PROVE  Rule.key \in Keys /\ Rule.ask \in Asks
<1>1. Bank[Persona] \in Seq(Rules)
  BY PersonaType, ReflexAssumption DEF TypeInv
<1>2. Rule \in Rules
  BY <1>1, ElementOfSeq DEF Rule
<1>3. QED
  BY <1>2 DEF Rules

LEMMA TryingType ==
  ASSUME TypeInv, Trying
  PROVE  job.rule \in DOMAIN Bank[Persona]
<1>1. Bank[Persona] \in Seq(Rules)
  BY PersonaType, ReflexAssumption DEF TypeInv
<1>2. job.rule \in Nat \ {0}
  BY DEF TypeInv, RoundType, Jobs
<1>3. QED
  BY <1>1, <1>2 DEF Trying

LEMMA MisreadType ==
  ASSUME TypeInv, job.rule \in DOMAIN Bank[Persona], NEW read
  PROVE  Misread(read) \in SUBSET Keys /\ job.misread \in SUBSET Keys
  BY RuleType DEF Misread, TypeInv, RoundType, Jobs

LEMMA CoverType ==
  ASSUME TypeInv, AtWork, job.rule \in DOMAIN Bank[Persona], NEW ok \in BOOLEAN,
         NEW u \in SUBSET Keys, Cover(ok, u), UNCHANGED roundVars
  PROVE  RoundType' /\ JobInv' /\ MarkInv'
<1>1. Firing(ok) \in Decisions
  BY RuleType, NobodyAssumption DEF Firing, Decisions
<1>2. PICK S \in SUBSET Asks : job.fired \in [S -> Decisions]
  BY DEF TypeInv, RoundType, Jobs
<1>3. job'.fired \in [S \cup {Rule.ask} -> Decisions]
  BY <1>1, <1>2 DEF Cover, Covered, TypeInv, RoundType, Jobs
<1>4. S \cup {Rule.ask} \in SUBSET Asks
  BY <1>2, RuleType
<1>5. job'.fired \in UNION {[T -> Decisions] : T \in SUBSET Asks}
  BY <1>3, <1>4
<1>6. job' \in Jobs /\ job'.task = job.task /\ job'.replyTo = job.replyTo
  <2>1. job \in Jobs
    BY DEF TypeInv, RoundType
  <2>2. job' = [task |-> job.task, asks |-> job.asks, replyTo |-> job.replyTo,
                sourced |-> job.sourced, rule |-> job.rule + 1, fired |-> job'.fired,
                misread |-> u]
    BY <2>1 DEF Cover, Jobs
  <2>3. job.rule + 1 \in Nat \ {0}
    BY <2>1 DEF Jobs
  <2>4. job.task \in Tasks \cup {Nobody} /\ job.asks \in SUBSET Asks
        /\ job.replyTo \in Handles \cup {Nobody} /\ job.sourced \in BOOLEAN
    BY <2>1 DEF Jobs
  <2>5. QED
    BY <1>5, <2>2, <2>3, <2>4 DEF Jobs
<1>7. QED
  BY <1>6 DEF Cover, TypeInv, RoundType, JobInv, MarkInv, AtWork, roundVars

LEMMA FiringRestType ==
  ASSUME TypeInv, UNCHANGED firingRest, returned' \in BOOLEAN
  PROVE  LedgerType' /\ MemoryType' /\ RoomType' /\ BoundType' /\ KnownInv'
  BY DEF firingRest, TypeInv, LedgerType, MemoryType, RoomType, BoundType, KnownInv, Known,
         ledgerVars, roomVars, boundVars

LEMMA SkipRuleType ==
  ASSUME TypeInv, AtWork, NEW u \in SUBSET Keys, SkipRule(u), UNCHANGED roundVars
  PROVE  RoundType' /\ JobInv' /\ MarkInv'
<1>1. job \in Jobs
  BY DEF TypeInv, RoundType
<1>2. job' = [task |-> job.task, asks |-> job.asks, replyTo |-> job.replyTo,
              sourced |-> job.sourced, rule |-> job.rule + 1, fired |-> job.fired,
              misread |-> u]
  BY <1>1 DEF SkipRule, Jobs
<1>3. job.rule + 1 \in Nat \ {0}
  BY <1>1 DEF Jobs
<1>4. job' \in Jobs /\ job'.task = job.task /\ job'.replyTo = job.replyTo
  BY <1>1, <1>2, <1>3 DEF Jobs
<1>5. QED
  BY <1>4 DEF SkipRule, TypeInv, RoundType, JobInv, MarkInv, AtWork, roundVars

LEMMA PassOverType == ASSUME TypeInv, PassOver PROVE TypeInv'
<1>1. AtWork /\ UNCHANGED roundVars /\ \E u \in SUBSET Keys : SkipRule(u)
  BY TryingType, MisreadType DEF PassOver, Trying, AtWork, firingRest
<1>2. LogType' /\ returned' \in BOOLEAN
  BY DEF PassOver, TypeInv, LogType, BoundType, logVars
<1>3. QED
  BY <1>1, <1>2, SkipRuleType, FiringRestType DEF PassOver, TypeInv

LEMMA ReportSeenType == ASSUME TypeInv, ReportSeen PROVE TypeInv'
<1>1. /\ AtWork /\ Cover(TRUE, job.misread) /\ UNCHANGED roundVars
      /\ job.rule \in DOMAIN Bank[Persona] /\ job.misread \in SUBSET Keys
  BY TryingType, MisreadType DEF ReportSeen, Trying, AtWork, firingRest
<1>2. LogType' /\ returned' \in BOOLEAN
  BY DEF ReportSeen, TypeInv, LogType, BoundType, logVars
<1>3. QED
  BY <1>1, <1>2, CoverType, FiringRestType DEF ReportSeen, TypeInv

LEMMA RunReflexType == ASSUME TypeInv, RunReflex PROVE TypeInv'
<1>1. AtWork /\ UNCHANGED roundVars /\ job.rule \in DOMAIN Bank[Persona] /\ returned' \in BOOLEAN
  BY TryingType DEF RunReflex, Trying, AtWork, firingRest, TypeInv, BoundType
<1>2. LogType'
  <2>1. <<Persona, job.task, Rule.key>> \in Reflexes
    BY <1>1, PersonaType, RuleType DEF TypeInv, JobInv, Reflexes
  <2>2. ran \in [Reflexes -> Nat]
    BY DEF TypeInv, LogType
  <2>3. ran[<<Persona, job.task, Rule.key>>] + 1 \in Nat
    BY <2>1, <2>2
  <2>4. CASE UNCHANGED ran
    BY <2>2, <2>4 DEF RunReflex, TypeInv, LogType
  <2>5. CASE ran' = [ran EXCEPT ![<<Persona, job.task, Rule.key>>] = @ + 1]
    <3>1. ran' \in [Reflexes -> Nat]
      BY <2>2, <2>3, <2>5
    <3>2. QED
      BY <3>1 DEF RunReflex, TypeInv, LogType
  <2>6. QED
    BY <2>4, <2>5 DEF RunReflex
<1>3. ASSUME NEW u \in SUBSET Keys, phase' = "mark", job' = [job EXCEPT !.misread = u]
      PROVE  TypeInv'
  <2>1. job \in Jobs
    BY DEF TypeInv, RoundType
  <2>2. job' \in Jobs /\ job'.task = job.task /\ job'.replyTo = job.replyTo /\ job'.rule = job.rule
    BY <1>3, <2>1 DEF Jobs
  <2>3. RoundType' /\ JobInv' /\ MarkInv'
    BY <1>1, <1>3, <2>2 DEF TypeInv, RoundType, JobInv, MarkInv, AtWork, roundVars, Persona
  <2>4. QED
    BY <1>1, <1>2, <2>3, FiringRestType DEF RunReflex, TypeInv
<1>4. ASSUME NEW u \in SUBSET Keys, Cover(FALSE, u)
      PROVE  TypeInv'
  BY <1>1, <1>2, <1>4, CoverType, FiringRestType DEF RunReflex, TypeInv
<1>5. QED
  BY <1>1, <1>3, <1>4, MisreadType DEF RunReflex

LEMMA MarkReflexType == ASSUME TypeInv, MarkReflex PROVE TypeInv'
<1>1. AtWork /\ job.rule \in DOMAIN Bank[Persona] /\ Persona \in Handles
  BY PersonaType DEF MarkReflex, AtWork, TypeInv, MarkInv
<1>2. Pair \in Tasks \X Keys
  BY <1>1, RuleType DEF Pair, TypeInv, JobInv
<1>3. LogType'
  <2>1. marked' \in [Handles -> SUBSET (Tasks \X Keys)]
    BY <1>1, <1>2 DEF MarkReflex, TypeInv, LogType
  <2>2. kept \in [Handles -> SUBSET (Tasks \X Keys)] /\ applied \in [Handles -> Nat]
        /\ ran' \in [Reflexes -> Nat]
    BY DEF MarkReflex, TypeInv, LogType
  <2>3. CASE UNCHANGED <<kept, applied>>
    BY <2>1, <2>2, <2>3 DEF LogType
  <2>4. CASE /\ kept' = [kept EXCEPT ![Persona] = @ \cup {Pair}]
             /\ applied' = [applied EXCEPT ![Persona] = @ + 1]
    <3>1. kept' \in [Handles -> SUBSET (Tasks \X Keys)]
      BY <1>1, <1>2, <2>2, <2>4
    <3>2. applied' \in [Handles -> Nat]
      BY <1>1, <2>2, <2>4
    <3>3. QED
      BY <2>1, <2>2, <3>1, <3>2 DEF LogType
  <2>5. QED
    BY <2>3, <2>4 DEF MarkReflex
<1>4. LedgerType' /\ RoomType' /\ KnownInv' /\ calls' \in Nat /\ restarts' \in Nat
  BY DEF MarkReflex, TypeInv, LedgerType, RoomType, BoundType, KnownInv, Known,
         ledgerVars, roomVars, boundVars
<1>5. CASE Cover(TRUE, job.misread) /\ UNCHANGED <<roundVars, returned>>
  <2>1. RoundType' /\ JobInv' /\ MarkInv'
    BY <1>1, <1>5, CoverType, MisreadType
  <2>2. MemoryType' /\ returned' \in BOOLEAN
    BY <1>5 DEF MarkReflex, TypeInv, MemoryType, BoundType
  <2>3. QED
    BY <1>3, <1>4, <2>1, <2>2 DEF TypeInv, BoundType
<1>6. CASE Abort
  BY <1>3, <1>4, <1>6, AbortType DEF MarkReflex, TypeInv, MemoryType, BoundType
<1>7. QED
  BY <1>5, <1>6 DEF MarkReflex

LEMMA AllRulesTriedType == ASSUME TypeInv, AllRulesTried PROVE TypeInv'
<1>1. RoundType' /\ JobInv' /\ MarkInv'
  BY DEF AllRulesTried, firingRest, TypeInv, RoundType, JobInv, MarkInv, AtWork, roundVars
<1>2. LogType' /\ returned' \in BOOLEAN
  BY DEF AllRulesTried, TypeInv, LogType, BoundType, logVars
<1>3. QED
  BY <1>1, <1>2, FiringRestType DEF AllRulesTried, TypeInv

-----------------------------------------------------------------------------
(* The answer *)

LEMMA ModelDecisionsType ==
  ASSUME NEW p
  PROVE  ModelDecisions(p) \subseteq Decisions
  BY RegistryAssumption, NobodyAssumption DEF ModelDecisions, Decisions

LEMMA ResponseType ==
  ASSUME TypeInv, phase = "answer", Remaining # {} \/ job.fired # NoFirings,
         NEW model \in [Remaining -> ModelDecisions(Persona)]
  PROVE  Response(model) \in Messages
<1>1. PICK S \in SUBSET Asks : job.fired \in [S -> Decisions]
  BY DEF TypeInv, RoundType, Jobs
<1>2. Remaining \subseteq Asks
  BY DEF Remaining, TypeInv, RoundType, Jobs
<1>3. S \cup Remaining # {}
  <2>1. CASE Remaining # {}
    BY <2>1
  <2>2. CASE job.fired # NoFirings
    BY <1>1, <2>2 DEF NoFirings
  <2>3. QED
    BY <2>1, <2>2
<1> DEFINE decided == [a \in DOMAIN job.fired \cup DOMAIN model |->
                         IF a \in DOMAIN job.fired THEN job.fired[a] ELSE model[a]]
<1>4. decided \in [S \cup Remaining -> Decisions]
  BY <1>1, ModelDecisionsType
<1>5. S \cup Remaining \in SomeAsks
  BY <1>2, <1>3 DEF SomeAsks
<1>6. decided \in UNION {[T -> Decisions] : T \in SomeAsks}
  BY <1>4, <1>5
<1>7. Persona \in Handles /\ job.task \in Tasks /\ job.replyTo \in Handles
  BY PersonaType DEF TypeInv, JobInv, AtWork
<1> DEFINE e == [kind |-> "response", task |-> job.task, origin |-> Persona,
                 recipient |-> job.replyTo, decisions |-> decided]
<1>8. e \in Responses
  BY <1>6, <1>7 DEF Responses
<1>9. Message(Persona, e) \in Messages
  BY <1>7, <1>8, MessageType DEF Envelopes
<1>10. QED
  BY <1>9 DEF Response

LEMMA NoteWithoutAsksType == ASSUME TypeInv, NoteWithoutAsks PROVE TypeInv'
<1>1. job.task \in Tasks /\ queue # <<>>
  BY DEF NoteWithoutAsks, Answering, TypeInv, JobInv, AtWork
<1>2. CASE StaysQuiet /\ Note(job.task)
  BY <1>1, <1>2, NoteType, QuietType
<1>3. CASE Abort /\ UNCHANGED <<noted, ledgerVars, logVars, roomVars, boundVars>>
  BY <1>3, AbortKeeps DEF TypeInv, MemoryType
<1>4. QED
  BY <1>2, <1>3 DEF NoteWithoutAsks

LEMMA ModelDownType == ASSUME TypeInv, ModelDown PROVE TypeInv'
  BY AbortKeeps DEF ModelDown, TypeInv, MemoryType

LEMMA AnswerAsksType == ASSUME TypeInv, AnswerAsks PROVE TypeInv'
<1>1. job.task \in Tasks /\ queue # <<>> /\ Persona \in Handles
  BY PersonaType DEF AnswerAsks, Answering, TypeInv, JobInv, AtWork
<1>2. noted \cup {<<Persona, job.task>>} \subseteq Handles \X Tasks
  BY <1>1 DEF TypeInv, MemoryType
<1>3. ASSUME NEW model \in [Remaining -> ModelDecisions(Persona)], PostReply(Response(model)),
             noted' = noted \cup {<<Persona, job.task>>}
      PROVE  TypeInv'
  <2>1. MemoryType'
    BY <1>2, <1>3 DEF TypeInv, MemoryType
  <2>2. Response(model) \in Messages
    BY ResponseType DEF AnswerAsks, Answering
  <2>3. Response(model).author \in Handles
    BY <1>1 DEF Response, Message
  <2>4. UNCHANGED <<ledgerVars, logVars, boundVars>>
    BY DEF AnswerAsks
  <2>5. QED
    BY <1>1, <1>3, <2>1, <2>2, <2>3, <2>4, ReplyType
<1>4. ASSUME Abort, noted' \subseteq Handles \X Tasks, UNCHANGED roomVars
      PROVE  TypeInv'
  BY <1>4, AbortKeeps DEF AnswerAsks
<1>5. CASE Abort /\ UNCHANGED <<noted, roomVars>>
  BY <1>4, <1>5 DEF TypeInv, MemoryType
<1>6. CASE Abort /\ noted' = noted \cup {<<Persona, job.task>>} /\ UNCHANGED roomVars
  BY <1>2, <1>4, <1>6
<1>7. QED
  BY <1>3, <1>5, <1>6 DEF AnswerAsks

-----------------------------------------------------------------------------
(* The sweep *)

LEMMA SweepRestType ==
  ASSUME TypeInv, ~AtWork, phase' \in {"idle", "feed", "plan", "stall"}, posted' \in Seq(Messages),
         UNCHANGED sweepRest, returned' \in BOOLEAN
  PROVE  /\ RoundType' /\ JobInv' /\ MarkInv'
         /\ LogType' /\ MemoryType' /\ BoundType'
<1>1. RoundType' /\ JobInv' /\ MarkInv'
  BY DEF sweepRest, TypeInv, RoundType, JobInv, MarkInv, AtWork
<1>2. LogType' /\ MemoryType' /\ BoundType'
  BY DEF sweepRest, TypeInv, LogType, MemoryType, BoundType, logVars, boundVars
<1>3. QED
  BY <1>1, <1>2

LEMMA LedgerRoomSame ==
  ASSUME TypeInv, UNCHANGED <<ledgerVars, roomVars>>
  PROVE  LedgerType' /\ KnownInv' /\ RoomType'
  BY DEF TypeInv, LedgerType, RoomType, KnownInv, Known, ledgerVars, roomVars

LEMMA PostedSame ==
  ASSUME TypeInv, UNCHANGED posted
  PROVE  posted' \in Seq(Messages)
  BY DEF TypeInv, RoundType

LEMMA FeedNextType == ASSUME TypeInv, FeedNext PROVE TypeInv'
<1>1. Head(posted) \in Messages /\ posted' \in Seq(Messages) /\ ~AtWork /\ returned' \in BOOLEAN
  BY DEF FeedNext, TypeInv, RoundType, AtWork, BoundType
<1>2. LedgerType' /\ KnownInv'
  BY <1>1, FeedType, FeedKeepsKnown DEF FeedNext, TypeInv
<1>3. RoomType'
  BY DEF FeedNext, TypeInv, RoomType, roomVars
<1>4. phase' = "feed" /\ UNCHANGED sweepRest
  BY DEF FeedNext
<1>5. QED
  BY <1>1, <1>2, <1>3, <1>4, SweepRestType DEF TypeInv

LEMMA AllFedType == ASSUME TypeInv, AllFed PROVE TypeInv'
<1>1. ~AtWork /\ phase' = "plan" /\ returned' \in BOOLEAN
  BY DEF AllFed, AtWork, TypeInv, BoundType
<1>2. UNCHANGED posted /\ UNCHANGED sweepRest /\ UNCHANGED <<ledgerVars, roomVars>>
  BY DEF AllFed
<1>3. QED
  BY <1>1, <1>2, PostedSame, LedgerRoomSame, SweepRestType DEF TypeInv

LEMMA AllPlannedType == ASSUME TypeInv, AllPlanned PROVE TypeInv'
<1>1. ~AtWork /\ phase' = "stall" /\ returned' \in BOOLEAN
  BY DEF AllPlanned, AtWork, TypeInv, BoundType
<1>2. UNCHANGED posted /\ UNCHANGED sweepRest /\ UNCHANGED <<ledgerVars, roomVars>>
  BY DEF AllPlanned
<1>3. QED
  BY <1>1, <1>2, PostedSame, LedgerRoomSame, SweepRestType DEF TypeInv

LEMMA SweepFailsType ==
  ASSUME TypeInv, phase \in {"plan", "stall"}, SweepFails, UNCHANGED <<posted, sweepRest>>
  PROVE  TypeInv'
<1>1. ~AtWork /\ phase' = "idle" /\ returned' \in BOOLEAN /\ UNCHANGED <<ledgerVars, roomVars>>
  BY DEF SweepFails, AtWork
<1>2. QED
  BY <1>1, PostedSame, LedgerRoomSame, SweepRestType DEF TypeInv

LEMMA PlanWorthyKnown ==
  ASSUME TypeInv, NEW t \in PlanWorthy
  PROVE  t \in Tasks /\ Known(t) /\ AsksOf(t) # {}
  BY DEF PlanWorthy, TypeInv, KnownInv, Absent, AskState, AsksOf

LEMMA ComposePlanType ==
  ASSUME TypeInv, NEW t \in PlanWorthy
  PROVE  ComposePlan(t) \in Plans
<1>1. t \in Tasks /\ initiator[t] \in Handles /\ AsksOf(t) \in SomeAsks
  BY PlanWorthyKnown DEF Known, TypeInv, LedgerType, SomeAsks, AsksOf
<1>2. \A a \in Asks : asked[t][a] \in AskStates
  BY <1>1 DEF TypeInv, LedgerType
<1>3. \A st \in AskStates : StepFor(st) \in Steps
  BY DEF StepFor, Steps, AskStates
<1>4. [a \in AsksOf(t) |-> StepFor(asked[t][a])] \in [AsksOf(t) -> Steps]
  BY <1>2, <1>3 DEF AsksOf
<1>5. [a \in AsksOf(t) |-> StepFor(asked[t][a])] \in UNION {[S -> Steps] : S \in SomeAsks}
  BY <1>1, <1>4
<1>6. QED
  BY <1>1, <1>5 DEF ComposePlan, Plans

LEMMA SweepPlansType == ASSUME TypeInv, SweepPlans PROVE TypeInv'
<1>1. PICK t \in PlanWorthy : PostPlan(t) \/ SweepFails
  BY DEF SweepPlans
<1>2. CASE SweepFails
  BY <1>2, SweepFailsType DEF SweepPlans
<1>3. CASE PostPlan(t)
  <2>1. t \in Tasks /\ ComposePlan(t) \in Plans
    BY PlanWorthyKnown, ComposePlanType
  <2>2. RoomType'
    BY <1>3, <2>1 DEF PostPlan, TypeInv, RoomType
  <2>3. LedgerType' /\ KnownInv'
    BY <1>3, <2>1 DEF PostPlan, MarkPlanned, TypeInv, LedgerType, KnownInv, Known
  <2>4. ~AtWork /\ phase' = "plan" /\ returned' \in BOOLEAN /\ UNCHANGED posted
        /\ UNCHANGED sweepRest
    BY <1>3 DEF SweepPlans, PostPlan, AtWork, TypeInv, BoundType
  <2>5. QED
    BY <2>2, <2>3, <2>4, PostedSame, SweepRestType DEF TypeInv
<1>4. QED
  BY <1>1, <1>2, <1>3

LEMMA SweepStallsType == ASSUME TypeInv, SweepStalls PROVE TypeInv'
<1>1. PICK t \in Unresolved \ stalled : PostStall(t) \/ SweepFails
  BY DEF SweepStalls
<1>2. CASE SweepFails
  BY <1>2, SweepFailsType DEF SweepStalls
<1>3. CASE PostStall(t)
  <2>1. t \in Tasks
    BY DEF Unresolved
  <2>2. RoomType'
    BY <1>3, <2>1 DEF PostStall, TypeInv, RoomType
  <2>3. LedgerType' /\ KnownInv'
    BY <1>3, <2>1 DEF PostStall, MarkStalled, TypeInv, LedgerType, KnownInv, Known
  <2>4. ~AtWork /\ phase' = "stall" /\ returned' \in BOOLEAN /\ UNCHANGED posted
        /\ UNCHANGED sweepRest
    BY <1>3 DEF SweepStalls, PostStall, AtWork, TypeInv, BoundType
  <2>5. QED
    BY <2>2, <2>3, <2>4, PostedSame, SweepRestType DEF TypeInv
<1>4. QED
  BY <1>1, <1>2, <1>3

LEMMA EndOfSweepType == ASSUME TypeInv, EndOfSweep PROVE TypeInv'
<1>1. RoomType'
  BY DEF EndOfSweep, DrainFailures, TypeInv, RoomType, LedgerType
<1>2. LedgerType' /\ KnownInv'
  BY DEF EndOfSweep, DrainFailures, ConsumeFailures, TypeInv, LedgerType, KnownInv, Known
<1>3. ~AtWork /\ phase' = "idle" /\ returned' \in BOOLEAN /\ UNCHANGED posted /\ UNCHANGED sweepRest
  BY DEF EndOfSweep, AtWork
<1>4. QED
  BY <1>1, <1>2, <1>3, PostedSame, SweepRestType DEF TypeInv

-----------------------------------------------------------------------------
(* What is put to the room, and the process *)

LEMMA CallType ==
  ASSUME TypeInv, PostNotice \/ OwnerSays \/ RedeliverPlan \/ EchoNotice \/ ForgeResponse
  PROVE  \E m \in Messages : Begin(m)
<1>1. Topics \subseteq Notices /\ Notices \subseteq Envelopes /\ Plans \subseteq Envelopes
      /\ plans \subseteq Plans
  BY RoomAssumption DEF Envelopes, TypeInv, RoomType
<1>2. CASE PostNotice
  BY <1>1, <1>2, MessageType DEF PostNotice, Notices
<1>3. CASE OwnerSays
  BY <1>3, ChatType, RoomAssumption DEF OwnerSays
<1>4. CASE RedeliverPlan
  BY <1>1, <1>4, MessageType DEF RedeliverPlan
<1>5. CASE EchoNotice
  BY <1>1, <1>5, MessageType DEF EchoNotice
<1>6. CASE ForgeResponse
  <2> DEFINE yes == [choice |-> "accept", redirect |-> Nobody, key |-> Nobody, applied |-> FALSE]
  <2> DEFINE frame(e, q) == [kind |-> "response", task |-> e.task, origin |-> q,
                             recipient |-> e.origin, decisions |-> [a \in e.asks |-> yes]]
  <2>1. PICK e \in Topics, p \in Handles, q \in Handles :
          e.asks # {} /\ Begin(Message(p, frame(e, q)))
    BY <1>6 DEF ForgeResponse
  <2>2. e.task \in Tasks /\ e.origin \in Handles /\ e.asks \in SomeAsks
    BY <1>1, <2>1 DEF Notices, SomeAsks
  <2>3. yes \in Decisions
    BY DEF Decisions
  <2>4. [a \in e.asks |-> yes] \in UNION {[S -> Decisions] : S \in SomeAsks}
    BY <2>2, <2>3
  <2>5. frame(e, q) \in Envelopes
    BY <2>2, <2>4 DEF Responses, Envelopes
  <2>6. QED
    BY <2>1, <2>5, MessageType
<1>7. QED
  BY <1>2, <1>3, <1>4, <1>5, <1>6

LEMMA LedgerLostType ==
  ASSUME LedgerLost
  PROVE  LedgerType' /\ KnownInv'
<1>1. Absent \in AskStates
  BY DEF Absent, AskState, AskStates
<1>2. NoAsks \in [Tasks -> [Asks -> AskStates]] /\ NoTasks \in [Tasks -> Handles \cup {Nobody}]
  BY <1>1 DEF NoAsks, NoTasks
<1>3. KnownInv'
  BY DEF LedgerLost, KnownInv, Known, NoAsks
<1>4. QED
  BY <1>2, <1>3 DEF LedgerLost, LedgerType

LEMMA RestartType == ASSUME TypeInv, Restart PROVE TypeInv'
<1>1. LogType'
  BY DEF Restart, TypeInv, LogType
<1>2. RoomType'
  BY DEF Restart, TypeInv, RoomType
<1>3. calls' \in Nat /\ restarts' \in Nat /\ noted' \subseteq Handles \X Tasks
  BY DEF Restart, TypeInv, BoundType, MemoryType
<1>4. LedgerType' /\ KnownInv'
  BY LedgerLostType DEF Restart
<1>5. QED
  BY <1>1, <1>2, <1>3, <1>4, AbortType DEF Restart, TypeInv, MemoryType, BoundType

LEMMA InitType == ASSUME Init PROVE TypeInv
<1>1. RoundType
  BY NoJobType, RegistryAssumption, EmptySeq DEF Init, RoundType
<1>2. JobInv /\ MarkInv
  BY DEF Init, JobInv, MarkInv, AtWork
<1>3. LogType /\ MemoryType /\ RoomType /\ BoundType
  BY DEF Init, LogType, MemoryType, RoomType, BoundType
<1>4. Absent \in AskStates
  BY DEF Absent, AskState, AskStates
<1>5. LedgerType /\ KnownInv
  BY <1>4 DEF Init, LedgerInit, LedgerType, KnownInv, Known, NoAsks, NoTasks
<1>6. QED
  BY <1>1, <1>2, <1>3, <1>5 DEF TypeInv

LEMMA StutterType == ASSUME TypeInv, UNCHANGED vars PROVE TypeInv'
<1>1. RoundType' /\ JobInv' /\ MarkInv'
  BY DEF vars, roundVars, TypeInv, RoundType, JobInv, MarkInv, AtWork, Persona
<1>2. LedgerType' /\ LogType' /\ MemoryType' /\ RoomType' /\ BoundType' /\ KnownInv'
  BY DEF vars, ledgerVars, logVars, roomVars, boundVars,
         TypeInv, LedgerType, LogType, MemoryType, RoomType, BoundType, KnownInv, Known
<1>3. QED
  BY <1>1, <1>2 DEF TypeInv

LEMMA NextType == ASSUME TypeInv, Next PROVE TypeInv'
<1>1. CASE PostNotice \/ OwnerSays \/ RedeliverPlan \/ EchoNotice \/ ForgeResponse
  BY <1>1, CallType, BeginType
<1>2. CASE RoundStep
  BY <1>2, OverhearType, EndOfRoundType, ConverseType, RecordQuietlyType, IgnoreType, TakeType,
     PassOverType, ReportSeenType, RunReflexType, MarkReflexType, AllRulesTriedType,
     NoteWithoutAsksType, ModelDownType, AnswerAsksType DEF RoundStep
<1>3. CASE SweepStep
  BY <1>3, FeedNextType, AllFedType, SweepPlansType, AllPlannedType, SweepStallsType,
     EndOfSweepType DEF SweepStep
<1>4. CASE Restart
  BY <1>4, RestartType
<1>5. QED
  BY <1>1, <1>2, <1>3, <1>4 DEF Next

LEMMA TypeInvType == TypeInv => NegotiationTypeOK
  BY DEF TypeInv, RoundType, LogType, MemoryType, RoomType, BoundType, NegotiationTypeOK

(* The strengthened type invariant holds throughout.                        *)
THEOREM TypeInvAlways == Spec => []TypeInv
<1>1. Init => TypeInv
  BY InitType
<1>2. TypeInv /\ [Next]_vars => TypeInv'
  BY NextType, StutterType
<1>3. QED
  BY <1>1, <1>2, PTL DEF Spec

(* Every variable of the room has the values the code gives it, in every    *)
(* room and with every fault.                                               *)
THEOREM NegotiationTypeCorrect == Spec => []NegotiationTypeOK
  BY TypeInvAlways, TypeInvType, PTL

-----------------------------------------------------------------------------
(* The cap, and the end of a call.  In a round nothing was posted but the   *)
(* inbound message and the turns taken; only that message may be an owner's, *)
(* and no persona answers it twice.                                         *)
InRound == phase \in {"hear", "rules", "mark", "answer"}
OwnerFirst(q) == \A i \in 2..Len(q) : ~IsOwner(q[i])
RoundInv ==
  InRound =>
    /\ Len(posted) = 1 + turns /\ turns <= RoundCap
    /\ OwnerFirst(queue)
    /\ queue # <<>> /\ IsOwner(Head1) => turns < ear
    /\ queue = <<>> => ear = 1
TurnInv ==
  AtWork => /\ turns < MaxTurns /\ ~IsOwner(Head1)
            /\ job.rule <= Len(Bank[Persona]) + 1
SweepInv ==
  /\ phase = "feed" => Len(posted) <= 1 + RoundCap
  /\ phase \in {"idle", "plan", "stall"} => posted = <<>>
KnownTasks == {t \in Tasks : Known(t)}
CapInv == RoundInv /\ TurnInv /\ SweepInv /\ IsFiniteSet(KnownTasks)

(* Room sizes.                                                              *)
LEMMA CapType ==
  /\ Len(Registry) \in Nat /\ Len(Registry) >= 1 /\ MaxTurns \in Nat
  /\ RoundCap \in Nat /\ MaxTurns <= RoundCap /\ Len(Registry) <= RoundCap
<1>1. Len(Registry) \in Nat /\ Len(Registry) >= 1
  BY RegistryAssumption, EmptySeq
<1>2. QED
  BY <1>1, RoomAssumption DEF RoundCap

LEMMA ProductStep ==
  ASSUME NEW a \in Int, NEW b \in Int
  PROVE  (a - 1) * b = a * b - b /\ a * b \in Int
OBVIOUS

(* When a persona is done with the head, one hearing less is left.          *)
LEMMA HearsOneLess ==
  ASSUME TypeInv, NEW q \in Seq(Messages), q # <<>>, NextEar(q),
         turns' \in Nat, Len(q) - turns' = Len(queue) - turns
  PROVE  HearingsLeft' = HearingsLeft - 1
<1> DEFINE L == Len(Registry)
           n == Len(queue) + RoundCap - turns
<1>1. ear \in 1..L /\ turns \in Nat /\ Len(queue) \in Nat /\ Len(q) \in Nat
  BY LenProperties DEF TypeInv, RoundType
<1>2. L \in Nat /\ RoundCap \in Nat /\ n \in Int
  BY <1>1, CapType
<1>3. HearingsLeft = n * L + 1 - ear
  BY DEF HearingsLeft
<1>4. HearingsLeft' = (Len(queue') + RoundCap - turns') * L + 1 - ear'
  BY DEF HearingsLeft, RoundCap
<1>5. CASE ear < L
  <2>1. queue' = q /\ ear' = ear + 1
    BY <1>5 DEF NextEar
  <2>2. Len(queue') + RoundCap - turns' = n
    BY <1>1, <1>2, <2>1
  <2>3. n * L \in Int
    BY <1>2
  <2>4. QED
    BY <1>1, <1>3, <1>4, <2>1, <2>2, <2>3
<1>6. CASE ~(ear < L)
  <2>1. queue' = Tail(q) /\ ear' = 1 /\ ear = L
    BY <1>1, <1>2, <1>6 DEF NextEar
  <2>2. Len(queue') = Len(q) - 1
    BY <2>1, HeadTailProperties
  <2>3. Len(queue') + RoundCap - turns' = n - 1
    BY <1>1, <1>2, <2>2
  <2>4. (n - 1) * L = n * L - L /\ n * L \in Int
    BY <1>2, ProductStep
  <2>5. HearingsLeft' = (n - 1) * L
    BY <1>2, <1>4, <2>1, <2>3
  <2>6. HearingsLeft = n * L + 1 - L
    BY <1>3, <2>1
  <2> HIDE DEF n, L
  <2>7. QED
    BY <1>2, <2>4, <2>5, <2>6
<1>7. QED
  BY <1>5, <1>6

(* The next message heard: an owner's only if it was heard already.         *)
LEMMA NextHead ==
  ASSUME TypeInv, NEW q \in Seq(Messages), q # <<>>, NextEar(q), OwnerFirst(q)
  PROVE  /\ OwnerFirst(queue')
         /\ queue' # <<>> /\ IsOwner(Head(queue')) => Head(queue') = Head(q) /\ ear' = ear + 1
         /\ queue' = <<>> => ear' = 1
<1>1. CASE ear < Len(Registry)
  BY <1>1 DEF NextEar
<1>2. CASE ~(ear < Len(Registry))
  <2>1. queue' = Tail(q)
    BY <1>2 DEF NextEar
  <2>2. /\ Tail(q) \in Seq(Messages) /\ Len(Tail(q)) = Len(q) - 1 /\ Len(q) \in Nat
        /\ \A i \in 1..Len(Tail(q)) : Tail(q)[i] = q[i + 1]
    BY HeadTailProperties, LenProperties
  <2>3. \A i \in 1..Len(Tail(q)) : ~IsOwner(Tail(q)[i])
    BY <2>2 DEF OwnerFirst
  <2>4. OwnerFirst(queue')
    BY <2>1, <2>2, <2>3 DEF OwnerFirst
  <2>5. ASSUME queue' # <<>> PROVE ~IsOwner(Head(queue'))
    <3> DEFINE n == Len(Tail(q))
    <3>1. n \in Nat /\ n # 0
      BY <2>1, <2>2, <2>5, EmptySeq, LenProperties
    <3>2. Head(queue') = Tail(q)[1]
      BY <2>1, <2>2, <2>5
    <3> HIDE DEF n
    <3>3. 1 \in 1..n
      BY <3>1
    <3>4. QED
      BY <2>3, <3>2, <3>3 DEF n
  <2>6. ear' = 1
    BY <1>2 DEF NextEar
  <2>7. QED
    BY <2>4, <2>5, <2>6
<1>3. QED
  BY <1>1, <1>2

(* A step within the round that keeps the ledger.                           *)
LEMMA KnownStays ==
  ASSUME CapInv, UNCHANGED ledgerVars
  PROVE  IsFiniteSet(KnownTasks)'
BY DEF CapInv, KnownTasks, Known, ledgerVars

LEMMA QuietCaps ==
  ASSUME TypeInv, CapInv, InRound, queue # <<>>, StaysQuiet
  PROVE  CapInv' /\ phase' = "hear" /\ HearingsLeft' = HearingsLeft - 1
<1>1. queue \in Seq(Messages) /\ turns \in Nat /\ ear \in Nat
  BY DEF TypeInv, RoundType
<1>2. NextEar(queue) /\ turns' = turns /\ posted' = posted /\ phase' = "hear" /\ UNCHANGED ledgerVars
  BY DEF StaysQuiet
<1>3. HearingsLeft' = HearingsLeft - 1
  BY <1>1, <1>2, HearsOneLess
<1>4. OwnerFirst(queue) /\ Len(posted) = 1 + turns /\ turns <= RoundCap
      /\ (IsOwner(Head1) => turns < ear)
  BY DEF CapInv, RoundInv
<1>5. /\ OwnerFirst(queue') /\ (queue' # <<>> /\ IsOwner(Head(queue')) => turns' < ear')
      /\ queue' = <<>> => ear' = 1
  BY <1>1, <1>2, <1>4, NextHead DEF Head1
<1>6. RoundInv'
  BY <1>2, <1>4, <1>5 DEF RoundInv, OwnerFirst, Head1, RoundCap
<1>7. TurnInv' /\ SweepInv'
  BY <1>2 DEF TurnInv, SweepInv, AtWork
<1>8. QED
  BY <1>2, <1>3, <1>6, <1>7, KnownStays DEF CapInv

(* A reply takes a turn that was left, and is no owner's message.           *)
LEMMA ReplyCaps ==
  ASSUME TypeInv, CapInv, InRound, queue # <<>>, turns < MaxTurns \/ IsOwner(Head1),
         NEW m \in Messages, m.author \in Handles, PostReply(m), UNCHANGED ledgerVars
  PROVE  CapInv' /\ phase' = "hear" /\ HearingsLeft' = HearingsLeft - 1
<1>1. /\ queue \in Seq(Messages) /\ posted \in Seq(Messages) /\ turns \in Nat
      /\ ear \in 1..Len(Registry) /\ Len(queue) \in Nat
  BY LenProperties DEF TypeInv, RoundType
<1> DEFINE q == Append(queue, m)
<1>2. NextEar(q) /\ turns' = turns + 1 /\ posted' = Append(posted, m) /\ phase' = "hear"
  BY DEF PostReply
<1>3. /\ q \in Seq(Messages) /\ q # <<>> /\ Len(q) = Len(queue) + 1 /\ Head(q) = Head1
      /\ \A i \in 1..Len(queue) : q[i] = queue[i]
      /\ q[Len(queue) + 1] = m
  BY <1>1, AppendProperties, HeadTailAppend DEF Head1
<1>4. OwnerFirst(queue) /\ Len(posted) = 1 + turns /\ turns <= RoundCap
      /\ (IsOwner(Head1) => turns < ear)
  BY DEF CapInv, RoundInv
<1>5. ~IsOwner(m)
  BY NobodyAssumption DEF IsOwner
<1>6. OwnerFirst(q)
  BY <1>1, <1>3, <1>4, <1>5 DEF OwnerFirst
<1> HIDE DEF q
<1>7. HearingsLeft' = HearingsLeft - 1
  BY <1>1, <1>2, <1>3, HearsOneLess
<1>8. /\ OwnerFirst(queue') /\ (queue' # <<>> /\ IsOwner(Head(queue')) => turns' < ear')
      /\ queue' = <<>> => ear' = 1
  BY <1>1, <1>2, <1>3, <1>4, <1>6, NextHead
<1>9. Len(posted') = 1 + turns' /\ turns' <= RoundCap
  BY <1>1, <1>2, <1>4, AppendProperties, CapType
<1>10. RoundInv'
  BY <1>8, <1>9 DEF RoundInv, OwnerFirst, Head1, RoundCap
<1>11. TurnInv' /\ SweepInv'
  BY <1>2 DEF TurnInv, SweepInv, AtWork
<1>12. QED
  BY <1>2, <1>7, <1>10, <1>11, KnownStays DEF CapInv

LEMMA AbortCaps ==
  ASSUME CapInv, Abort, UNCHANGED ledgerVars
  PROVE  CapInv' /\ phase' = "idle"
<1>1. RoundInv' /\ TurnInv' /\ SweepInv' /\ phase' = "idle"
  BY DEF Abort, RoundInv, TurnInv, SweepInv, InRound, AtWork
<1>2. QED
  BY <1>1, KnownStays DEF CapInv

-----------------------------------------------------------------------------
(* What each step of a call leaves of it.                                   *)
LessLeft == CapInv' /\ (phase' = "idle" \/ Shortens(CallLeft', CallLeft))

LEMMA FirstLess == ASSUME NEW m, NEW n, m[1] < n[1] PROVE Shortens(m, n)
BY DEF Shortens
LEMMA SecondLess == ASSUME NEW m, NEW n, m[1] = n[1], m[2] < n[2] PROVE Shortens(m, n)
BY DEF Shortens
LEMMA ThirdLess == ASSUME NEW m, NEW n, m[1] = n[1], m[2] = n[2], m[3] < n[3] PROVE Shortens(m, n)
BY DEF Shortens

(* What is left is counted in natural numbers.                              *)
LEMMA LeftType ==
  ASSUME TypeInv, CapInv
  PROVE  /\ CallLeft \in Nat \X Nat \X Nat
         /\ InRound => HearingsLeft \in Nat
<1>1. /\ ear \in 1..Len(Registry) /\ turns \in Nat /\ Len(queue) \in Nat /\ Len(posted) \in Nat
      /\ job.rule \in Nat \ {0} /\ phase \in {"idle", "hear", "rules", "mark", "answer", "feed", "plan", "stall"}
  BY LenProperties DEF TypeInv, RoundType, Jobs
<1>2. Len(Bank[Persona]) \in Nat
  BY PersonaType, ReflexAssumption, LenProperties DEF TypeInv
<1>3. ASSUME InRound PROVE HearingsLeft \in Int
  BY <1>1, CapType DEF HearingsLeft
<1>4. ASSUME InRound, Len(queue) + RoundCap - turns >= 1 PROVE HearingsLeft \in Nat
  <2> DEFINE n == Len(queue) + RoundCap - turns
  <2>1. n \in Nat /\ n >= 1 /\ Len(Registry) \in Nat
    BY <1>1, <1>4, CapType
  <2>2. n * Len(Registry) >= Len(Registry)
    BY <2>1
  <2>3. n * Len(Registry) \in Nat
    BY <2>1
  <2>4. HearingsLeft = n * Len(Registry) + 1 - ear
    BY DEF HearingsLeft
  <2> HIDE DEF n
  <2>5. QED
    BY <1>1, <2>1, <2>2, <2>3, <2>4
<1>5. ASSUME InRound PROVE HearingsLeft \in Nat
  <2>1. CASE queue # <<>>
    <3>1. Len(queue) >= 1 /\ turns <= RoundCap
      BY <1>1, <1>5, <2>1, EmptySeq DEF TypeInv, RoundType, CapInv, RoundInv
    <3>2. QED
      BY <1>1, <1>4, <1>5, <3>1, CapType
  <2>2. CASE queue = <<>>
    <3>1. ear = 1 /\ turns <= RoundCap /\ Len(queue) = 0
      BY <1>5, <2>2, EmptySeq DEF CapInv, RoundInv
    <3>2. Len(queue) + RoundCap - turns \in Nat /\ Len(Registry) \in Nat
      BY <1>1, <3>1, CapType
    <3>3. (Len(queue) + RoundCap - turns) * Len(Registry) \in Nat
      BY <3>2
    <3>4. QED
      BY <3>1, <3>3 DEF HearingsLeft
  <2>3. QED
    BY <2>1, <2>2
<1>6. PlanWorthy \subseteq KnownTasks /\ Unresolved \ stalled \subseteq KnownTasks
  BY DEF PlanWorthy, Unresolved, IsOpen, KnownTasks, TypeInv, KnownInv, Absent, AskState, OpenStates
<1>7. Cardinality(PlanWorthy) \in Nat /\ Cardinality(Unresolved \ stalled) \in Nat
  BY <1>6, FS_Subset, FS_CardinalityType DEF CapInv
<1>8. phase = "rules" => RulesLeft \in Nat
  BY <1>1, <1>2 DEF CapInv, TurnInv, AtWork, RulesLeft
<1>9. phase = "mark" => RulesLeft \in Nat
  BY <1>1, <1>2 DEF CapInv, TurnInv, AtWork, RulesLeft
<1>10. ASSUME InRound PROVE CallLeft \in Nat \X Nat \X Nat
  <2>1. HearingsLeft \in Nat
    BY <1>5, <1>10
  <2>2. CASE phase = "hear"
    <3>1. Len(Bank[Persona]) \in Nat
      BY <1>2
    <3>2. CallLeft = <<3, HearingsLeft, 2 * Len(Bank[Persona]) + 4>>
      BY <2>2 DEF CallLeft
    <3>3. QED
      BY <2>1, <3>1, <3>2
  <2>3. CASE phase \in {"rules", "mark", "answer"}
    BY <1>8, <1>9, <2>1, <2>3 DEF CallLeft
  <2>4. QED
    BY <2>2, <2>3, <1>10 DEF InRound
<1>11. ~InRound => CallLeft \in Nat \X Nat \X Nat
  BY <1>1, <1>7 DEF InRound, CallLeft
<1>12. QED
  BY <1>5, <1>10, <1>11

-----------------------------------------------------------------------------
(* The steps of the round.                                                  *)

LEMMA HearsLess ==
  ASSUME TypeInv, CapInv, InRound, CapInv', phase' = "hear", HearingsLeft' = HearingsLeft - 1
  PROVE  LessLeft
<1>1. CallLeft[1] = 3 /\ CallLeft[2] = HearingsLeft
  BY DEF InRound, CallLeft
<1>2. CallLeft'[1] = 3 /\ CallLeft'[2] = HearingsLeft'
  BY DEF CallLeft
<1>3. HearingsLeft \in Nat
  BY LeftType
<1>4. QED
  BY <1>1, <1>2, <1>3, SecondLess DEF LessLeft

LEMMA QuietLess ==
  ASSUME TypeInv, CapInv, InRound, queue # <<>>, StaysQuiet
  PROVE  LessLeft
BY QuietCaps, HearsLess

LEMMA ReplyLess ==
  ASSUME TypeInv, CapInv, InRound, queue # <<>>, turns < MaxTurns \/ IsOwner(Head1),
         NEW m \in Messages, m.author \in Handles, PostReply(m), UNCHANGED ledgerVars
  PROVE  LessLeft
BY ReplyCaps, HearsLess

LEMMA AbortLess ==
  ASSUME CapInv, Abort, UNCHANGED ledgerVars
  PROVE  LessLeft
BY AbortCaps DEF LessLeft

LEMMA OverhearLess == ASSUME TypeInv, CapInv, Overhear PROVE LessLeft
BY QuietLess DEF Overhear, Hearing, InRound

LEMMA IgnoreLess == ASSUME TypeInv, CapInv, Ignore PROVE LessLeft
BY QuietLess DEF Ignore, Hearing, InRound

LEMMA RecordQuietlyLess == ASSUME TypeInv, CapInv, RecordQuietly PROVE LessLeft
<1>1. InRound /\ queue # <<>>
  BY DEF RecordQuietly, Hearing, InRound
<1>2. CASE StaysQuiet
  BY <1>1, <1>2, QuietLess
<1>3. CASE Abort /\ UNCHANGED <<noted, ledgerVars, logVars, roomVars, boundVars>>
  BY <1>3, AbortLess
<1>4. QED
  BY <1>2, <1>3 DEF RecordQuietly

LEMMA ConverseLess == ASSUME TypeInv, CapInv, Converse PROVE LessLeft
<1>1. InRound /\ queue # <<>> /\ (turns < MaxTurns \/ IsOwner(Head1))
  BY DEF Converse, Hearing, InRound, Heard
<1>2. CASE StaysQuiet
  BY <1>1, <1>2, QuietLess
<1>3. ASSUME NEW S \in {{}} \cup {{p} : p \in Handles}, PostReply(Chat(Persona, S)),
             UNCHANGED <<ledgerVars, logVars, boundVars>>
      PROVE  LessLeft
  <2>1. Persona \in Handles
    BY PersonaType DEF TypeInv
  <2>2. Chat(Persona, S) \in Messages /\ Chat(Persona, S).author \in Handles
    BY <2>1, ChatType DEF Chat
  <2>3. QED
    BY <1>1, <1>3, <2>2, ReplyLess
<1>4. QED
  BY <1>2, <1>3 DEF Converse

LEMMA EndOfRoundLess == ASSUME TypeInv, CapInv, EndOfRound PROVE LessLeft
<1>1. phase = "hear" /\ phase' = "feed" /\ posted' = posted /\ UNCHANGED ledgerVars
  BY DEF EndOfRound, roundVars
<1>2. turns \in Nat /\ RoundCap \in Nat
  BY CapType DEF TypeInv, RoundType
<1>3. Len(posted') <= 1 + RoundCap
  BY <1>1, <1>2 DEF CapInv, RoundInv, InRound
<1>4. RoundInv' /\ TurnInv' /\ SweepInv'
  BY <1>1, <1>3 DEF RoundInv, TurnInv, SweepInv, InRound, AtWork, RoundCap
<1>5. CallLeft[1] = 3 /\ CallLeft'[1] = 2
  BY <1>1 DEF CallLeft
<1>6. QED
  BY <1>1, <1>4, <1>5, KnownStays, FirstLess DEF LessLeft, CapInv

(* The notice taken: its answer starts with the first rule.                 *)
LEMMA TakeLess == ASSUME TypeInv, CapInv, Take PROVE LessLeft
<1>1. phase = "hear" /\ phase' = "rules" /\ job'.rule = 1 /\ UNCHANGED roundVars
      /\ UNCHANGED ledgerVars /\ turns < MaxTurns /\ ~IsOwner(Head1)
  BY DEF Take, Hearing, Heard, JobFor
<1>2. Len(Bank[Persona]) \in Nat /\ Persona' = Persona
  BY <1>1, PersonaType, ReflexAssumption, LenProperties DEF TypeInv, Persona, roundVars
<1>3. HearingsLeft' = HearingsLeft
  BY <1>1 DEF HearingsLeft, roundVars, RoundCap
<1>4. RoundInv'
  BY <1>1 DEF CapInv, RoundInv, InRound, OwnerFirst, Head1, RoundCap, roundVars
<1>5. TurnInv' /\ SweepInv'
  BY <1>1, <1>2 DEF TurnInv, SweepInv, AtWork, Head1, roundVars
<1>6. CapInv'
  BY <1>1, <1>4, <1>5, KnownStays DEF CapInv
<1>7. CallLeft = <<3, HearingsLeft, 2 * Len(Bank[Persona]) + 4>>
  BY <1>1 DEF CallLeft
<1>8. CallLeft' = <<3, HearingsLeft, 2 * Len(Bank[Persona]) + 2>>
  BY <1>1, <1>2, <1>3 DEF CallLeft, RulesLeft
<1>9. QED
  BY <1>2, <1>6, <1>7, <1>8, ThirdLess DEF LessLeft

(* Within the answer: a rule is tried, or the model is asked.               *)
LEMMA AtWorkCaps ==
  ASSUME TypeInv, CapInv, AtWork, phase' \in {"rules", "mark", "answer"},
         UNCHANGED <<roundVars, ledgerVars>>, job'.rule <= Len(Bank[Persona]) + 1
  PROVE  CapInv' /\ HearingsLeft' = HearingsLeft /\ Persona' = Persona
<1>1. UNCHANGED roundVars /\ UNCHANGED ledgerVars /\ Persona' = Persona
  BY DEF roundVars, Persona
<1>2. RoundInv'
  BY <1>1 DEF CapInv, RoundInv, InRound, AtWork, OwnerFirst, Head1, RoundCap, roundVars
<1>3. TurnInv' /\ SweepInv'
  BY <1>1 DEF CapInv, TurnInv, SweepInv, AtWork, Head1, roundVars
<1>4. HearingsLeft' = HearingsLeft
  BY <1>1 DEF HearingsLeft, roundVars, RoundCap
<1>5. QED
  BY <1>1, <1>2, <1>3, <1>4, KnownStays DEF CapInv

LEMMA NextRuleLess ==
  ASSUME TypeInv, CapInv, phase \in {"rules", "mark"}, job.rule \in DOMAIN Bank[Persona],
         phase' = "rules", job'.rule = job.rule + 1, UNCHANGED <<roundVars, ledgerVars>>
  PROVE  LessLeft
<1>1. Len(Bank[Persona]) \in Nat /\ job.rule \in 1..Len(Bank[Persona])
  BY PersonaType, ReflexAssumption, LenProperties DEF TypeInv
<1>2. CapInv' /\ HearingsLeft' = HearingsLeft /\ Persona' = Persona
  BY <1>1, AtWorkCaps DEF AtWork
<1>3. RulesLeft \in Nat /\ RulesLeft' = RulesLeft - 1
  BY <1>1, <1>2 DEF RulesLeft
<1>4. CallLeft' = <<3, HearingsLeft, 2 * RulesLeft'  + 2>>
  BY <1>2 DEF CallLeft
<1>5. CASE phase = "rules"
  <2>1. CallLeft = <<3, HearingsLeft, 2 * RulesLeft + 2>>
    BY <1>5 DEF CallLeft
  <2>2. QED
    BY <1>2, <1>3, <1>4, <2>1, ThirdLess DEF LessLeft
<1>6. CASE phase = "mark"
  <2>1. CallLeft = <<3, HearingsLeft, 2 * RulesLeft + 1>>
    BY <1>6 DEF CallLeft
  <2>2. QED
    BY <1>2, <1>3, <1>4, <2>1, ThirdLess DEF LessLeft
<1>7. QED
  BY <1>5, <1>6

LEMMA CoverRule ==
  ASSUME TypeInv, NEW ok \in BOOLEAN, NEW u, Cover(ok, u) \/ SkipRule(u)
  PROVE  phase' = "rules" /\ job'.rule = job.rule + 1
BY DEF Cover, SkipRule, TypeInv, RoundType, Jobs

LEMMA PassOverLess == ASSUME TypeInv, CapInv, PassOver PROVE LessLeft
<1>1. /\ UNCHANGED <<roundVars, ledgerVars>> /\ phase = "rules"
      /\ \E u \in SUBSET Keys : SkipRule(u)
  BY TryingType, MisreadType DEF PassOver, Trying, firingRest
<1>2. QED
  BY <1>1, TryingType, CoverRule, NextRuleLess DEF PassOver

LEMMA ReportSeenLess == ASSUME TypeInv, CapInv, ReportSeen PROVE LessLeft
<1>1. Cover(TRUE, job.misread) /\ UNCHANGED <<roundVars, ledgerVars>> /\ phase = "rules"
  BY DEF ReportSeen, Trying, firingRest
<1>2. QED
  BY <1>1, TryingType, CoverRule, NextRuleLess DEF ReportSeen

LEMMA RunReflexLess == ASSUME TypeInv, CapInv, RunReflex PROVE LessLeft
<1>1. UNCHANGED <<roundVars, ledgerVars>> /\ phase = "rules" /\ job.rule \in DOMAIN Bank[Persona]
  BY TryingType DEF RunReflex, Trying, firingRest
<1>2. ASSUME NEW u, Cover(FALSE, u)
      PROVE  LessLeft
  BY <1>1, <1>2, CoverRule, NextRuleLess
<1>3. ASSUME NEW u, phase' = "mark", job' = [job EXCEPT !.misread = u]
      PROVE  LessLeft
  <2> job'.rule = job.rule
    BY <1>3 DEF TypeInv, RoundType, Jobs
  <2>1. Len(Bank[Persona]) \in Nat /\ job.rule \in 1..Len(Bank[Persona])
    BY <1>1, PersonaType, ReflexAssumption, LenProperties DEF TypeInv
  <2>2. CapInv' /\ HearingsLeft' = HearingsLeft /\ Persona' = Persona
    BY <1>1, <1>3, <2>1, AtWorkCaps DEF AtWork
  <2>3. RulesLeft \in Nat /\ RulesLeft' = RulesLeft
    BY <1>3, <2>1, <2>2 DEF RulesLeft
  <2>4. CallLeft = <<3, HearingsLeft, 2 * RulesLeft + 2>>
    BY <1>1 DEF CallLeft
  <2>5. CallLeft' = <<3, HearingsLeft, 2 * RulesLeft + 1>>
    BY <1>3, <2>2, <2>3 DEF CallLeft
  <2>6. QED
    BY <2>2, <2>3, <2>4, <2>5, ThirdLess DEF LessLeft
<1>4. QED
  BY <1>2, <1>3 DEF RunReflex

LEMMA MarkReflexLess == ASSUME TypeInv, CapInv, MarkReflex PROVE LessLeft
<1>1. phase = "mark" /\ UNCHANGED ledgerVars /\ job.rule \in DOMAIN Bank[Persona]
  BY DEF MarkReflex, TypeInv, MarkInv
<1>2. CASE Cover(TRUE, job.misread) /\ UNCHANGED roundVars
  BY <1>1, <1>2, CoverRule, NextRuleLess
<1>3. CASE Abort
  BY <1>1, <1>3, AbortLess
<1>4. QED
  BY <1>2, <1>3 DEF MarkReflex

LEMMA AllRulesTriedLess == ASSUME TypeInv, CapInv, AllRulesTried PROVE LessLeft
<1>1. phase = "rules" /\ phase' = "answer" /\ job' = job /\ UNCHANGED <<roundVars, ledgerVars>>
  BY DEF AllRulesTried, firingRest
<1>2. Len(Bank[Persona]) \in Nat /\ job.rule \in Nat /\ job.rule <= Len(Bank[Persona]) + 1
  BY <1>1, PersonaType, ReflexAssumption, LenProperties
     DEF TypeInv, RoundType, Jobs, CapInv, TurnInv, AtWork
<1>3. CapInv' /\ HearingsLeft' = HearingsLeft
  BY <1>1, <1>2, AtWorkCaps DEF AtWork
<1>4. CallLeft = <<3, HearingsLeft, 2 * RulesLeft + 2>> /\ RulesLeft \in Nat
  BY <1>1, <1>2 DEF CallLeft, RulesLeft
<1>5. CallLeft' = <<3, HearingsLeft, 0>>
  BY <1>1, <1>3 DEF CallLeft
<1>6. QED
  BY <1>3, <1>4, <1>5, ThirdLess DEF LessLeft

LEMMA NoteWithoutAsksLess == ASSUME TypeInv, CapInv, NoteWithoutAsks PROVE LessLeft
<1>1. InRound /\ queue # <<>>
  BY DEF NoteWithoutAsks, Answering, InRound, TypeInv, JobInv, AtWork
<1>2. CASE StaysQuiet
  BY <1>1, <1>2, QuietLess
<1>3. CASE Abort /\ UNCHANGED <<noted, ledgerVars, logVars, roomVars, boundVars>>
  BY <1>3, AbortLess
<1>4. QED
  BY <1>2, <1>3 DEF NoteWithoutAsks

LEMMA ModelDownLess == ASSUME CapInv, ModelDown PROVE LessLeft
BY AbortLess DEF ModelDown

LEMMA AnswerAsksLess == ASSUME TypeInv, CapInv, AnswerAsks PROVE LessLeft
<1>1. InRound /\ queue # <<>> /\ turns < MaxTurns /\ UNCHANGED ledgerVars
  BY DEF AnswerAsks, Answering, InRound, TypeInv, JobInv, AtWork, CapInv, TurnInv
<1>2. ASSUME NEW model \in [Remaining -> ModelDecisions(Persona)], PostReply(Response(model))
      PROVE  LessLeft
  <2>1. Response(model) \in Messages
    BY ResponseType DEF AnswerAsks, Answering
  <2>2. Response(model).author \in Handles
    BY PersonaType DEF TypeInv, Response, Message
  <2>3. QED
    BY <1>1, <1>2, <2>1, <2>2, ReplyLess
<1>3. CASE Abort
  BY <1>1, <1>3, AbortLess
<1>4. QED
  BY <1>2, <1>3 DEF AnswerAsks

-----------------------------------------------------------------------------
(* The steps of the sweep.                                                  *)

(* A message fed makes one task known at most.                              *)
LEMMA FeedKnows ==
  ASSUME LedgerType, NEW m \in Messages, Feed(m)
  PROVE  KnownTasks' \subseteq KnownTasks \cup {m.env.task}
<1>1. CASE UNCHANGED initiator
  BY <1>1 DEF KnownTasks, Known
<1>2. CASE FeedNotice(m.env)
  BY <1>2 DEF FeedNotice, KnownTasks, Known, LedgerType
<1>3. m.env.kind \in {"notice", "response", "plan", "prose"}
  BY DEF Messages, Envelopes, Notices, Responses, Plans, Prose
<1>4. QED
  BY <1>1, <1>2, <1>3 DEF Feed, FeedForged, FeedResponse, FeedPlan, ledgerVars

LEMMA KnownGrowsByOne ==
  ASSUME NEW S, IsFiniteSet(S), NEW x, NEW T, T \subseteq S \cup {x}
  PROVE  IsFiniteSet(T)
BY FS_AddElement, FS_Subset

LEMMA FeedNextLess == ASSUME TypeInv, CapInv, FeedNext PROVE LessLeft
<1>1. /\ phase = "feed" /\ phase' = "feed" /\ posted # <<>> /\ posted' = Tail(posted)
      /\ posted \in Seq(Messages) /\ Feed(Head(posted)) /\ Head(posted) \in Messages
  BY DEF FeedNext, TypeInv, RoundType
<1>2. Len(posted') = Len(posted) - 1 /\ Len(posted) \in Nat
  BY <1>1, HeadTailProperties, LenProperties
<1>3. KnownTasks' \subseteq KnownTasks \cup {Head(posted).env.task}
  BY <1>1, FeedKnows DEF TypeInv
<1>4. IsFiniteSet(KnownTasks')
  BY <1>3, KnownGrowsByOne DEF CapInv
<1>5. Len(posted') <= 1 + RoundCap
  BY <1>1, <1>2, CapType DEF CapInv, SweepInv
<1>6. RoundInv' /\ TurnInv' /\ SweepInv'
  BY <1>1, <1>5 DEF RoundInv, TurnInv, SweepInv, InRound, AtWork, RoundCap
<1>7. CallLeft = <<2, Len(posted), 0>> /\ CallLeft' = <<2, Len(posted'), 0>>
  BY <1>1 DEF CallLeft
<1>8. QED
  BY <1>2, <1>4, <1>6, <1>7, SecondLess DEF LessLeft, CapInv

(* A part of the sweep, or its end, that keeps who is known.                *)
LEMMA SweepCaps ==
  ASSUME CapInv, phase' \in {"idle", "plan", "stall"}, posted' = <<>>, UNCHANGED initiator
  PROVE  CapInv'
<1>1. RoundInv' /\ TurnInv' /\ SweepInv'
  BY DEF RoundInv, TurnInv, SweepInv, InRound, AtWork
<1>2. KnownTasks' = KnownTasks
  BY DEF KnownTasks, Known
<1>3. QED
  BY <1>1, <1>2 DEF CapInv

LEMMA AllFedLess == ASSUME CapInv, AllFed PROVE LessLeft
<1>1. CapInv'
  BY SweepCaps DEF AllFed, ledgerVars
<1>2. CallLeft[1] = 2 /\ CallLeft'[1] = 1
  BY DEF AllFed, CallLeft
<1>3. QED
  BY <1>1, <1>2, FirstLess DEF LessLeft

LEMMA SweepFailsLess ==
  ASSUME CapInv, SweepFails, posted = <<>>, UNCHANGED posted
  PROVE  LessLeft
BY SweepCaps DEF SweepFails, LessLeft, ledgerVars

LEMMA OneTaskLess ==
  ASSUME NEW T, IsFiniteSet(T), NEW x \in T
  PROVE  Cardinality(T \ {x}) < Cardinality(T)
<1>1. Cardinality(T \ {x}) = Cardinality(T) - 1
  BY FS_RemoveElement
<1>2. Cardinality(T) \in Nat
  BY FS_CardinalityType
<1>3. QED
  BY <1>1, <1>2

LEMMA WorthyAreKnown ==
  ASSUME TypeInv, CapInv
  PROVE  IsFiniteSet(PlanWorthy) /\ IsFiniteSet(Unresolved \ stalled)
<1>1. PlanWorthy \subseteq KnownTasks /\ Unresolved \ stalled \subseteq KnownTasks
  BY DEF PlanWorthy, Unresolved, IsOpen, KnownTasks, TypeInv, KnownInv, Absent, AskState, OpenStates
<1>2. QED
  BY <1>1, FS_Subset DEF CapInv

(* A plan posted is not due again; nor is a call on the owner.              *)
LEMMA SweepPlansLess == ASSUME TypeInv, CapInv, SweepPlans PROVE LessLeft
<1>1. PICK t \in PlanWorthy : PostPlan(t) \/ SweepFails
  BY DEF SweepPlans
<1>2. posted = <<>> /\ posted' = posted /\ phase = "plan"
  BY DEF SweepPlans, CapInv, SweepInv
<1>3. CASE SweepFails
  BY <1>2, <1>3, SweepFailsLess
<1>4. CASE PostPlan(t)
  <2>1. CapInv'
    BY <1>2, <1>4, SweepCaps DEF PostPlan, MarkPlanned
  <2>2. PlanWorthy' = PlanWorthy \ {t}
    BY <1>4 DEF PostPlan, MarkPlanned, PlanWorthy, IsOpen
  <2>3. Cardinality(PlanWorthy \ {t}) < Cardinality(PlanWorthy)
    BY WorthyAreKnown, OneTaskLess
  <2>4. CallLeft = <<1, Cardinality(PlanWorthy), 0>>
        /\ CallLeft' = <<1, Cardinality(PlanWorthy \ {t}), 0>>
    BY <1>2, <1>4, <2>2 DEF PostPlan, CallLeft
  <2>5. QED
    BY <2>1, <2>3, <2>4, SecondLess DEF LessLeft
<1>5. QED
  BY <1>1, <1>3, <1>4

LEMMA AllPlannedLess == ASSUME CapInv, AllPlanned PROVE LessLeft
<1>1. CapInv'
  BY SweepCaps DEF AllPlanned, CapInv, SweepInv, ledgerVars
<1>2. CallLeft[1] = 1 /\ CallLeft'[1] = 0
  BY DEF AllPlanned, CallLeft
<1>3. QED
  BY <1>1, <1>2, FirstLess DEF LessLeft

LEMMA SweepStallsLess == ASSUME TypeInv, CapInv, SweepStalls PROVE LessLeft
<1>1. PICK t \in Unresolved \ stalled : PostStall(t) \/ SweepFails
  BY DEF SweepStalls
<1>2. posted = <<>> /\ posted' = posted /\ phase = "stall"
  BY DEF SweepStalls, CapInv, SweepInv
<1>3. CASE SweepFails
  BY <1>2, <1>3, SweepFailsLess
<1>4. CASE PostStall(t)
  <2>1. CapInv'
    BY <1>2, <1>4, SweepCaps DEF PostStall, MarkStalled
  <2> DEFINE due == Unresolved \ stalled
  <2>2. due' = due \ {t}
    BY <1>4 DEF PostStall, MarkStalled, Unresolved, IsOpen
  <2>3. Cardinality(due \ {t}) < Cardinality(due)
    BY WorthyAreKnown, OneTaskLess
  <2>4. CallLeft = <<0, Cardinality(due), 0>> /\ CallLeft' = <<0, Cardinality(due \ {t}), 0>>
    BY <1>2, <1>4, <2>2 DEF PostStall, CallLeft
  <2>5. QED
    BY <2>1, <2>3, <2>4, SecondLess DEF LessLeft
<1>5. QED
  BY <1>1, <1>3, <1>4

LEMMA EndOfSweepLess == ASSUME CapInv, EndOfSweep PROVE LessLeft
<1>1. phase' = "idle" /\ posted' = <<>> /\ UNCHANGED initiator
  BY DEF EndOfSweep, DrainFailures, ConsumeFailures, CapInv, SweepInv
<1>2. QED
  BY <1>1, SweepCaps DEF LessLeft

-----------------------------------------------------------------------------
(* The calls, and the process.                                              *)

LEMMA BeginCaps ==
  ASSUME TypeInv, CapInv, NEW m \in Messages, Begin(m)
  PROVE  CapInv'
<1>1. /\ phase' = "hear" /\ queue' = <<m>> /\ ear' = 1 /\ turns' = 0 /\ posted' = <<m>>
      /\ UNCHANGED ledgerVars
  BY DEF Begin
<1>2. OwnerFirst(queue') /\ Len(posted') = 1 /\ queue' # <<>>
  BY <1>1 DEF OwnerFirst
<1>3. RoundInv'
  BY <1>1, <1>2, CapType DEF RoundInv, RoundCap
<1>4. TurnInv' /\ SweepInv'
  BY <1>1 DEF TurnInv, SweepInv, AtWork
<1>5. QED
  BY <1>1, <1>3, <1>4, KnownStays DEF CapInv

LEMMA RestartCaps == ASSUME Restart PROVE CapInv' /\ phase' = "idle"
<1>1. phase' = "idle" /\ posted' = <<>>
  BY DEF Restart, Abort
<1>2. KnownTasks' = {}
  BY DEF Restart, LedgerLost, KnownTasks, Known, NoTasks
<1>3. RoundInv' /\ TurnInv' /\ SweepInv'
  BY <1>1 DEF RoundInv, TurnInv, SweepInv, InRound, AtWork
<1>4. QED
  BY <1>1, <1>2, <1>3, FS_EmptySet DEF CapInv

LEMMA InitCaps == ASSUME Init PROVE CapInv
<1>1. RoundInv /\ TurnInv /\ SweepInv
  BY DEF Init, RoundInv, TurnInv, SweepInv, InRound, AtWork
<1>2. KnownTasks = {}
  BY DEF Init, LedgerInit, KnownTasks, Known, NoTasks
<1>3. QED
  BY <1>1, <1>2, FS_EmptySet DEF CapInv

LEMMA WorkLess ==
  ASSUME TypeInv, CapInv, RoundStep \/ SweepStep
  PROVE  LessLeft
<1>1. CASE RoundStep
  BY <1>1, OverhearLess, EndOfRoundLess, ConverseLess, RecordQuietlyLess, IgnoreLess, TakeLess,
     PassOverLess, ReportSeenLess, RunReflexLess, MarkReflexLess, AllRulesTriedLess,
     NoteWithoutAsksLess, ModelDownLess, AnswerAsksLess DEF RoundStep
<1>2. CASE SweepStep
  BY <1>2, FeedNextLess, AllFedLess, SweepPlansLess, AllPlannedLess, SweepStallsLess,
     EndOfSweepLess DEF SweepStep
<1>3. QED
  BY <1>1, <1>2

LEMMA NextCaps == ASSUME TypeInv, CapInv, Next PROVE CapInv'
<1>1. CASE PostNotice \/ OwnerSays \/ RedeliverPlan \/ EchoNotice \/ ForgeResponse
  BY <1>1, CallType, BeginCaps
<1>2. CASE RoundStep \/ SweepStep
  BY <1>2, WorkLess DEF LessLeft
<1>3. CASE Restart
  BY <1>3, RestartCaps
<1>4. QED
  BY <1>1, <1>2, <1>3 DEF Next

LEMMA StutterCaps == ASSUME CapInv, UNCHANGED vars PROVE CapInv'
<1>1. UNCHANGED ledgerVars /\ UNCHANGED roundVars /\ phase' = phase /\ job' = job
  BY DEF vars
<1>2. RoundInv' /\ TurnInv' /\ SweepInv'
  BY <1>1 DEF CapInv, RoundInv, TurnInv, SweepInv, InRound, AtWork, OwnerFirst, Head1, Persona,
              RoundCap, roundVars
<1>3. QED
  BY <1>1, <1>2, KnownStays DEF CapInv

LEMMA CapInvAlways == Spec => [](TypeInv /\ CapInv)
<1>1. Init => TypeInv /\ CapInv
  BY InitType, InitCaps
<1>2. TypeInv /\ CapInv /\ [Next]_vars => TypeInv' /\ CapInv'
  BY NextType, StutterType, NextCaps, StutterCaps
<1>3. QED
  BY <1>1, <1>2, PTL DEF Spec

LEMMA StepShortens ==
  ASSUME TypeInv, CapInv, phase # "idle", Next
  PROVE  phase' = "idle" \/ Shortens(CallLeft', CallLeft)
<1>1. ~(PostNotice \/ OwnerSays \/ RedeliverPlan \/ EchoNotice \/ ForgeResponse)
  BY DEF PostNotice, OwnerSays, RedeliverPlan, EchoNotice, ForgeResponse, Begin
<1>2. CASE RoundStep \/ SweepStep
  BY <1>2, WorkLess DEF LessLeft
<1>3. CASE Restart
  BY <1>3, RestartCaps
<1>4. QED
  BY <1>1, <1>2, <1>3 DEF Next

LEMMA CapInvCaps == ASSUME TypeInv, CapInv PROVE RoundIsCapped
<1>1. turns \in Nat /\ RoundCap \in Nat
  BY CapType DEF TypeInv, RoundType
<1>2. CASE InRound
  BY <1>1, <1>2 DEF CapInv, RoundInv, RoundIsCapped
<1>3. CASE phase = "feed"
  BY <1>3 DEF CapInv, SweepInv, RoundIsCapped
<1>4. CASE phase \in {"idle", "plan", "stall"}
  <2>1. Len(posted) = 0
    BY <1>4, EmptySeq DEF CapInv, SweepInv, TypeInv, RoundType
  <2>2. QED
    BY <1>1, <2>1 DEF RoundIsCapped
<1>5. QED
  BY <1>2, <1>3, <1>4 DEF InRound, TypeInv, RoundType

(* In every room, whatever is redirected, forged or redelivered, a round    *)
(* posts no more than its cap.                                              *)
THEOREM RoundAlwaysCapped == Spec => []RoundIsCapped
BY CapInvAlways, CapInvCaps, PTL

(* The bound on a round's messages is of the model, and stops no reply:     *)
(* whoever may answer has room for it.                                      *)
MayReply == phase = "answer" \/ (Hearing /\ Heard(Head1, Persona))
LEMMA BoundStopsNobody == Spec => [](MayReply => Len(posted) <= PostedBound)
<1>1. ASSUME TypeInv, CapInv, MayReply
      PROVE  Len(posted) <= PostedBound
  <2>1. /\ turns \in Nat /\ ear \in 1..Len(Registry) /\ Len(Registry) \in Nat
        /\ MaxTurns \in Nat
    BY <1>1, CapType DEF TypeInv, RoundType
  <2>2. Len(posted) = 1 + turns /\ (turns < MaxTurns \/ turns < ear)
    BY <1>1 DEF MayReply, Hearing, Heard, TypeInv, JobInv, AtWork, CapInv, RoundInv, TurnInv,
                InRound
  <2>3. QED
    BY <2>1, <2>2 DEF PostedBound
<1>2. QED
  BY <1>1, CapInvAlways, PTL

(* Each step of a call leaves less of it to do, in every room and with      *)
(* every fault: a call takes finitely many steps.                           *)
THEOREM CallsAlwaysShorten == Spec => CallsShorten
<1>1. TypeInv /\ CapInv /\ [Next]_vars =>
        [phase # "idle" =>
           /\ CallLeft \in Nat \X Nat \X Nat
           /\ phase' = "idle" \/ Shortens(CallLeft', CallLeft)]_vars
  BY LeftType, StepShortens
<1>2. QED
  BY <1>1, CapInvAlways, PTL DEF Spec, CallsShorten
==============================================================================
