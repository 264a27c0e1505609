--------------------------- MODULE AgentGateProofs ---------------------------
(***************************************************************************)
(* What the write gate guarantees for every instance of the agent channel: *)
(* the type invariant, the inductive invariant GateInv, from them that     *)
(* nothing is posted without an approval of the very gate it went through, *)
(* and that the channel implements GuardedWrite; that the policies keep to *)
(* their allowlist and cap; that app and client never wait for each other; *)
(* that what a resolution tells of a gate is so; and of the conversational *)
(* operator, which takes the client's part, that its narration is exact.   *)
(***************************************************************************)
EXTENDS AgentChannel, ConversationDrive, SequenceTheorems, FiniteSetTheorems, TLAPS

(* Writing to and reading from a pipe keep its type.                        *)
LEMMA WriteTyped ==
  ASSUME TypeOK, NEW f \in Frames, Write(f)
  PROVE  toClient' \in Seq(Frames)
BY DEF TypeOK, Write

LEMMA ReadTyped ==
  ASSUME TypeOK, NEW m \in Messages, Read(m)
  PROVE  toApp' \in Seq(Messages)
BY HeadTailProperties DEF TypeOK, Read

LEMMA SendTyped ==
  ASSUME TypeOK, NEW m \in Messages, Send(m)
  PROVE  toApp' \in Seq(Messages)
BY DEF TypeOK, Send

(* The frames and messages the two sides write.                             *)
LEMMA Vocabulary ==
  /\ Screen \in Frames
  /\ \A k \in FrameKinds \ GateKinds : Frame(k) \in Frames
  /\ \A k \in GateKinds, t \in Tokens : GateFrame(k, t) \in Frames
  /\ \A k \in MessageKinds : Message(k) \in Messages
  /\ \A t \in Tokens : ApplyMessage(t) \in Messages
<1>1. MaxGates \in Nat /\ 0 \in 0..MaxGates /\ Tokens \subseteq 0..MaxGates
  BY BoundsAssumption DEF Tokens
<1>2. QED
  BY <1>1 DEF Screen, Frame, GateFrame, Message, ApplyMessage, Frames, FrameKinds, GateKinds,
              Messages, MessageKinds

LEMMA InitTyped == Init => TypeOK
<1>1. SUFFICES ASSUME Init PROVE TypeOK
  OBVIOUS
<1>2. 0 \in 0..MaxGates
  BY BoundsAssumption
<1>3. app \in AppStates /\ client \in ClientStates
  BY <1>1, <1>2, Vocabulary DEF Init, AppStates, ClientStates
<1>4. QED
  BY <1>1, <1>3, BoundsAssumption, DeploymentsAssumption DEF Init, TypeOK
(* What each side's own variables look like after a step.                   *)
AppTyped ==
  /\ app \in AppStates
  /\ gateCap \in Seq(Capabilities) /\ Len(gateCap) <= MaxGates
  /\ {draws} \subseteq Nat
  /\ applied \subseteq Tokens /\ declined \subseteq Tokens /\ posted \subseteq Tokens

ClientTyped ==
  /\ client \in ClientStates
  /\ {calls} \subseteq Nat
  /\ resolved \subseteq Tokens \X {"applied", "declined", "resolved"} \X BOOLEAN

GrantsTyped == {budget} \subseteq Nat /\ approved \subseteq Tokens

PipesTyped == toApp \in Seq(Messages) /\ toClient \in Seq(Frames)

ModeTyped == gateMode \in GateModes /\ approver \in Approvers

LEMMA TypeParts == TypeOK <=> ModeTyped /\ AppTyped /\ ClientTyped /\ GrantsTyped /\ PipesTyped
BY DEF TypeOK, ModeTyped, AppTyped, ClientTyped, GrantsTyped, PipesTyped

(* A step that leaves a side alone leaves it typed.                         *)
LEMMA Idle ==
  ASSUME TypeOK
  PROVE  /\ UNCHANGED appVars => AppTyped'
         /\ UNCHANGED clientVars => ClientTyped'
         /\ UNCHANGED grantVars => GrantsTyped'
         /\ UNCHANGED toApp => toApp' \in Seq(Messages)
         /\ UNCHANGED toClient => toClient' \in Seq(Frames)
BY TypeParts DEF AppTyped, ClientTyped, GrantsTyped, PipesTyped, appVars, modeVars, clientVars, grantVars

(* A step of the app that leaves history alone, writing nothing or one      *)
(* frame, keeps every variable typed if it keeps the app's own.             *)
LEMMA QuietTyped ==
  ASSUME TypeOK, app' \in AppStates, draws' \in Nat, toApp' \in Seq(Messages),
         UNCHANGED <<gateCap, applied, declined, posted, clientVars, grantVars>>,
         UNCHANGED toClient \/ \E f \in Frames : Write(f)
  PROVE  TypeOK'
<1>1. toClient' \in Seq(Frames)
  BY WriteTyped DEF TypeOK
<1>2. QED
  BY <1>1 DEF TypeOK, clientVars, modeVars, grantVars

(* The app at work: drawing, asking, reading, leaving.                      *)
LEMMA RunningTyped ==
  ASSUME TypeOK,
         \/ AppDraw \/ ReadKey \/ DryRunGate \/ AskInput \/ AskConfirm
         \/ PostRaises \/ Exit \/ ShellOut
  PROVE  TypeOK'
<1>1. app \in AppStates /\ draws \in Nat /\ draws + 1 \in Nat /\ toApp \in Seq(Messages)
  BY DEF TypeOK
<1>2. Screen \in Frames /\ Frame("input?") \in Frames /\ Frame("confirm?") \in Frames
  BY Vocabulary DEF FrameKinds, GateKinds
<1>3. ASSUME AppDraw PROVE TypeOK'
  <2>1. app' \in AppStates
    BY <1>1, <1>3 DEF AppDraw, AppStates
  <2>2. QED
    BY <1>1, <1>2, <1>3, <2>1, QuietTyped DEF AppDraw
<1>4. ASSUME NEW pc \in {"key", "dryGate"}, ReadAt(pc) PROVE TypeOK'
  <2>1. app' \in AppStates
    BY <1>1, <1>4 DEF ReadAt, AppStates
  <2>2. QED
    BY <1>1, <1>2, <1>4, <2>1, QuietTyped DEF ReadAt
<1>5. ASSUME NEW pc \in {"input", "confirm"}, NEW k \in {"input?", "confirm?"}, AskAt(pc, k)
      PROVE  TypeOK'
  <2>1. app' \in AppStates
    BY <1>1, <1>5 DEF AskAt, AppStates
  <2>2. QED
    BY <1>1, <1>2, <1>5, <2>1, QuietTyped DEF AskAt
<1>6. ASSUME PostRaises PROVE TypeOK'
  <2>1. app' \in AppStates
    BY <1>1, <1>6 DEF PostRaises, AppStates
  <2>2. QED
    BY <1>1, <1>6, <2>1, QuietTyped DEF PostRaises
<1>7. ASSUME Exit PROVE TypeOK'
  <2>1. app' \in AppStates
    BY <1>1, <1>7 DEF Exit, AppStates
  <2>2. QED
    BY <1>1, <1>7, <2>1, QuietTyped DEF Exit
<1>8. ASSUME ShellOut PROVE TypeOK'
  <2>1. app' \in AppStates
    BY <1>1, <1>8 DEF ShellOut, AppStates
  <2>2. QED
    BY <1>1, <1>2, <1>8, <2>1, QuietTyped DEF ShellOut
<1>9. QED
  BY <1>3, <1>4, <1>5, <1>6, <1>7, <1>8 DEF ReadKey, DryRunGate, AskInput, AskConfirm

(* The gate's own steps: a token is minted, decided and written under.      *)
LEMMA OfferTyped ==
  ASSUME TypeOK, NEW c \in Capabilities, OfferGate(c)
  PROVE  TypeOK'
<1> DEFINE t == Len(gateCap) + 1
<1>1. t \in Tokens /\ t \in 0..MaxGates
  BY BoundsAssumption DEF TypeOK, OfferGate, Tokens
<1>2. gateCap' \in Seq(Capabilities) /\ Len(gateCap') <= MaxGates
  BY BoundsAssumption DEF TypeOK, OfferGate
<1>3. GateFrame("gate", t) \in Frames
  BY <1>1, Vocabulary DEF GateKinds
<1>4. app' \in AppStates
  BY <1>1 DEF TypeOK, OfferGate, AppStates
<1>5. toClient' \in Seq(Frames)
  BY <1>3, WriteTyped DEF OfferGate
<1>6. QED
  BY <1>2, <1>4, <1>5 DEF TypeOK, OfferGate, clientVars, modeVars, grantVars

LEMMA PostTyped ==
  ASSUME TypeOK, Post
  PROVE  TypeOK'
<1>1. app.token \in Tokens /\ app' \in AppStates
  BY DEF TypeOK, Post, AppStates
<1>2. QED
  BY <1>1 DEF TypeOK, Post, clientVars, modeVars, grantVars

LEMMA DecisionTyped ==
  ASSUME TypeOK, app.pc \in {"gate", "policy"}, Applies \/ Declines
  PROVE  /\ app' \in AppStates /\ toClient' \in Seq(Frames)
         /\ applied' \subseteq Tokens /\ declined' \subseteq Tokens
         /\ UNCHANGED <<gateCap, draws, posted, clientVars>>
<1>1. app.token \in Tokens
  BY DEF TypeOK, AppStates
<1>2. GateFrame("applied", app.token) \in Frames /\ GateFrame("declined", app.token) \in Frames
  BY <1>1, Vocabulary DEF GateKinds
<1>3. app' \in AppStates
  BY <1>1 DEF TypeOK, Applies, Declines, AppStates
<1>4. toClient' \in Seq(Frames)
  BY <1>2, WriteTyped DEF Applies, Declines, Answered
<1>5. QED
  BY <1>1, <1>3, <1>4 DEF TypeOK, Applies, Declines, Answered

(* Whoever grants the gate at hand spends the policy's budget on a token.   *)
LEMMA GrantTyped ==
  ASSUME TypeOK, NEW t \in Tokens, PolicyGrants(t) \/ PolicyRefuses(t)
  PROVE  budget' \in Nat /\ approved' \subseteq Tokens
BY DEF TypeOK, PolicyGrants, PolicyRefuses, grantVars

LEMMA PolicyTyped ==
  ASSUME TypeOK, PolicyDecides
  PROVE  TypeOK'
<1>1. app.token \in Tokens /\ app.pc \in {"gate", "policy"}
  BY DEF TypeOK, AppStates, PolicyDecides
<1>2. Applies \/ Declines
  BY DEF PolicyDecides
<1>3. budget' \in Nat /\ approved' \subseteq Tokens
  BY <1>1, GrantTyped DEF PolicyDecides
<1>4. QED
  BY <1>1, <1>2, <1>3, DecisionTyped DEF TypeOK, PolicyDecides, clientVars, modeVars

(* The app, reading a message.                                              *)
LEMMA ReadingTyped ==
  ASSUME TypeOK, NEW m \in Messages,
         \/ TakeKey(m) \/ TakeOther(m) \/ TakeDryGate(m) \/ TakeGate(m)
         \/ TakeInput(m) \/ TakeConfirm(m)
  PROVE  TypeOK'
<1>1. toApp' \in Seq(Messages)
  BY ReadTyped DEF TakeKey, TakeOther, TakeDryGate, TakeGate, TakeInput, TakeConfirm
<1>2. Screen \in Frames /\ Frame("error") \in Frames /\ Frame("dryRun") \in Frames
  BY Vocabulary DEF FrameKinds, GateKinds
<1>3. app \in AppStates /\ draws \in Nat
  BY DEF TypeOK
<1>4. ASSUME TakeKey(m) PROVE TypeOK'
  <2>1. app' \in AppStates
    BY <1>3, <1>4 DEF TakeKey, AppStates
  <2>2. QED
    BY <1>1, <1>3, <1>4, <2>1, QuietTyped DEF TakeKey, Unanswered
<1>5. ASSUME TakeOther(m) PROVE TypeOK'
  BY <1>1, <1>2, <1>3, <1>5, QuietTyped DEF TakeOther, Answered
<1>6. ASSUME TakeDryGate(m) PROVE TypeOK'
  <2>1. app' \in AppStates
    BY <1>3, <1>6 DEF TakeDryGate, AppStates
  <2>2. QED
    BY <1>1, <1>2, <1>3, <1>6, <2>1, QuietTyped DEF TakeDryGate, Answered
<1>7. ASSUME TakeGate(m) PROVE TypeOK'
  <2>1. Applies \/ Declines
    BY <1>7 DEF TakeGate
  <2>2. QED
    BY <1>1, <1>7, <2>1, DecisionTyped DEF TypeOK, TakeGate, clientVars, modeVars, grantVars
<1>8. ASSUME TakeInput(m) PROVE TypeOK'
  <2>1. app' \in AppStates
    BY <1>3, <1>8 DEF TakeInput, AppStates
  <2>2. QED
    BY <1>1, <1>2, <1>3, <1>8, <2>1, QuietTyped DEF TakeInput, Answered, Unanswered
<1>9. ASSUME TakeConfirm(m) PROVE TypeOK'
  <2>1. app' \in AppStates
    BY <1>3, <1>9 DEF TakeConfirm, AppStates
  <2>2. QED
    BY <1>1, <1>3, <1>9, <2>1, QuietTyped DEF TakeConfirm, Unanswered
<1>10. QED
  BY <1>4, <1>5, <1>6, <1>7, <1>8, <1>9

(* The client's calls.                                                      *)
LEMMA CallTyped ==
  ASSUME TypeOK, NEW k \in {"key", "snapshot", "input", "confirm"}, Call(k)
  PROVE  TypeOK'
<1>1. toApp' \in Seq(Messages)
  BY SendTyped, Vocabulary DEF Call, MessageKinds
<1>2. client \in ClientStates /\ 0 \in 0..MaxGates
  BY BoundsAssumption DEF TypeOK
<1>3. client' \in ClientStates
  BY <1>2 DEF Call, ClientStates
<1>4. QED
  BY <1>1, <1>3 DEF TypeOK, Call, appVars, modeVars, grantVars

LEMMA ApplyTyped ==
  ASSUME TypeOK, NEW granted \in BOOLEAN, NEW t \in Tokens, ApplyCall(granted, t)
  PROVE  TypeOK'
<1>1. t \in Tokens /\ t \in 0..MaxGates
  BY BoundsAssumption DEF Tokens
<1>2. toApp' \in Seq(Messages)
  BY <1>1, SendTyped, Vocabulary DEF ApplyCall, MessageKinds
<1>3. client' \in ClientStates
  <2>1. client \in ClientStates /\ OnView(t) \in BOOLEAN
    BY DEF TypeOK, OnView
  <2>2. QED
    BY <1>1, <2>1 DEF ApplyCall, ClientStates
<1>4. budget' \in Nat /\ approved' \subseteq Tokens
  <2>1. CASE approver = "policy"
    BY <1>1, <2>1, GrantTyped DEF ApplyCall
  <2>2. CASE approver # "policy" /\ granted
    BY <1>1, <2>2 DEF TypeOK, ApplyCall, Approvers
  <2>3. CASE approver # "policy" /\ ~granted
    BY <2>3 DEF TypeOK, ApplyCall, grantVars
  <2>4. QED
    BY <2>1, <2>2, <2>3
<1>5. QED
  BY <1>2, <1>3, <1>4 DEF TypeOK, ApplyCall, appVars, modeVars

LEMMA ReceiveTyped ==
  ASSUME TypeOK, Receive \/ Drain
  PROVE  TypeOK'
<1>1. Head(toClient) \in Frames /\ Tail(toClient) \in Seq(Frames)
  BY HeadTailProperties DEF TypeOK, Receive, Drain
<1>2. client' \in ClientStates
  <2>1. client \in ClientStates /\ 0 \in 0..MaxGates
    BY BoundsAssumption DEF TypeOK
  <2>a. client.kept \cup Requests(Head(toClient)) \in SUBSET Tokens
    BY <1>1, <2>1 DEF ClientStates, Requests, Frames, GateKinds
  <2>2. CASE Receive
    BY <1>1, <2>1, <2>2, <2>a DEF Receive, ClientStates
  <2>3. CASE Drain
    BY <1>1, <2>1, <2>3, <2>a DEF Drain, ClientStates
  <2>4. QED
    BY <2>2, <2>3
<1>3. resolved' \subseteq Tokens \X {"applied", "declined", "resolved"} \X BOOLEAN
  <2>1. CASE UNCHANGED resolved
    BY <2>1 DEF TypeOK
  <2>2. CASE Receive /\ client.token # 0
    <3>1. client.token \in Tokens /\ client.prompt \in BOOLEAN
      BY <2>2, BoundsAssumption DEF TypeOK, ClientStates, Tokens
    <3>2. Outcome(Head(toClient)) \in {"applied", "declined", "resolved"}
      BY DEF Outcome
    <3>3. QED
      BY <2>2, <3>1, <3>2 DEF TypeOK, Receive
  <2>3. QED
    BY <2>1, <2>2 DEF Receive, Drain
<1>4. QED
  BY <1>1, <1>2, <1>3 DEF TypeOK, Receive, Drain, appVars, modeVars, grantVars

LEMMA LeavingTyped ==
  ASSUME TypeOK, SendBreaks \/ CloseWait \/ Quit \/ Kill \/ Vanish
  PROVE  TypeOK'
<1>1. ASSUME SendBreaks \/ CloseWait \/ Vanish PROVE TypeOK'
  <2>1. client' \in ClientStates
    <3>1. client \in ClientStates /\ 0 \in 0..MaxGates
      BY BoundsAssumption DEF TypeOK
    <3>2. CASE SendBreaks
      BY <3>1, <3>2 DEF SendBreaks, ClientStates
    <3>3. CASE CloseWait
      BY <3>1, <3>3 DEF CloseWait, ClientStates
    <3>4. CASE Vanish
      BY <3>1, <3>4 DEF Vanish, ClientStates
    <3>5. QED
      BY <1>1, <3>2, <3>3, <3>4
  <2>2. QED
    BY <1>1, <2>1 DEF TypeOK, SendBreaks, CloseWait, Vanish, appVars, modeVars, grantVars
<1>2. ASSUME Quit PROVE TypeOK'
  <2>1. client' \in ClientStates
    <3>1. client \in ClientStates
      BY DEF TypeOK
    <3>2. QED
      BY <1>2, <3>1 DEF Quit, ClientStates
  <2>2. toApp' \in Seq(Messages)
    BY <1>2, SendTyped, Vocabulary DEF Quit, MessageKinds
  <2>3. QED
    BY <1>2, <2>1, <2>2 DEF TypeOK, Quit, appVars, modeVars, grantVars
<1>3. ASSUME Kill PROVE TypeOK'
  <2>1. app' \in AppStates
    BY <1>3 DEF TypeOK, Kill, AppStates
  <2>2. QED
    BY <1>3, <2>1 DEF TypeOK, Kill, clientVars, modeVars, grantVars
<1>4. QED
  BY <1>1, <1>2, <1>3

LEMMA NextTyped == TypeOK /\ [Next]_vars => TypeOK'
<1> SUFFICES ASSUME TypeOK, [Next]_vars PROVE TypeOK'
  OBVIOUS
<1>1. CASE AppStep
  BY <1>1, RunningTyped, OfferTyped, PostTyped, PolicyTyped, ReadingTyped DEF AppStep
<1>2. CASE ClientStep
  BY <1>2, CallTyped, ApplyTyped, ReceiveTyped, LeavingTyped
     DEF ClientStep, Press, Snapshot, AnswerInput, AnswerConfirm
<1>3. CASE UNCHANGED vars
  BY <1>3 DEF TypeOK, vars, appVars, modeVars, clientVars, grantVars
<1>4. QED
  BY <1>1, <1>2, <1>3 DEF Next

(* Every variable of the channel keeps its type.                            *)
THEOREM ChannelTypeCorrect == Spec => []TypeOK
BY InitTyped, NextTyped, PTL DEF Spec

(* An apply message in the pipe carries an approved token: preserved when   *)
(* the pipe grows by a message that is one, or shrinks.                     *)
ApplyInv == \A i \in 1..Len(toApp) : toApp[i].kind = "apply" => toApp[i].token \in approved
FrameInv == \A i \in 1..Len(toClient) : toClient[i].kind = "gate" => toClient[i].token \in Offered
ViewInv == /\ client.view.kind = "gate" => client.view.token \in Offered
           /\ client.kept \subseteq Offered

(* What is sent, if it is an apply, was approved.                           *)
LEMMA SendKeeps ==
  ASSUME TypeOK, ApplyInv, approved \subseteq approved',
         NEW m \in Messages, Send(m), m.kind = "apply" => m.token \in approved'
  PROVE  ApplyInv'
<1>1. toApp \in Seq(Messages)
  BY DEF TypeOK
<1>2. CASE toApp' = toApp
  BY <1>2 DEF ApplyInv
<1>3. CASE toApp' = Append(toApp, m)
  BY <1>1, <1>3, AppendProperties DEF ApplyInv
<1>4. QED
  BY <1>2, <1>3 DEF Send

(* What an app reads, if it is an apply, was approved.                      *)
LEMMA ReadKeeps ==
  ASSUME TypeOK, ApplyInv, approved \subseteq approved', NEW m \in Messages, Read(m)
  PROVE  ApplyInv' /\ (m.kind = "apply" => m.token \in approved)
<1>1. toApp \in Seq(Messages)
  BY DEF TypeOK
<1>2. CASE toApp' = toApp
  BY <1>2 DEF Read, ApplyInv, EndOfInput
<1>3. CASE toApp # <<>> /\ m = Head(toApp) /\ toApp' = Tail(toApp)
  <2>1. Head(toApp) = toApp[1] /\ 1 \in 1..Len(toApp)
    BY <1>1, <1>3
  <2>2. ApplyInv'
    BY <1>1, <1>3, HeadTailProperties DEF ApplyInv
  <2>3. QED
    BY <1>3, <2>1, <2>2 DEF ApplyInv
<1>4. QED
  BY <1>2, <1>3 DEF Read, EndOfInput

(* A frame written announces no gate but an offered one.                    *)
LEMMA WriteKeeps ==
  ASSUME TypeOK, FrameInv, Offered \subseteq Offered',
         NEW f \in Frames, Write(f), f.kind = "gate" => f.token \in Offered'
  PROVE  FrameInv'
<1>1. toClient \in Seq(Frames)
  BY DEF TypeOK
<1>2. QED
  BY <1>1, AppendProperties DEF FrameInv, Write

(* What taking a frame makes of the client.                                 *)
LEMMA Taking ==
  ASSUME TypeOK, Receive \/ Drain
  PROVE  /\ client'.pc = "free" /\ client'.view = Head(toClient)
         /\ client'.kept = client.kept \cup Requests(Head(toClient))
<1>1. CASE Receive
  BY <1>1 DEF Receive
<1>2. CASE Drain
  <2> DEFINE f == Head(toClient)
             k == client.kept \cup Requests(Head(toClient))
  <2>1. client \in ClientStates /\ client.pc = "free"
    BY <1>2 DEF TypeOK, Drain
  <2>2. client' = [client EXCEPT !.view = f, !.kept = k]
    BY <1>2 DEF Drain
  <2> HIDE DEF f, k
  <2>3. client'.pc = "free" /\ client'.view = f /\ client'.kept = k
    BY <2>1, <2>2 DEF ClientStates
  <2>4. QED
    BY <2>3 DEF f, k
<1>3. QED
  BY <1>1, <1>2

(* What a client takes from the pipe, it looks at.                          *)
LEMMA TakeKeeps ==
  ASSUME TypeOK, FrameInv, ViewInv, Receive \/ Drain
  PROVE  FrameInv' /\ ViewInv'
<1>1. toClient \in Seq(Frames) /\ toClient # <<>> /\ toClient' = Tail(toClient)
  BY DEF TypeOK, Receive, Drain
<1>2. UNCHANGED gateCap
  BY DEF Receive, Drain, appVars
<1>3. Head(toClient) = toClient[1] /\ 1 \in 1..Len(toClient)
  BY <1>1
<1>4. client'.view = Head(toClient) /\ client'.kept = client.kept \cup Requests(Head(toClient))
  BY Taking
<1>5. FrameInv'
  BY <1>1, <1>2, HeadTailProperties DEF FrameInv, Offered
<1>6. ViewInv'
  BY <1>2, <1>3, <1>4 DEF FrameInv, ViewInv, Offered, Requests
<1>7. QED
  BY <1>5, <1>6

(* A step that decides and posts nothing, and neither enters nor leaves a   *)
(* gate but to end it, keeps the histories in order.                        *)
HistoryInv ==
  /\ approved \cup declined \subseteq Offered
  /\ gateMode = "dryRun" => gateCap = <<>>
  /\ PostedOnlyIfApproved

(* The invariant, part by part.                                             *)
LEMMA GateInvParts == GateInv <=> ApplyInv /\ FrameInv /\ ViewInv /\ AtGateInv /\ HistoryInv
BY DEF GateInv, WireInv, ApplyInv, FrameInv, ViewInv, HistoryInv

(* The same after a step.                                                   *)
LEMMA GateInvAfter ==
  (ApplyInv' /\ FrameInv' /\ ViewInv' /\ AtGateInv' /\ HistoryInv') => GateInv'
BY DEF GateInv, WireInv, ApplyInv, FrameInv, ViewInv, HistoryInv
(* At first there is no gate.                                               *)
LEMMA InitGate == Init => GateInv
BY DEF Init, GateInv, WireInv, AtGateInv, PostedOnlyIfApproved, Offered, Screen, Frame

(* A step that leaves the histories alone, and at no gate.                  *)
Bystander ==
  /\ UNCHANGED <<gateCap, approved, applied, declined, posted, modeVars>>
  /\ app'.pc \notin {"gate", "policy", "post"} \/ UNCHANGED app

(* Such a step keeps both parts, and offers no gate.                        *)
LEMMA BystanderKeeps ==
  ASSUME AtGateInv, HistoryInv, Bystander
  PROVE  AtGateInv' /\ HistoryInv' /\ Offered' = Offered
BY DEF AtGateInv, HistoryInv, Bystander, Offered, PostedOnlyIfApproved, modeVars

(* The app at work, away from any gate.                                     *)
LEMMA RunningGate ==
  ASSUME TypeOK, GateInv,
         \/ AppDraw \/ ReadKey \/ DryRunGate \/ AskInput \/ AskConfirm
         \/ PostRaises \/ Exit \/ ShellOut
  PROVE  GateInv' /\ Bystander
<1>1. Bystander /\ UNCHANGED <<toApp, approved, client>>
  BY DEF TypeOK, AppStates, Bystander, AppDraw, ReadKey, DryRunGate, ReadAt, AskInput, AskConfirm,
         AskAt, PostRaises, Exit, ShellOut, grantVars, clientVars, Running
<1>2. Offered' = Offered /\ AtGateInv' /\ HistoryInv'
  BY <1>1, BystanderKeeps, GateInvParts
<1>3. UNCHANGED toClient \/ \E f \in Frames : Write(f) /\ f.kind # "gate"
  BY Vocabulary
     DEF FrameKinds, GateKinds, Frame, Screen, AppDraw, ReadKey, DryRunGate, ReadAt, AskInput, AskConfirm, AskAt,
         PostRaises, Exit, ShellOut
<1>4. FrameInv'
  <2>1. CASE UNCHANGED toClient
    BY <1>2, <2>1, GateInvParts DEF FrameInv
  <2>2. CASE \E f \in Frames : Write(f) /\ f.kind # "gate"
    BY <1>2, <2>2, WriteKeeps, GateInvParts
  <2>3. QED
    BY <1>3, <2>1, <2>2
<1>5. ApplyInv' /\ ViewInv'
  BY <1>1, <1>2, GateInvParts DEF ApplyInv, ViewInv
<1>6. QED
  BY <1>1, <1>2, <1>4, <1>5, GateInvAfter

(* A new gate: its token has been neither offered nor decided before.       *)
LEMMA OfferGateKeeps ==
  ASSUME TypeOK, GateInv, NEW c \in Capabilities, OfferGate(c)
  PROVE  GateInv' /\ Gate!OfferWrite(Len(gateCap) + 1)
<1> DEFINE t == Len(gateCap) + 1
<1>1. Len(gateCap) \in Nat /\ Len(gateCap') = t
  BY DEF TypeOK, OfferGate
<1>2. t \in Tokens /\ GateFrame("gate", t) \in Frames
  <2>1. t \in Tokens
    BY <1>1, BoundsAssumption DEF OfferGate, Tokens
  <2>2. QED
    BY <2>1, Vocabulary DEF GateKinds
<1>3. Offered' = Offered \cup {t} /\ t \notin Offered
  BY <1>1 DEF Offered
<1>4. UNCHANGED <<toApp, approved, applied, declined, posted, client, gateMode>>
  BY DEF OfferGate, clientVars, modeVars, grantVars
<1>5. app'.token = t /\ app'.pc = (IF gateMode = "handshake" THEN "gate" ELSE "policy")
  BY DEF TypeOK, AppStates, OfferGate
<1>6. FrameInv'
  <2>1. GateFrame("gate", t).token = t
    BY DEF GateFrame
  <2>2. Write(GateFrame("gate", t))
    BY DEF OfferGate
  <2>3. QED
    BY <1>2, <1>3, <2>1, <2>2, WriteKeeps, GateInvParts
<1>7. ApplyInv' /\ ViewInv'
  BY <1>3, <1>4, GateInvParts DEF ApplyInv, ViewInv
<1>8. HistoryInv'
  BY <1>3, <1>4, GateInvParts DEF HistoryInv, PostedOnlyIfApproved, OfferGate
<1>9. AtGateInv'
  <2>1. t \notin applied \cup declined
    BY <1>3, GateInvParts DEF HistoryInv, PostedOnlyIfApproved
  <2>2. /\ app'.pc = "policy" => gateMode = "policy"
        /\ app'.pc = "gate" => gateMode = "handshake"
    BY <1>5 DEF TypeOK, GateModes, OfferGate
  <2>3. QED
    BY <1>3, <1>4, <1>5, <2>1, <2>2 DEF AtGateInv
<1>10. QED
  BY <1>3, <1>4, <1>6, <1>7, <1>8, <1>9, GateInvAfter DEF Gate!OfferWrite

(* The write at hand has not been made before.                              *)
LEMMA PostKeeps ==
  ASSUME TypeOK, GateInv, Post
  PROVE  GateInv' /\ Gate!PostWrite(app.token)
<1>1. app.token \in applied \ posted
  BY DEF GateInv, AtGateInv, Post
<1>2. UNCHANGED <<toApp, toClient, gateCap, approved, applied, declined, client, gateMode>>
  BY DEF Post, clientVars, modeVars, grantVars
<1>3. app'.pc = "run"
  BY DEF TypeOK, AppStates, Post
<1>4. Offered' = Offered
  BY <1>2 DEF Offered
<1>5. gateMode # "dryRun"
  BY <1>1 DEF GateInv, PostedOnlyIfApproved, Offered
<1>6. QED
  BY <1>1, <1>2, <1>3, <1>4, <1>5
     DEF GateInv, WireInv, AtGateInv, PostedOnlyIfApproved, Post, Gate!PostWrite
(* A gate decides, once, and applies only what has been approved by then.   *)
LEMMA DecisionKeeps ==
  ASSUME TypeOK, GateInv, app.pc \in {"gate", "policy"}, Applies \/ Declines,
         approved' \in {approved, approved \cup {app.token}},
         Applies => app.token \in approved', Declines => UNCHANGED approved, ApplyInv'
  PROVE  GateInv' /\ (Gate!ApplyWrite(app.token) \/ Gate!DeclineWrite(app.token))
<1> DEFINE t == app.token
<1>1. t \in Offered \ (applied \cup declined)
  BY DEF GateInv, AtGateInv
<1>2. UNCHANGED <<gateCap, posted, client, gateMode>> /\ Offered' = Offered
  BY DEF Applies, Declines, Answered, clientVars, modeVars, Offered
<1>3. t \in Tokens
  BY DEF TypeOK, AppStates
<1>4. FrameInv' /\ ViewInv'
  <2>1. ASSUME NEW k \in {"applied", "declined"}
        PROVE  GateFrame(k, t) \in Frames /\ GateFrame(k, t).kind # "gate"
    BY <1>3, Vocabulary DEF GateKinds, GateFrame
  <2>2. \E f \in Frames : Write(f) /\ f.kind # "gate"
    BY <2>1 DEF Applies, Declines, Answered
  <2>3. FrameInv'
    BY <1>2, <2>2, WriteKeeps, GateInvParts
  <2>4. QED
    BY <1>2, <2>3, GateInvParts DEF ViewInv
<1>5. gateMode # "dryRun"
  BY <1>1 DEF GateInv, Offered
<1>6. HistoryInv'
  BY <1>1, <1>2, <1>5, GateInvParts DEF HistoryInv, PostedOnlyIfApproved, Applies, Declines
<1>7. AtGateInv'
  <2>1. CASE Applies
    <3>1. app'.pc = "post" /\ app'.token = t
      BY <2>1 DEF TypeOK, AppStates, Applies
    <3>2. t \notin posted
      BY <1>1 DEF GateInv, PostedOnlyIfApproved
    <3>3. QED
      BY <1>2, <2>1, <3>1, <3>2 DEF AtGateInv, Applies
  <2>2. CASE Declines
    <3>1. app'.pc = "run"
      BY <2>2 DEF TypeOK, AppStates, Declines
    <3>2. QED
      BY <3>1 DEF AtGateInv
  <2>3. QED
    BY <2>1, <2>2
<1>8. Gate!ApplyWrite(t) \/ Gate!DeclineWrite(t)
  BY <1>1, <1>2
     DEF Gate!ApplyWrite, Gate!DeclineWrite, Gate!Undecided, Applies, Declines
<1>9. QED
  BY <1>4, <1>6, <1>7, <1>8, GateInvAfter
(* The app, reading a message away from a gate.                             *)
LEMMA ReadingGate ==
  ASSUME TypeOK, GateInv, NEW m \in Messages,
         TakeKey(m) \/ TakeOther(m) \/ TakeDryGate(m) \/ TakeInput(m) \/ TakeConfirm(m)
  PROVE  GateInv' /\ Bystander
<1>1. Read(m) /\ UNCHANGED <<approved, client>>
  BY DEF TakeKey, TakeOther, TakeDryGate, TakeInput, TakeConfirm, Answered, Unanswered,
         clientVars, grantVars
<1>2. Bystander
  BY DEF TypeOK, AppStates, Bystander, TakeKey, TakeOther, TakeDryGate, TakeInput, TakeConfirm,
         Answered, Unanswered, clientVars, modeVars, grantVars
<1>3. Offered' = Offered /\ AtGateInv' /\ HistoryInv'
  BY <1>2, BystanderKeeps, GateInvParts
<1>4. ApplyInv'
  BY <1>1, ReadKeeps, GateInvParts
<1>5. FrameInv'
  <2>1. CASE UNCHANGED toClient
    BY <1>3, <2>1, GateInvParts DEF FrameInv
  <2>2. CASE \E f \in Frames : Write(f) /\ f.kind # "gate"
    BY <1>3, <2>2, WriteKeeps, GateInvParts
  <2>3. \A k \in {"screen", "error", "dryRun"} : Frame(k) \in Frames /\ Frame(k).kind # "gate"
    BY Vocabulary DEF FrameKinds, GateKinds, Frame
  <2>4. QED
    BY <2>1, <2>2, <2>3
       DEF TakeKey, TakeOther, TakeDryGate, TakeInput, TakeConfirm, Answered, Unanswered, Screen
<1>6. ViewInv'
  BY <1>1, <1>3, GateInvParts DEF ViewInv
<1>7. QED
  BY <1>2, <1>3, <1>4, <1>5, <1>6, GateInvAfter

(* authorize_apply: the message that applies is the apply of this gate.     *)
LEMMA TakeGateKeeps ==
  ASSUME TypeOK, GateInv, NEW m \in Messages, TakeGate(m)
  PROVE  GateInv' /\ (Gate!ApplyWrite(app.token) \/ Gate!DeclineWrite(app.token))
<1>1. UNCHANGED approved /\ Read(m)
  BY DEF TakeGate, grantVars
<1>2. ApplyInv' /\ (m.kind = "apply" => m.token \in approved)
  BY <1>1, ReadKeeps, GateInvParts
<1>3. Applies => app.token \in approved
  BY <1>2 DEF TakeGate, Applies, Declines, Answered, TypeOK, AppStates
<1>4. QED
  BY <1>1, <1>2, <1>3, DecisionKeeps DEF TakeGate

(* autonomous_authorize: the policy approves as the gate applies.           *)
LEMMA PolicyKeeps ==
  ASSUME TypeOK, GateInv, PolicyDecides
  PROVE  GateInv' /\ (Gate!ApplyWrite(app.token) \/ Gate!DeclineWrite(app.token))
<1>1. ApplyInv'
  BY GateInvParts DEF PolicyDecides, PolicyGrants, PolicyRefuses, grantVars, ApplyInv
<1>2. CASE PolicyGrants(app.token) /\ Applies
  <2>1. ~Declines
    BY <1>2 DEF TypeOK, AppStates, Applies, Declines
  <2>2. QED
    BY <1>1, <1>2, <2>1, DecisionKeeps DEF PolicyDecides, PolicyGrants
<1>3. CASE PolicyRefuses(app.token) /\ Declines
  <2>1. ~Applies
    BY <1>3 DEF TypeOK, AppStates, Applies, Declines
  <2>2. QED
    BY <1>1, <1>3, <2>1, DecisionKeeps DEF PolicyDecides, PolicyRefuses, grantVars
<1>4. QED
  BY <1>2, <1>3 DEF PolicyDecides
(* The client sends what is not an apply, or nothing, and keeps its view.   *)
LEMMA CallingGate ==
  ASSUME TypeOK, GateInv,
         \/ \E k \in {"key", "snapshot", "input", "confirm"} : Call(k)
         \/ SendBreaks \/ CloseWait \/ Quit \/ Kill \/ Vanish
  PROVE  GateInv' /\ Bystander
<1>1. /\ Bystander /\ UNCHANGED <<toClient, approved>>
      /\ client'.view = client.view /\ client'.kept = client.kept
  BY DEF TypeOK, AppStates, ClientStates, Bystander, Call, SendBreaks, CloseWait, Quit, Kill, Vanish,
         appVars, clientVars, grantVars
<1>2. Offered' = Offered /\ AtGateInv' /\ HistoryInv'
  BY <1>1, BystanderKeeps, GateInvParts
<1>3. ApplyInv'
  <2>1. CASE UNCHANGED toApp
    BY <1>1, <2>1, GateInvParts DEF ApplyInv
  <2>2. CASE \E k \in MessageKinds \ {"apply"} : Send(Message(k))
    <3>1. PICK k \in MessageKinds \ {"apply"} : Send(Message(k))
      BY <2>2
    <3>2. Message(k) \in Messages /\ Message(k).kind # "apply"
      BY <3>1, Vocabulary DEF Message
    <3>3. QED
      BY <1>1, <3>1, <3>2, SendKeeps, GateInvParts
  <2>3. QED
    BY <2>1, <2>2 DEF Call, SendBreaks, CloseWait, Quit, Kill, Vanish, MessageKinds
<1>4. FrameInv' /\ ViewInv'
  BY <1>1, <1>2, GateInvParts DEF FrameInv, ViewInv
<1>5. QED
  BY <1>1, <1>2, <1>3, <1>4, GateInvAfter

(* apply(): an approval for a gate on offer, or nothing granted.            *)
LEMMA ApplyKeeps ==
  ASSUME TypeOK, GateInv, NEW granted \in BOOLEAN, NEW t \in Tokens, ApplyCall(granted, t)
  PROVE  /\ GateInv'
         /\ \/ Gate!Approve(t)
            \/ UNCHANGED <<gateCap, approved, applied, declined, posted>>
<1>1. t \in Offered /\ t \in Tokens
  BY DEF GateInv, WireInv, ApplyCall
<1>2. /\ UNCHANGED <<toClient, app, gateCap, applied, declined, posted, gateMode>>
      /\ client'.view = client.view /\ client'.kept = client.kept
  BY DEF TypeOK, ClientStates, ApplyCall, appVars, modeVars
<1>3. IF granted THEN approved' = approved \cup {t} ELSE UNCHANGED approved
  <2>1. CASE approver = "policy"
    BY <2>1 DEF ApplyCall, PolicyGrants, PolicyRefuses, grantVars
  <2>2. CASE approver = "human"
    BY <2>2 DEF ApplyCall, grantVars
  <2>3. QED
    BY <2>1, <2>2 DEF TypeOK, Approvers
<1>4. ApplyInv'
  <2>1. CASE granted
    <3>1. ApplyMessage(t) \in Messages /\ ApplyMessage(t).token = t
      BY <1>1, Vocabulary DEF ApplyMessage
    <3>2. Send(ApplyMessage(t))
      BY <2>1 DEF ApplyCall
    <3>3. QED
      BY <1>3, <2>1, <3>1, <3>2, SendKeeps, GateInvParts
  <2>2. CASE ~granted
    <3>1. Message("refuse") \in Messages /\ Message("refuse").kind # "apply"
      BY Vocabulary DEF Message, MessageKinds
    <3>2. Send(Message("refuse"))
      BY <2>2 DEF ApplyCall
    <3>3. QED
      BY <1>3, <2>2, <3>1, <3>2, SendKeeps, GateInvParts
  <2>3. QED
    BY <2>1, <2>2
<1>5. Offered' = Offered
  BY <1>2 DEF Offered
<1>6. FrameInv' /\ ViewInv' /\ AtGateInv'
  BY <1>2, <1>5, GateInvParts DEF FrameInv, ViewInv, AtGateInv
<1>7. HistoryInv'
  BY <1>1, <1>2, <1>3, <1>5, GateInvParts DEF HistoryInv, PostedOnlyIfApproved
<1>8. QED
  BY <1>1, <1>2, <1>3, <1>4, <1>5, <1>6, <1>7, GateInvAfter DEF Gate!Approve

(* The client takes a frame: its view is of a gate on offer, if of any.     *)
LEMMA ReceivingGate ==
  ASSUME TypeOK, GateInv, Receive \/ Drain
  PROVE  GateInv' /\ Bystander
<1>1. Bystander /\ UNCHANGED <<toApp, approved>>
  BY DEF Bystander, Receive, Drain, appVars, grantVars
<1>2. AtGateInv' /\ HistoryInv'
  BY <1>1, BystanderKeeps, GateInvParts
<1>3. FrameInv' /\ ViewInv'
  BY TakeKeeps, GateInvParts
<1>4. ApplyInv'
  BY <1>1, GateInvParts DEF ApplyInv
<1>5. QED
  BY <1>1, <1>2, <1>3, <1>4, GateInvAfter

(* Every step of the channel keeps GateInv and is a step of the gate's      *)
(* abstract life, or none.                                                  *)
LEMMA NextGate ==
  ASSUME TypeOK, GateInv, [Next]_vars
  PROVE  GateInv' /\ [Gate!WriteNext]_(Gate!writeVars)
<1>1. ASSUME UNCHANGED <<gateCap, approved, applied, declined, posted>>
      PROVE  UNCHANGED Gate!writeVars
  BY <1>1 DEF Gate!writeVars, Offered
<1>2. CASE AppStep
  <2>1. ASSUME NEW c \in Capabilities, OfferGate(c)
        PROVE  GateInv' /\ Gate!WriteNext
    <3>1. Len(gateCap) + 1 \in Tokens
      BY <2>1, BoundsAssumption DEF TypeOK, OfferGate, Tokens
    <3>2. QED
      BY <2>1, <3>1, OfferGateKeeps DEF Gate!WriteNext
  <2>2. ASSUME Post \/ PolicyDecides \/ \E m \in Messages : TakeGate(m)
        PROVE  GateInv' /\ Gate!WriteNext
    <3>1. app.token \in Tokens
      BY <2>2 DEF TypeOK, AppStates, Post, PolicyDecides, TakeGate
    <3>2. QED
      BY <2>2, <3>1, PostKeeps, PolicyKeeps, TakeGateKeeps DEF Gate!WriteNext
  <2>3. ASSUME \/ AppDraw \/ ReadKey \/ DryRunGate \/ AskInput \/ AskConfirm
               \/ PostRaises \/ Exit \/ ShellOut
        PROVE  GateInv' /\ UNCHANGED Gate!writeVars
    BY <1>1, <2>3, RunningGate DEF Bystander
  <2>4. ASSUME NEW m \in Messages,
               TakeKey(m) \/ TakeOther(m) \/ TakeDryGate(m) \/ TakeInput(m) \/ TakeConfirm(m)
        PROVE  GateInv' /\ UNCHANGED Gate!writeVars
    BY <1>1, <2>4, ReadingGate DEF Bystander
  <2>5. QED
    BY <1>2, <2>1, <2>2, <2>3, <2>4 DEF AppStep
<1>3. CASE ClientStep
  <2>1. ASSUME NEW granted \in BOOLEAN, NEW t \in Tokens, ApplyCall(granted, t)
        PROVE  GateInv' /\ [Gate!WriteNext]_(Gate!writeVars)
    BY <1>1, <2>1, ApplyKeeps DEF Gate!WriteNext
  <2>2. ASSUME Receive \/ Drain
        PROVE  GateInv' /\ UNCHANGED Gate!writeVars
    BY <1>1, <2>2, ReceivingGate DEF Bystander
  <2>3. ASSUME \/ \E k \in {"key", "snapshot", "input", "confirm"} : Call(k)
               \/ SendBreaks \/ CloseWait \/ Quit \/ Kill \/ Vanish
        PROVE  GateInv' /\ UNCHANGED Gate!writeVars
    BY <1>1, <2>3, CallingGate DEF Bystander
  <2>4. QED
    BY <1>3, <2>1, <2>2, <2>3
       DEF ClientStep, Press, Snapshot, AnswerInput, AnswerConfirm
<1>4. CASE UNCHANGED vars
  BY <1>1, <1>4
     DEF vars, appVars, clientVars, modeVars, grantVars, GateInv, WireInv, AtGateInv, Offered,
         PostedOnlyIfApproved
<1>5. QED
  BY <1>2, <1>3, <1>4 DEF Next

(* The inductive invariant of the write gate, in every mode and whoever     *)
(* approves.                                                                *)
THEOREM GateAlwaysSafe == Spec => []GateInv
<1>1. TypeOK /\ GateInv /\ [Next]_vars => GateInv'
  BY NextGate
<1>2. QED
  BY <1>1, InitGate, ChannelTypeCorrect, PTL DEF Spec

(* Nothing is posted that was not applied at its gate, nor applied without  *)
(* an approval of that very gate; in a dry run nothing is posted at all.    *)
THEOREM WritesNeedApproval == Spec => []PostedOnlyIfApproved
<1>1. GateInv => PostedOnlyIfApproved
  BY DEF GateInv
<1>2. QED
  BY <1>1, GateAlwaysSafe, PTL

(* The channel implements the guarded write.                                *)
THEOREM ChannelImplementsGuardedWrite == Spec => ImplementsGuardedWrite
<1>1. Init => Gate!WriteInit
  BY DEF Init, Gate!WriteInit, Offered
<1>2. TypeOK /\ GateInv /\ [Next]_vars => [Gate!WriteNext]_(Gate!writeVars)
  BY NextGate
<1>3. QED
  BY <1>1, <1>2, ChannelTypeCorrect, GateAlwaysSafe, PTL
     DEF Spec, ImplementsGuardedWrite, Gate!WriteSpec

-----------------------------------------------------------------------------
(* The policies at either end *)

(* The writes a policy answers for: those its gate applied, or those it     *)
(* approved at the driver.                                                  *)
Counted == IF gateMode = "policy" THEN applied ELSE approved

(* Every write a policy answers for is one it may grant, and they are       *)
(* counted against its cap.                                                 *)
PolicyInv ==
  (gateMode = "policy" \/ approver = "policy") =>
    /\ budget <= MaxApplies
    /\ Cardinality(Counted) <= budget
    /\ \A t \in Counted : gateCap[t].listed /\ gateCap[t].money = "no"

(* There are finitely many gates.                                           *)
LEMMA TokensFinite == IsFiniteSet(Tokens)
BY FS_Interval, BoundsAssumption DEF Tokens

(* The tokens decided or approved are finitely many.                        *)
LEMMA CountedFinite == TypeOK => IsFiniteSet(Counted) /\ Cardinality(Counted) \in Nat
<1> SUFFICES ASSUME TypeOK PROVE IsFiniteSet(Counted)
  BY FS_CardinalityType
<1>1. QED
  BY TokensFinite, FS_Subset DEF TypeOK, Counted

(* A step that counts no further write, and reaches at most a new gate.     *)
LEMMA UncountedPolicy ==
  ASSUME TypeOK, GateInv, PolicyInv,
         UNCHANGED <<budget, applied, approved, gateMode, approver>>,
         UNCHANGED gateCap \/ \E c \in Capabilities : gateCap' = Append(gateCap, c)
  PROVE  PolicyInv'
<1>1. Counted \subseteq Offered
  BY DEF GateInv, PostedOnlyIfApproved, Counted
<1>2. \A t \in Offered : gateCap'[t] = gateCap[t]
  BY AppendProperties DEF TypeOK, Offered
<1>3. Counted' = Counted
  BY DEF Counted
<1>4. QED
  BY <1>1, <1>2, <1>3 DEF PolicyInv

(* A grant: one more write, within the cap, and one the policy allows.      *)
LEMMA GrantPolicy ==
  ASSUME TypeOK, PolicyInv, NEW t \in Tokens, PolicyGrants(t),
         UNCHANGED <<gateCap, gateMode, approver>>,
         applied' \in {applied, applied \cup {t}}
  PROVE  PolicyInv'
<1>1. budget \in Nat /\ MaxApplies \in Nat /\ budget' = budget + 1 /\ budget < MaxApplies
  BY BoundsAssumption DEF TypeOK, PolicyGrants, PolicyAllows
<1>2. Counted' \in {Counted, Counted \cup {t}}
  BY DEF Counted, PolicyGrants
<1>3. Cardinality(Counted') <= Cardinality(Counted) + 1 /\ Cardinality(Counted') \in Nat
  <2>1. IsFiniteSet(Counted) /\ Cardinality(Counted) \in Nat
    BY CountedFinite
  <2>2. CASE Counted' = Counted
    BY <2>1, <2>2
  <2>3. Cardinality(Counted \cup {t}) = IF t \in Counted THEN Cardinality(Counted)
                                                        ELSE Cardinality(Counted) + 1
    BY <2>1, FS_AddElement
  <2>4. CASE Counted' = Counted \cup {t}
    BY <2>1, <2>3, <2>4
  <2>5. QED
    BY <1>2, <2>2, <2>4
<1>4. gateCap[t].listed /\ gateCap[t].money = "no"
  BY DEF PolicyGrants, PolicyAllows
<1>5. (gateMode = "policy" \/ approver = "policy") => Cardinality(Counted') <= budget'
  BY <1>1, <1>3, CountedFinite DEF PolicyInv
<1>6. QED
  BY <1>1, <1>2, <1>4, <1>5 DEF PolicyInv

(* At first nothing has been granted.                                       *)
LEMMA InitPolicy == Init => PolicyInv
<1> SUFFICES ASSUME Init PROVE PolicyInv
  OBVIOUS
<1>1. Counted = {} /\ budget = 0
  BY DEF Init, Counted
<1>2. QED
  BY <1>1, FS_EmptySet, BoundsAssumption DEF PolicyInv

(* A write joins the ones a policy answers for only by one of its grants.   *)
LEMMA NextPolicy ==
  ASSUME TypeOK, GateInv, PolicyInv, [Next]_vars
  PROVE  PolicyInv'
<1>1. ASSUME NEW m \in Messages, TakeGate(m)
      PROVE  PolicyInv'
  (* a handshake gate: it applies what has been approved already            *)
  <2>1. GateInv'
    BY <1>1, TakeGateKeeps
  <2>2. UNCHANGED <<budget, approved, gateCap, gateMode, approver>> /\ gateMode # "policy"
    BY <1>1 DEF TakeGate, Applies, Declines, Answered, clientVars, modeVars, grantVars, GateInv,
                AtGateInv
  <2>3. QED
    BY <2>2 DEF PolicyInv, Counted
<1>2. CASE PolicyDecides
  <2>1. app.token \in Tokens /\ UNCHANGED <<gateCap, gateMode, approver>>
    BY <1>2 DEF TypeOK, AppStates, PolicyDecides, Applies, Declines, Answered, clientVars, modeVars
  <2>2. CASE PolicyGrants(app.token) /\ Applies
    BY <2>1, <2>2, GrantPolicy DEF Applies
  <2>3. CASE PolicyRefuses(app.token) /\ Declines
    BY <2>1, <2>3, UncountedPolicy DEF PolicyRefuses, grantVars, Declines
  <2>4. QED
    BY <1>2, <2>2, <2>3 DEF PolicyDecides
<1>3. ASSUME NEW granted \in BOOLEAN, NEW t \in Tokens, ApplyCall(granted, t)
      PROVE  PolicyInv'
  <2>1. UNCHANGED <<gateCap, applied, gateMode, approver>>
    BY <1>3 DEF ApplyCall, appVars, modeVars
  <2>3. CASE approver = "policy" /\ granted
    BY <1>3, <2>1, <2>3, GrantPolicy DEF ApplyCall
  <2>4. CASE approver = "policy" /\ ~granted
    BY <1>3, <2>1, <2>4, UncountedPolicy DEF ApplyCall, PolicyRefuses, grantVars
  <2>5. CASE approver = "human"
    (* a person approves: the policy at the gate, if any, has its own count *)
    <3>1. UNCHANGED budget
      BY <1>3, <2>5 DEF ApplyCall, grantVars
    <3>2. QED
      BY <2>1, <2>5, <3>1 DEF PolicyInv, Counted
  <2>6. QED
    BY <2>3, <2>4, <2>5 DEF TypeOK, Approvers
<1>4. ASSUME NEW c \in Capabilities, OfferGate(c)
      PROVE  PolicyInv'
  BY <1>4, UncountedPolicy DEF OfferGate, clientVars, modeVars, grantVars
<1>5. CASE Post
  BY <1>5, UncountedPolicy DEF Post, clientVars, modeVars, grantVars
<1>6. ASSUME Bystander, UNCHANGED budget
      PROVE  PolicyInv'
  BY <1>6, UncountedPolicy DEF Bystander, modeVars
<1>7. ASSUME \/ AppDraw \/ ReadKey \/ DryRunGate \/ AskInput \/ AskConfirm
             \/ PostRaises \/ Exit \/ ShellOut
      PROVE  PolicyInv'
  <2>1. UNCHANGED budget
    BY <1>7 DEF AppDraw, ReadKey, DryRunGate, ReadAt, AskInput, AskConfirm, AskAt, PostRaises,
                Exit, ShellOut, grantVars
  <2>2. QED
    BY <1>6, <1>7, <2>1, RunningGate
<1>8. ASSUME NEW m \in Messages,
             TakeKey(m) \/ TakeOther(m) \/ TakeDryGate(m) \/ TakeInput(m) \/ TakeConfirm(m)
      PROVE  PolicyInv'
  <2>1. UNCHANGED budget
    BY <1>8 DEF TakeKey, TakeOther, TakeDryGate, TakeInput, TakeConfirm, grantVars
  <2>2. QED
    BY <1>6, <1>8, <2>1, ReadingGate
<1>9. ASSUME \/ \E k \in {"key", "snapshot", "input", "confirm"} : Call(k)
             \/ SendBreaks \/ CloseWait \/ Quit \/ Kill \/ Vanish
      PROVE  PolicyInv'
  <2>1. UNCHANGED budget
    BY <1>9 DEF Call, SendBreaks, CloseWait, Quit, Kill, Vanish, grantVars
  <2>2. QED
    BY <1>6, <1>9, <2>1, CallingGate
<1>10. CASE Receive \/ Drain
  <2>1. UNCHANGED budget
    BY <1>10 DEF Receive, Drain, grantVars
  <2>2. QED
    BY <1>6, <1>10, <2>1, ReceivingGate
<1>11. CASE UNCHANGED vars
  BY <1>11 DEF vars, appVars, modeVars, grantVars, PolicyInv, Counted
<1>12. QED
  <2>1. CASE AppStep
    BY <1>1, <1>2, <1>4, <1>5, <1>7, <1>8, <2>1 DEF AppStep
  <2>2. CASE ClientStep
    BY <1>3, <1>9, <1>10, <2>2 DEF ClientStep, Press, Snapshot, AnswerInput, AnswerConfirm
  <2>3. QED
    BY <1>11, <2>1, <2>2 DEF Next

(* An autonomous policy, at the gate or at the driver, is never overrun:    *)
(* what is posted is listed and moves no money, and at most MaxApplies      *)
(* writes are applied.                                                      *)
THEOREM PolicyAlwaysRespected == Spec => []PolicyRespected
<1>1. TypeOK /\ GateInv /\ PolicyInv => PolicyRespected
  <2> SUFFICES ASSUME TypeOK, GateInv, PolicyInv, gateMode = "policy" \/ approver = "policy"
               PROVE  /\ \A t \in posted : gateCap[t].listed /\ gateCap[t].money = "no"
                      /\ Cardinality(applied) <= MaxApplies
    BY DEF PolicyRespected
  <2>1. posted \subseteq applied /\ applied \subseteq Counted
    BY DEF GateInv, PostedOnlyIfApproved, Counted
  <2>2. Cardinality(applied) <= Cardinality(Counted) /\ Cardinality(applied) \in Nat
    BY <2>1, CountedFinite, FS_Subset, FS_CardinalityType
  <2>3. budget \in Nat /\ MaxApplies \in Nat
    BY BoundsAssumption DEF TypeOK
  <2>4. QED
    BY <2>1, <2>2, <2>3, CountedFinite DEF PolicyInv
<1>2. QED
  BY <1>1, InitPolicy, NextPolicy, ChannelTypeCorrect, GateAlwaysSafe, PTL DEF Spec


-----------------------------------------------------------------------------
(* App and client never wait for each other *)

(* The client leaves for good when it quits or vanishes, and only then says *)
(* so: an app that reads "q" is not waited for.                             *)
QuitInv ==
  \A i \in 1..Len(toApp) : toApp[i].kind \in {"quit", "eof"} => client.pc \in {"quit", "gone"}

(* The app will write or end before it reads: a screen is owed, or a key is *)
(* unanswered, or a decision or a write is at hand.                         *)
Due ==
  \/ (app.pc = "run" /\ (app.owed \/ app.silent))
  \/ app.pc \in {"policy", "post", "end"}

(* A client that waits while both pipes are empty is due a frame.           *)
DueInv == client.pc = "wait" /\ toClient = <<>> /\ toApp = <<>> => Due

WaitInv == DueInv /\ QuitInv /\ (app.pc = "post" => app.owed)

(* A frame just written is there to be received.                            *)
LEMMA WriteFills == ASSUME TypeOK, NEW f, Write(f) PROVE toClient' # <<>>
BY DEF TypeOK, Write

(* A message just sent is there to be read, unless nobody reads any more.   *)
LEMMA SendFills ==
  ASSUME TypeOK, NEW m \in Messages, Send(m) PROVE toApp' # <<>> \/ Ended
BY DEF TypeOK, Send

(* A step of the app that leaves the client and what it has sent alone.     *)
LEMMA QuitStays ==
  ASSUME QuitInv, UNCHANGED toApp, client'.pc = client.pc \/ client'.pc \in {"quit", "gone"}
  PROVE  QuitInv'
BY DEF QuitInv

(* A message is sent by a client that has not left, or that leaves by it.   *)
LEMMA QuitSends ==
  ASSUME TypeOK, QuitInv, NEW m \in Messages, Send(m), client.pc # "gone",
         client.pc # "quit", m.kind \in {"quit", "eof"} => client'.pc \in {"quit", "gone"}
  PROVE  QuitInv'
<1>1. toApp \in Seq(Messages)
  BY DEF TypeOK
<1>2. CASE toApp' = toApp
  BY <1>2 DEF QuitInv
<1>3. CASE toApp' = Append(toApp, m)
  BY <1>1, <1>3, AppendProperties DEF QuitInv
<1>4. QED
  BY <1>2, <1>3 DEF Send

(* What an app reads: a goodbye only from a client that is not waiting.     *)
LEMMA QuitRead ==
  ASSUME TypeOK, QuitInv, NEW m \in Messages, Read(m), UNCHANGED client
  PROVE  /\ QuitInv'
         /\ m.kind \in {"quit", "eof"} => client.pc # "wait"
<1>1. toApp \in Seq(Messages)
  BY DEF TypeOK
<1>2. CASE toApp' = toApp /\ client.pc = "gone"
  BY <1>2 DEF QuitInv
<1>3. CASE toApp # <<>> /\ m = Head(toApp) /\ toApp' = Tail(toApp)
  <2>1. Head(toApp) = toApp[1] /\ 1 \in 1..Len(toApp)
    BY <1>1, <1>3
  <2>2. QuitInv'
    BY <1>1, <1>3, HeadTailProperties DEF QuitInv
  <2>3. QED
    BY <1>3, <2>1, <2>2 DEF QuitInv
<1>4. QED
  BY <1>2, <1>3 DEF Read

(* At first a screen is owed to the client, which waits for it.             *)
LEMMA InitWait == Init => WaitInv
BY DEF Init, WaitInv, DueInv, QuitInv, Due

(* The app, away from its pipe: what is due stays due until it is written.  *)
LEMMA RunningWait ==
  ASSUME TypeOK, WaitInv,
         \/ AppDraw \/ ReadKey \/ DryRunGate \/ AskInput \/ AskConfirm \/ Post
         \/ PostRaises \/ Exit \/ ShellOut \/ PolicyDecides \/ \E c \in Capabilities : OfferGate(c)
  PROVE  WaitInv'
<1>1. UNCHANGED <<toApp, client>>
  BY DEF AppDraw, ReadKey, DryRunGate, ReadAt, AskInput, AskConfirm, AskAt, Post, PostRaises, Exit,
         ShellOut, OfferGate, PolicyDecides, Applies, Declines, Answered, clientVars
<1>2. QuitInv'
  BY <1>1, QuitStays DEF WaitInv
<1>3. app'.pc = "post" => app'.owed
  BY DEF TypeOK, AppStates, AppDraw, ReadKey, DryRunGate, ReadAt, AskInput, AskConfirm, AskAt, Post,
         PostRaises, Exit, ShellOut, OfferGate, PolicyDecides, Applies, Declines, Running
<1>4. DueInv'
  <2>1. CASE \E f : Write(f)
    BY <2>1, WriteFills DEF DueInv
  <2>2. CASE ReadKey \/ DryRunGate
    <3>1. Due /\ Running => app.owed \/ app.silent
      BY DEF Due, Running
    <3>2. CASE app.silent
      BY <2>1, <2>2, <3>2 DEF ReadKey, DryRunGate, ReadAt
    <3>3. CASE ~app.silent
      BY <1>1, <2>2, <3>1, <3>3 DEF WaitInv, DueInv, ReadKey, DryRunGate, ReadAt
    <3>4. QED
      BY <3>2, <3>3
  <2>3. CASE Post \/ PostRaises \/ Exit
    BY <2>3 DEF TypeOK, AppStates, Post, PostRaises, Exit, WaitInv, DueInv, Due
  <2>4. QED
    BY <2>1, <2>2, <2>3
       DEF AppDraw, AskInput, AskConfirm, AskAt, ShellOut, OfferGate, PolicyDecides, Applies,
           Declines, Answered
<1>5. QED
  BY <1>2, <1>3, <1>4 DEF WaitInv

(* The app, reading: it answers, or a screen is due.                        *)
LEMMA ReadingWait ==
  ASSUME TypeOK, WaitInv, NEW m \in Messages,
         \/ TakeKey(m) \/ TakeOther(m) \/ TakeDryGate(m) \/ TakeGate(m)
         \/ TakeInput(m) \/ TakeConfirm(m)
  PROVE  WaitInv'
<1>1. Read(m) /\ UNCHANGED client
  BY DEF TakeKey, TakeOther, TakeDryGate, TakeGate, TakeInput, TakeConfirm, Applies, Declines,
         Answered, Unanswered, clientVars
<1>2. QuitInv' /\ (m.kind \in {"quit", "eof"} => client.pc # "wait")
  BY <1>1, QuitRead DEF WaitInv
<1>3. app'.pc = "post" => app'.owed
  BY DEF TypeOK, AppStates, TakeKey, TakeOther, TakeDryGate, TakeGate, TakeInput, TakeConfirm,
         Applies, Declines
<1>4. DueInv'
  <2>1. CASE \E f : Write(f)
    BY <2>1, WriteFills DEF DueInv
  <2>2. CASE TakeKey(m)
    <3>1. client.pc = "wait" => m.kind = "key"
      BY <1>2, <2>2 DEF TakeKey, Keyed
    <3>2. app'.pc = "run" /\ (m.kind = "key" => app'.silent)
      BY <2>2 DEF TypeOK, AppStates, TakeKey
    <3>3. QED
      BY <1>1, <3>1, <3>2 DEF DueInv, Due
  <2>3. CASE TakeInput(m) \/ TakeConfirm(m)
    BY <2>3 DEF TypeOK, AppStates, TakeInput, TakeConfirm, DueInv, Due
  <2>4. QED
    BY <2>1, <2>2, <2>3 DEF TakeOther, TakeDryGate, TakeGate, Applies, Declines, Answered
<1>5. QED
  BY <1>2, <1>3, <1>4 DEF WaitInv

(* The client: it waits only once it has sent, and an ended app is past.    *)
LEMMA ClientWait ==
  ASSUME TypeOK, WaitInv, ClientStep
  PROVE  WaitInv'
<1>1. CASE Kill
  <2>1. app'.pc = "end" /\ UNCHANGED <<toApp, client>>
    BY <1>1 DEF TypeOK, AppStates, Kill, clientVars
  <2>2. QED
    BY <2>1, QuitStays DEF WaitInv, DueInv, Due
<1>2. CASE SendBreaks \/ Receive \/ CloseWait \/ Drain \/ Vanish
  <2>1. UNCHANGED <<toApp, app>>
    BY <1>2 DEF SendBreaks, Receive, CloseWait, Drain, Vanish, appVars
  <2>2. client'.pc # "wait"
    <3>1. CASE Receive
      BY <3>1 DEF Receive
    <3>2. CASE Drain
      BY <3>2 DEF TypeOK, ClientStates, Drain
    <3>3. CASE SendBreaks \/ CloseWait \/ Vanish
      BY <3>3 DEF TypeOK, ClientStates, SendBreaks, CloseWait, Vanish
    <3>4. QED
      BY <1>2, <3>1, <3>2, <3>3
  <2>3. QuitInv'
    <3>1. CASE Vanish
      BY <1>2, <2>1, <3>1, QuitStays DEF TypeOK, ClientStates, Vanish, WaitInv
    <3>2. CASE SendBreaks \/ Receive \/ CloseWait \/ Drain
      <4>1. client.pc \in {"free", "wait"}
        BY <3>2 DEF SendBreaks, Receive, CloseWait, Drain
      <4>2. QED
        BY <2>1, <4>1 DEF WaitInv, QuitInv
    <3>3. QED
      BY <1>2, <3>1, <3>2
  <2>4. QED
    BY <2>1, <2>2, <2>3 DEF WaitInv, DueInv
<1>3. ASSUME NEW m \in Messages, Send(m), UNCHANGED <<toClient, app>>,
             client.pc \in {"free", "closed"},
             m.kind \in {"quit", "eof"} => client'.pc \in {"quit", "gone"}
      PROVE  WaitInv'
  <2>1. QuitInv'
    BY <1>3, QuitSends DEF WaitInv
  <2>2. toApp' # <<>> \/ Ended
    BY <1>3, SendFills
  <2>3. QED
    BY <1>3, <2>1, <2>2 DEF WaitInv, DueInv, Due, Ended
<1>4. ASSUME NEW k \in {"key", "snapshot", "input", "confirm"}, Call(k)
      PROVE  WaitInv'
  <2>1. Message(k) \in Messages /\ Message(k).kind = k
    BY <1>4, Vocabulary DEF MessageKinds, Message
  <2>2. QED
    BY <1>3, <1>4, <2>1 DEF Call, appVars
<1>5. ASSUME NEW granted \in BOOLEAN, NEW t \in Tokens, ApplyCall(granted, t)
      PROVE  WaitInv'
  <2>2. ApplyMessage(t) \in Messages /\ Message("refuse") \in Messages
    BY <1>5, Vocabulary DEF MessageKinds
  <2>3. QED
    BY <1>3, <1>5, <2>2 DEF ApplyCall, appVars, ApplyMessage, Message
<1>6. CASE Quit
  <2>1. Message("quit") \in Messages /\ client'.pc = "quit"
    BY <1>6, Vocabulary DEF MessageKinds, Quit, TypeOK, ClientStates
  <2>2. QED
    BY <1>3, <1>6, <2>1 DEF Quit, appVars
<1>7. QED
  BY <1>1, <1>2, <1>4, <1>5, <1>6
     DEF ClientStep, Press, Snapshot, AnswerInput, AnswerConfirm

(* No step leaves the client waiting for nothing.                           *)
LEMMA NextWait ==
  ASSUME TypeOK, WaitInv, [Next]_vars
  PROVE  WaitInv'
<1>1. CASE UNCHANGED vars
  BY <1>1 DEF vars, appVars, clientVars, WaitInv, DueInv, Due, QuitInv
<1>2. CASE AppStep
  BY <1>2, RunningWait, ReadingWait DEF AppStep
<1>3. QED
  BY <1>1, <1>2, ClientWait DEF Next

(* App and client never wait for each other.                                *)
THEOREM NeverBothWait == Spec => []NoMutualWait
<1>1. WaitInv => NoMutualWait
  BY DEF WaitInv, DueInv, Due, NoMutualWait
<1>2. QED
  BY <1>1, InitWait, NextWait, ChannelTypeCorrect, PTL DEF Spec


-----------------------------------------------------------------------------
(* What approval.resolved tells *)

(* The frame that tells what the gate of token t did.                       *)
Decides(f, t) ==
  /\ f.token = t
  /\ \/ f.kind = "applied" /\ t \in applied
     \/ f.kind = "declined" /\ t \in declined

(* No frame can come before the one that tells what gate t did.             *)
Deciding(t) == app.pc = "end" \/ (app.pc \in {"gate", "policy"} /\ app.token = t)

FirstDecides(t) == IF toClient = <<>> THEN Deciding(t) ELSE Decides(Head(toClient), t)

(* A gate frame is followed by its decision and by no other frame, in the   *)
(* pipe as once it has been read, whatever the client calls in between.     *)
PairInv ==
  \A i \in 1..Len(toClient) : toClient[i].kind = "gate" =>
    IF i = Len(toClient) THEN Deciding(toClient[i].token)
                         ELSE Decides(toClient[i + 1], toClient[i].token)
CallInv ==
  /\ client.pc = "free" /\ client.view.kind = "gate" => FirstDecides(client.view.token)
  /\ client.pc = "wait" /\ client.token # 0 /\ client.prompt => FirstDecides(client.token)

ReplyInv == PairInv /\ CallInv /\ ResolvedTruly

(* At first no gate has been seen or called for.                            *)
LEMMA InitReply == Init => ReplyInv
BY DEF Init, ReplyInv, PairInv, CallInv, ResolvedTruly, Screen, Frame

(* A frame is written: the decision, when a gate is at hand.                *)
LEMMA ReplyWrites ==
  ASSUME TypeOK, ReplyInv, NEW f \in Frames, Write(f), UNCHANGED <<client, resolved>>,
         applied \subseteq applied', declined \subseteq declined',
         \A t : Deciding(t) => /\ f.token = t
                               /\ \/ f.kind = "applied" /\ t \in applied'
                                  \/ f.kind = "declined" /\ t \in declined',
         f.kind = "gate" => app'.pc \in {"gate", "policy"} /\ app'.token = f.token
  PROVE  ReplyInv'
<1>1. toClient \in Seq(Frames) /\ toClient' = Append(toClient, f)
  BY DEF TypeOK, Write
<1>2. /\ Len(toClient) \in Nat /\ Len(toClient') = Len(toClient) + 1
      /\ toClient'[Len(toClient')] = f /\ toClient' # <<>>
      /\ \A i \in 1..Len(toClient) : toClient'[i] = toClient[i]
  BY <1>1, AppendProperties
<1>3. PairInv'
  <2> SUFFICES ASSUME NEW i \in 1..Len(toClient'), toClient'[i].kind = "gate"
               PROVE  IF i = Len(toClient')
                        THEN \/ app'.pc = "end"
                             \/ /\ app'.pc \in {"gate", "policy"}
                                /\ app'.token = toClient'[i].token
                        ELSE /\ toClient'[i + 1].token = toClient'[i].token
                             /\ \/ /\ toClient'[i + 1].kind = "applied"
                                   /\ toClient'[i].token \in applied'
                                \/ /\ toClient'[i + 1].kind = "declined"
                                   /\ toClient'[i].token \in declined'
    BY DEF PairInv, Deciding, Decides
  <2>1. CASE i = Len(toClient')
    BY <1>2, <2>1
  <2>2. CASE i = Len(toClient)
    <3>1. Deciding(toClient[i].token) /\ i # Len(toClient') /\ toClient'[i + 1] = f
      BY <1>2, <2>2 DEF ReplyInv, PairInv
    <3>2. QED
      BY <1>2, <2>2, <3>1 DEF Decides
  <2>3. CASE i \in 1..(Len(toClient) - 1)
    <3>1. Decides(toClient[i + 1], toClient[i].token)
      BY <1>2, <2>3 DEF ReplyInv, PairInv
    <3>2. toClient'[i + 1] = toClient[i + 1] /\ toClient'[i] = toClient[i] /\ i # Len(toClient')
      BY <1>2, <2>3
    <3>3. QED
      BY <3>1, <3>2 DEF Decides
  <2>4. QED
    BY <1>2, <2>1, <2>2, <2>3
<1>4. ASSUME NEW t, FirstDecides(t) PROVE FirstDecides(t)'
  <2>1. CASE toClient = <<>>
    <3>1. Deciding(t) /\ Head(toClient') = f
      BY <1>1, <1>4, <2>1 DEF FirstDecides
    <3>2. QED
      BY <1>2, <3>1 DEF FirstDecides, Decides
  <2>2. CASE toClient # <<>>
    <3>1. Head(toClient') = Head(toClient)
      BY <1>1, <2>2
    <3>2. QED
      BY <1>2, <1>4, <2>2, <3>1 DEF FirstDecides, Decides
  <2>3. QED
    BY <2>1, <2>2
<1>5. CallInv'
  BY <1>4 DEF ReplyInv, CallInv
<1>6. QED
  BY <1>3, <1>5 DEF ReplyInv, ResolvedTruly

(* Nothing is written, and no gate is left undecided, unless the app ends.  *)
LEMMA ReplyQuiet ==
  ASSUME ReplyInv, UNCHANGED <<toClient, client, applied, declined, resolved>>,
         app.pc \in {"gate", "policy", "end"} => app'.pc = "end" \/ UNCHANGED app
  PROVE  ReplyInv'
<1>1. ASSUME NEW t, Deciding(t) PROVE Deciding(t)'
  BY <1>1 DEF Deciding
<1>2. PairInv'
  BY <1>1 DEF ReplyInv, PairInv, Decides
<1>3. CallInv'
  BY <1>1 DEF ReplyInv, CallInv, FirstDecides, Decides
<1>4. QED
  BY <1>2, <1>3 DEF ReplyInv, ResolvedTruly

(* The client turns to something else, waits for the gate on view, or has   *)
(* applied a request late and learns whatever comes next.                   *)
LEMMA ReplyTurns ==
  ASSUME ReplyInv, UNCHANGED <<toClient, app, applied, declined, resolved>>,
         client'.pc # "free",
         client'.pc = "wait" => \/ client'.token = 0 \/ ~client'.prompt
                                \/ FirstDecides(client'.token)
  PROVE  ReplyInv'
<1>1. PairInv' /\ ResolvedTruly'
  BY DEF ReplyInv, PairInv, Deciding, Decides, ResolvedTruly
<1>2. CallInv'
  BY DEF CallInv, FirstDecides, Deciding, Decides
<1>3. QED
  BY <1>1, <1>2 DEF ReplyInv

(* The client takes a frame: of a gate, its decision.                       *)
LEMMA ReplyTaken ==
  ASSUME TypeOK, ReplyInv, Receive \/ Drain
  PROVE  ReplyInv'
<1> DEFINE f == Head(toClient)
<1>1. toClient \in Seq(Frames) /\ toClient # <<>> /\ toClient' = Tail(toClient)
  BY DEF TypeOK, Receive, Drain
<1>2. /\ Len(toClient) \in Nat \ {0} /\ Len(toClient') = Len(toClient) - 1
      /\ \A i \in 1..Len(toClient') : toClient'[i] = toClient[i + 1]
      /\ f = toClient[1]
  BY <1>1, HeadTailProperties
<1>3. UNCHANGED <<app, applied, declined>>
  BY DEF Receive, Drain, appVars
<1>4. PairInv'
  <2> SUFFICES ASSUME NEW i \in 1..Len(toClient'), toClient'[i].kind = "gate"
               PROVE  IF i = Len(toClient')
                        THEN \/ app'.pc = "end"
                             \/ /\ app'.pc \in {"gate", "policy"}
                                /\ app'.token = toClient'[i].token
                        ELSE /\ toClient'[i + 1].token = toClient'[i].token
                             /\ \/ /\ toClient'[i + 1].kind = "applied"
                                   /\ toClient'[i].token \in applied'
                                \/ /\ toClient'[i + 1].kind = "declined"
                                   /\ toClient'[i].token \in declined'
    BY DEF PairInv, Deciding, Decides
  <2>1. i + 1 \in 1..Len(toClient) /\ toClient'[i] = toClient[i + 1]
    BY <1>2
  <2>2. CASE i = Len(toClient')
    BY <1>2, <1>3, <2>1, <2>2 DEF ReplyInv, PairInv, Deciding
  <2>3. CASE i # Len(toClient')
    <3>1. i + 1 # Len(toClient) /\ toClient'[i + 1] = toClient[(i + 1) + 1]
      BY <1>2, <2>3
    <3>2. QED
      BY <1>3, <2>1, <2>3, <3>1 DEF ReplyInv, PairInv, Decides
  <2>4. QED
    BY <2>2, <2>3
<1>5. client'.pc = "free" /\ client'.view = f
  BY Taking
<1>6. CallInv'
  <2> SUFFICES ASSUME NEW t, t = f.token, f.kind = "gate" PROVE FirstDecides(t)'
    BY <1>5 DEF CallInv, FirstDecides, Deciding, Decides
  <2>1. CASE Len(toClient) = 1
    <3>1. Deciding(t) /\ toClient' = <<>>
      BY <1>1, <1>2, <2>1 DEF ReplyInv, PairInv
    <3>2. QED
      BY <1>3, <3>1 DEF FirstDecides, Deciding
  <2>2. CASE Len(toClient) # 1
    <3>1. toClient' # <<>> /\ toClient' \in Seq(Frames) /\ 1 \in 1..Len(toClient')
      <4>1. toClient' \in Seq(Frames) /\ Len(toClient') >= 1
        BY <1>1, <1>2, <2>2, HeadTailProperties
      <4>2. QED
        BY <4>1
    <3>2. Head(toClient') = toClient[2]
      BY <1>2, <3>1
    <3>3. Decides(toClient[2], t)
      BY <1>2, <2>2 DEF ReplyInv, PairInv
    <3>4. QED
      BY <1>3, <3>1, <3>2, <3>3 DEF FirstDecides, Decides
  <2>3. QED
    BY <2>1, <2>2
<1>7. ResolvedTruly'
  <2>1. CASE UNCHANGED resolved
    BY <1>3, <2>1 DEF ReplyInv, ResolvedTruly
  <2>2. CASE /\ client.pc = "wait" /\ client.token # 0
             /\ resolved' = resolved \cup {<<client.token, Outcome(f), client.prompt>>}
             /\ client.prompt
    <3>1. Decides(f, client.token)
      BY <1>1, <2>2 DEF ReplyInv, CallInv, FirstDecides
    <3>2. Outcome(f) = f.kind
      BY <3>1 DEF Decides, Outcome
    <3> DEFINE e == <<client.token, Outcome(f), client.prompt>>
    <3>3. /\ resolved' = resolved \cup {e} /\ e[1] = client.token /\ e[2] = f.kind
          /\ f.kind = "applied" => client.token \in applied
          /\ f.kind = "declined" => client.token \in declined
          /\ f.kind # "resolved"
      BY <2>2, <3>1, <3>2 DEF Decides
    <3> HIDE DEF e
    <3>4. QED
      BY <1>3, <3>3 DEF ReplyInv, ResolvedTruly
  <2>3. CASE /\ resolved' = resolved \cup {<<client.token, Outcome(f), client.prompt>>}
             /\ ~client.prompt
    <3> DEFINE e == <<client.token, Outcome(f), client.prompt>>
    <3>1. resolved' = resolved \cup {e} /\ ~e[3]
      BY <2>3
    <3> HIDE DEF e
    <3>2. \A r \in resolved' : r[3] => r \in resolved
      BY <3>1
    <3>3. QED
      BY <1>3, <3>2 DEF ReplyInv, ResolvedTruly
  <2>4. client.prompt \in BOOLEAN
    BY DEF TypeOK, ClientStates
  <2>5. QED
    BY <2>1, <2>2, <2>3, <2>4 DEF Receive, Drain
<1>8. QED
  BY <1>4, <1>6, <1>7 DEF ReplyInv

(* The app at work: a new gate is announced once the last is decided.       *)
LEMMA RunningReply ==
  ASSUME TypeOK, ReplyInv,
         \/ AppDraw \/ ReadKey \/ DryRunGate \/ AskInput \/ AskConfirm \/ Post
         \/ PostRaises \/ Exit \/ ShellOut \/ \E c \in Capabilities : OfferGate(c)
  PROVE  ReplyInv'
<1>1. UNCHANGED <<client, resolved, applied, declined>> /\ app.pc \in {"run", "post"}
  BY DEF AppDraw, ReadKey, DryRunGate, ReadAt, AskInput, AskConfirm, AskAt, Post, PostRaises, Exit,
         ShellOut, OfferGate, clientVars, Running
<1>2. \A t : ~Deciding(t)
  BY <1>1 DEF Deciding
<1>3. CASE UNCHANGED toClient
  BY <1>1, <1>3, ReplyQuiet
<1>4. ASSUME NEW k \in FrameKinds \ GateKinds, Write(Frame(k))
      PROVE  ReplyInv'
  BY <1>1, <1>2, <1>4, ReplyWrites, Vocabulary DEF Frame, GateKinds
<1>5. ASSUME NEW c \in Capabilities, OfferGate(c)
      PROVE  ReplyInv'
  <2> DEFINE t == Len(gateCap) + 1
  <2>1. t \in Tokens
    BY <1>5, BoundsAssumption DEF TypeOK, OfferGate, Tokens
  <2>2. GateFrame("gate", t) \in Frames /\ GateFrame("gate", t).token = t
    BY <2>1, Vocabulary DEF GateKinds, GateFrame
  <2>3. app'.token = t /\ app'.pc \in {"gate", "policy"}
    BY <1>5 DEF TypeOK, AppStates, OfferGate
  <2>4. Write(GateFrame("gate", t))
    BY <1>5 DEF OfferGate
  <2>5. QED
    BY <1>1, <1>2, <2>2, <2>3, <2>4, ReplyWrites
<1>6. QED
  BY <1>3, <1>4, <1>5
     DEF AppDraw, ReadKey, DryRunGate, ReadAt, AskInput, AskConfirm, AskAt, Post, PostRaises, Exit,
         ShellOut, Screen, FrameKinds, GateKinds

(* A gate decides, and says so.                                             *)
LEMMA DecisionReply ==
  ASSUME TypeOK, ReplyInv, app.pc \in {"gate", "policy"}, Applies \/ Declines
  PROVE  ReplyInv'
<1>1. UNCHANGED <<client, resolved>> /\ app.token \in Tokens
  BY DEF TypeOK, AppStates, Applies, Declines, Answered, clientVars
<1>2. \A t : Deciding(t) => t = app.token
  BY DEF Deciding
<1>3. CASE Applies
  <2>1. GateFrame("applied", app.token) \in Frames /\ Write(GateFrame("applied", app.token))
    BY <1>1, <1>3, Vocabulary DEF GateKinds, Applies, Answered
  <2>2. QED
    BY <1>1, <1>2, <1>3, <2>1, ReplyWrites DEF Applies, GateFrame
<1>4. CASE Declines
  <2>1. GateFrame("declined", app.token) \in Frames /\ Write(GateFrame("declined", app.token))
    BY <1>1, <1>4, Vocabulary DEF GateKinds, Declines, Answered
  <2>2. QED
    BY <1>1, <1>2, <1>4, <2>1, ReplyWrites DEF Declines, GateFrame
<1>5. QED
  BY <1>3, <1>4

(* The app, reading away from a gate.                                       *)
LEMMA ReadingReply ==
  ASSUME TypeOK, ReplyInv, NEW m \in Messages,
         TakeKey(m) \/ TakeOther(m) \/ TakeDryGate(m) \/ TakeInput(m) \/ TakeConfirm(m)
  PROVE  ReplyInv'
<1>1. /\ UNCHANGED <<client, resolved, applied, declined>>
      /\ app.pc \in {"key", "dryGate", "input", "confirm"}
  BY DEF TakeKey, TakeOther, TakeDryGate, TakeInput, TakeConfirm, Answered, Unanswered, clientVars
<1>2. \A t : ~Deciding(t)
  BY <1>1 DEF Deciding
<1>3. CASE UNCHANGED toClient
  BY <1>1, <1>3, ReplyQuiet
<1>4. ASSUME NEW k \in FrameKinds \ GateKinds, Write(Frame(k))
      PROVE  ReplyInv'
  BY <1>1, <1>2, <1>4, ReplyWrites, Vocabulary DEF Frame, GateKinds
<1>5. QED
  BY <1>3, <1>4
     DEF TakeKey, TakeOther, TakeDryGate, TakeInput, TakeConfirm, Answered, Unanswered, Screen,
         FrameKinds, GateKinds

(* The client.                                                              *)
LEMMA ClientReply ==
  ASSUME TypeOK, ReplyInv, ClientStep
  PROVE  ReplyInv'
<1>1. CASE Kill
  BY <1>1, ReplyQuiet DEF TypeOK, AppStates, Kill, clientVars
<1>2. CASE Receive \/ Drain
  BY <1>2, ReplyTaken
<1>3. CASE SendBreaks \/ CloseWait \/ Quit \/ Vanish
  <2>1. client'.pc \notin {"free", "wait"}
    BY <1>3 DEF TypeOK, ClientStates, SendBreaks, CloseWait, Quit, Vanish
  <2>2. QED
    BY <1>3, <2>1, ReplyTurns DEF SendBreaks, CloseWait, Quit, Vanish, appVars
<1>4. ASSUME NEW k \in {"key", "snapshot", "input", "confirm"}, Call(k)
      PROVE  ReplyInv'
  <2>1. client'.pc = "wait" /\ client'.token = 0
    BY <1>4 DEF TypeOK, ClientStates, Call
  <2>2. QED
    BY <1>4, <2>1, ReplyTurns DEF Call, appVars
<1>5. ASSUME NEW granted \in BOOLEAN, NEW t \in Tokens, ApplyCall(granted, t)
      PROVE  ReplyInv'
  <2>1. client'.pc = "wait" /\ client'.token = t /\ client'.prompt = OnView(t)
    BY <1>5 DEF TypeOK, ClientStates, ApplyCall
  <2>2. OnView(t) => FirstDecides(t)
    BY <1>5 DEF ApplyCall, ReplyInv, CallInv, OnView
  <2>3. QED
    BY <1>5, <2>1, <2>2, ReplyTurns DEF ApplyCall, appVars
<1>6. QED
  BY <1>1, <1>2, <1>3, <1>4, <1>5
     DEF ClientStep, Press, Snapshot, AnswerInput, AnswerConfirm

(* Every step keeps a gate frame and its decision together.                 *)
LEMMA NextReply ==
  ASSUME TypeOK, ReplyInv, [Next]_vars
  PROVE  ReplyInv'
<1>1. CASE UNCHANGED vars
  BY <1>1, ReplyQuiet DEF vars, appVars, clientVars
<1>2. CASE PolicyDecides \/ \E m \in Messages : TakeGate(m)
  BY <1>2, DecisionReply DEF PolicyDecides, TakeGate
<1>3. CASE AppStep
  BY <1>2, <1>3, RunningReply, ReadingReply DEF AppStep
<1>4. QED
  BY <1>1, <1>3, ClientReply DEF Next

(* Of a request applied at its gate, approval.resolved never tells anything *)
(* but what that gate did.                                                  *)
THEOREM ResolutionsAreTrue == Spec => []ResolvedTruly
<1>1. ReplyInv => ResolvedTruly
  BY DEF ReplyInv
<1>2. QED
  BY <1>1, InitReply, NextReply, ChannelTypeCorrect, PTL DEF Spec


-----------------------------------------------------------------------------
(* The conversational operator takes the client's part *)

(* The driver does nothing a client may not do: the gate it routes is one   *)
(* it has read.                                                             *)
LEMMA DriveTakesClientSteps == TypeOK /\ [DriveNext]_allVars => [Next]_vars
<1> SUFFICES ASSUME TypeOK, [DriveNext]_allVars PROVE Next \/ UNCHANGED vars
  OBVIOUS
<1>a. CASE RouteGate
  <2>1. PICK granted \in BOOLEAN : ApplyCall(granted, client.view.token)
    BY <1>a DEF RouteGate
  <2>2. client.view.token \in Tokens
    BY <2>1 DEF TypeOK, ApplyCall, ClientStates
  <2>3. QED
    BY <2>1, <2>2 DEF Next, ClientStep
<1>1. CASE DriveStep
  BY <1>1, <1>a DEF DriveStep, Handle, TakeFrame, Closed, PressKey, DrainFrame, DrainIdle,
         Leave, Narrate, Next, ClientStep
<1>2. CASE WorkerStep
  BY <1>2 DEF WorkerStep, Next
<1>3. CASE UNCHANGED allVars
  BY <1>3 DEF allVars
<1>4. QED
  BY <1>1, <1>2, <1>3 DEF DriveNext

(* So the conversational operator has every property of the channel.        *)
THEOREM DriveImplementsChannel == DriveSpec => Spec
<1>1. DriveInit => Init /\ TypeOK
  BY InitTyped DEF DriveInit
<1>2. TypeOK /\ [DriveNext]_allVars => [Next]_vars /\ TypeOK'
  BY DriveTakesClientSteps, NextTyped
<1>3. QED
  BY <1>1, <1>2, PTL DEF DriveSpec, Spec

(* The gates whose "applied" is still in the pipe.                          *)
InPipe == {toClient[i].token : i \in {j \in 1..Len(toClient) : toClient[j].kind = "applied"}}

(* Each of them is there once, and has applied.                             *)
FreshInv ==
  \A i \in 1..Len(toClient) : toClient[i].kind = "applied" =>
    /\ toClient[i].token \in applied
    /\ \A j \in 1..Len(toClient) :
         toClient[j].kind = "applied" /\ toClient[j].token = toClient[i].token => j = i

(* Writing a frame puts at most its own gate among them.                    *)
LEMMA FreshWrites ==
  ASSUME TypeOK, FreshInv, NEW f \in Frames, Write(f), applied \subseteq applied',
         f.kind = "applied" => f.token \in applied' \ applied
  PROVE  /\ FreshInv'
         /\ InPipe' = InPipe \cup (IF f.kind = "applied" THEN {f.token} ELSE {})
<1>1. toClient \in Seq(Frames) /\ toClient' = Append(toClient, f)
  BY DEF TypeOK, Write
<1>2. /\ Len(toClient) \in Nat /\ Len(toClient') = Len(toClient) + 1
      /\ toClient'[Len(toClient')] = f
      /\ \A i \in 1..Len(toClient) : toClient'[i] = toClient[i]
  BY <1>1, AppendProperties
<1>3. 1..Len(toClient') = 1..Len(toClient) \cup {Len(toClient')}
  BY <1>2
<1>4. FreshInv'
  BY <1>2, <1>3 DEF FreshInv
<1>5. ASSUME NEW t
      PROVE  t \in InPipe' <=> t \in InPipe \/ (f.kind = "applied" /\ t = f.token)
  BY <1>2, <1>3 DEF InPipe
<1>6. QED
  BY <1>4, <1>5

(* A pipe left alone holds the same ones.                                   *)
LEMMA FreshQuiet ==
  ASSUME FreshInv, UNCHANGED toClient, applied \subseteq applied'
  PROVE  FreshInv' /\ InPipe' = InPipe
BY DEF FreshInv, InPipe

(* Taking a frame takes at most its own gate from among them.               *)
LEMMA FreshTaken ==
  ASSUME TypeOK, FreshInv, Receive \/ Drain
  PROVE  LET f == Head(toClient) IN
           /\ FreshInv'
           /\ f.kind = "applied" => f.token \in InPipe /\ InPipe' = InPipe \ {f.token}
           /\ f.kind # "applied" => InPipe' = InPipe
<1> DEFINE f == Head(toClient)
<1>1. toClient \in Seq(Frames) /\ toClient # <<>> /\ toClient' = Tail(toClient)
  BY DEF TypeOK, Receive, Drain
<1>2. /\ Len(toClient) \in Nat \ {0} /\ Len(toClient') = Len(toClient) - 1
      /\ \A i \in 1..Len(toClient') : toClient'[i] = toClient[i + 1]
      /\ f = toClient[1]
  BY <1>1, HeadTailProperties
<1>3. UNCHANGED applied
  BY DEF Receive, Drain, appVars
<1>4. \A i \in 1..Len(toClient') : i + 1 \in 1..Len(toClient) /\ i + 1 # 1
  BY <1>2
<1>5. \A i \in 1..Len(toClient) : i = 1 \/ (i - 1 \in 1..Len(toClient') /\ (i - 1) + 1 = i)
  BY <1>2
<1>6. FreshInv'
  <2> SUFFICES ASSUME NEW i \in 1..Len(toClient'), toClient'[i].kind = "applied"
               PROVE  /\ toClient'[i].token \in applied'
                      /\ \A j \in 1..Len(toClient') :
                           toClient'[j].kind = "applied" /\ toClient'[j].token = toClient'[i].token
                             => j = i
    BY DEF FreshInv
  <2>1. i + 1 \in 1..Len(toClient) /\ toClient'[i] = toClient[i + 1]
    BY <1>2, <1>4
  <2>2. ASSUME NEW j \in 1..Len(toClient'), toClient'[j].kind = "applied",
               toClient'[j].token = toClient'[i].token
        PROVE  j = i
    <3>1. j + 1 \in 1..Len(toClient) /\ toClient'[j] = toClient[j + 1]
      BY <1>2, <1>4
    <3>2. j + 1 = i + 1
      BY <2>1, <2>2, <3>1 DEF FreshInv
    <3>3. QED
      BY <3>2
  <2>3. QED
    BY <1>3, <2>1, <2>2 DEF FreshInv
<1>7. ASSUME NEW t
      PROVE  t \in InPipe' <=> t \in InPipe /\ ~(f.kind = "applied" /\ t = f.token)
  <2>1. ASSUME t \in InPipe' PROVE t \in InPipe /\ ~(f.kind = "applied" /\ t = f.token)
    <3>1. PICK i \in 1..Len(toClient') : toClient'[i].kind = "applied" /\ toClient'[i].token = t
      BY <2>1 DEF InPipe
    <3>2. i + 1 \in 1..Len(toClient) /\ toClient'[i] = toClient[i + 1] /\ i + 1 # 1
      BY <1>2, <1>4
    <3>3. t \in InPipe
      BY <3>1, <3>2 DEF InPipe
    <3>4. ASSUME f.kind = "applied", t = f.token PROVE FALSE
      BY <1>2, <3>1, <3>2, <3>4 DEF FreshInv
    <3>5. QED
      BY <3>3, <3>4
  <2>2. ASSUME t \in InPipe, ~(f.kind = "applied" /\ t = f.token) PROVE t \in InPipe'
    <3>1. PICK i \in 1..Len(toClient) : toClient[i].kind = "applied" /\ toClient[i].token = t
      BY <2>2 DEF InPipe
    <3>2. i # 1
      BY <1>2, <2>2, <3>1
    <3>3. i - 1 \in 1..Len(toClient') /\ toClient'[i - 1] = toClient[i]
      BY <1>2, <1>5, <3>2
    <3>4. QED
      BY <3>1, <3>3 DEF InPipe
  <2>3. QED
    BY <2>1, <2>2
<1>8. f.kind = "applied" => f.token \in InPipe
  <2>1. 1 \in 1..Len(toClient)
    BY <1>2
  <2>2. QED
    BY <1>2, <2>1 DEF InPipe
<1>9. QED
  BY <1>6, <1>7, <1>8

(* The only gate that may still apply, or whose "applied" may still be in   *)
(* the pipe, is h: any other apply message comes too late for its gate.     *)
Hot(h) ==
  /\ \A i \in 1..Len(toApp) :
       toApp[i].kind = "apply" => toApp[i].token \in applied \cup declined \cup {h}
  /\ InPipe \subseteq {h}

(* The gate whose outcome the driver waits for; or, once that wait has been *)
(* cut off, the gate it waited for; or none (0 is no gate's token).         *)
HotInv ==
  IF step = "outcome" THEN Hot(client.token)
  ELSE IF lost THEN \E h \in Tokens : Hot(h)
  ELSE Hot(0)

(* The driver's own order of things.                                        *)
StepInv ==
  /\ {frames, told} \subseteq Nat /\ lost \in BOOLEAN
  /\ step = "outcome" => client.pc = "wait" /\ client.token \in Tokens /\ client.prompt
  /\ lost => step \in {"leave", "done"}
  /\ step = "gate" => frames > 0 /\ client.view.kind = "gate"
  /\ step = "idle" => frames = 0
  /\ frames = 0 => approved = {}
  /\ step = "done" /\ reply # "drove" => frames = 0

(* What has been collected is what has applied and left the pipe.           *)
TallyInv == told = Cardinality(applied \ InPipe)

(* What the worker does, as long as no policy decides in it: it applies a   *)
(* gate not yet decided, of which an apply message was in the pipe, or      *)
(* nothing.                                                                 *)
LEMMA WorkerEffect ==
  ASSUME TypeOK, GateInv, gateMode # "policy", AppStep
  PROVE  /\ UNCHANGED <<client, approved>>
         /\ UNCHANGED toApp \/ \E m \in Messages : Read(m)
         /\ \/ /\ applied' = applied /\ declined \subseteq declined'
               /\ UNCHANGED toClient \/ \E f \in Frames : Write(f) /\ f.kind # "applied"
            \/ \E t \in Tokens :
                 /\ t \notin applied \cup declined /\ applied' = applied \cup {t}
                 /\ declined' = declined /\ Write(GateFrame("applied", t))
                 /\ \E i \in 1..Len(toApp) : toApp[i].kind = "apply" /\ toApp[i].token = t
<1>1. ~PolicyDecides
  BY DEF GateInv, AtGateInv, PolicyDecides
<1>2. CASE \/ AppDraw \/ ReadKey \/ DryRunGate \/ AskInput \/ AskConfirm \/ Post
           \/ PostRaises \/ Exit \/ ShellOut
  <2>1. UNCHANGED <<toApp, client, approved, applied, declined>>
    BY <1>2 DEF AppDraw, ReadKey, DryRunGate, ReadAt, AskInput, AskConfirm, AskAt, Post, PostRaises,
           Exit, ShellOut, clientVars, grantVars
  <2>2. UNCHANGED toClient \/ \E f \in Frames : Write(f) /\ f.kind # "applied"
    BY <1>2, Vocabulary
       DEF FrameKinds, GateKinds, Frame, Screen, AppDraw, ReadKey, DryRunGate, ReadAt, AskInput,
           AskConfirm, AskAt, Post, PostRaises, Exit, ShellOut
  <2>3. QED
    BY <2>1, <2>2
<1>3. ASSUME NEW c \in Capabilities, OfferGate(c)
      PROVE  /\ UNCHANGED <<toApp, client, approved, applied, declined>>
             /\ \E f \in Frames : Write(f) /\ f.kind # "applied"
  <2> DEFINE t == Len(gateCap) + 1
  <2>1. t \in Tokens
    BY <1>3, BoundsAssumption DEF TypeOK, OfferGate, Tokens
  <2>2. GateFrame("gate", t) \in Frames /\ GateFrame("gate", t).kind # "applied"
    BY <2>1, Vocabulary DEF GateKinds, GateFrame
  <2>3. QED
    BY <1>3, <2>2 DEF OfferGate, clientVars, grantVars
<1>4. ASSUME NEW m \in Messages,
             TakeKey(m) \/ TakeOther(m) \/ TakeDryGate(m) \/ TakeInput(m) \/ TakeConfirm(m)
      PROVE  /\ UNCHANGED <<client, approved, applied, declined>> /\ Read(m)
             /\ UNCHANGED toClient \/ \E f \in Frames : Write(f) /\ f.kind # "applied"
  <2>1. \A k \in {"screen", "error", "dryRun"} : Frame(k) \in Frames /\ Frame(k).kind # "applied"
    BY Vocabulary DEF FrameKinds, GateKinds, Frame
  <2>2. QED
    BY <1>4, <2>1
       DEF TakeKey, TakeOther, TakeDryGate, TakeInput, TakeConfirm, Answered, Unanswered, Screen,
           clientVars, grantVars
<1>5. ASSUME NEW m \in Messages, TakeGate(m)
      PROVE  /\ UNCHANGED <<client, approved>> /\ Read(m)
             /\ \/ /\ applied' = applied /\ declined \subseteq declined'
                   /\ \E f \in Frames : Write(f) /\ f.kind # "applied"
                \/ /\ m.kind = "apply" /\ m.token = app.token
                   /\ applied' = applied \cup {app.token} /\ declined' = declined
                   /\ Write(GateFrame("applied", app.token))
  <2>1. app.token \in Tokens
    BY <1>5 DEF TypeOK, AppStates, TakeGate
  <2>2. GateFrame("declined", app.token) \in Frames /\ GateFrame("declined", app.token).kind # "applied"
    BY <2>1, Vocabulary DEF GateKinds, GateFrame
  <2>3. QED
    BY <1>5, <2>2 DEF TakeGate, Applies, Declines, Answered, clientVars, grantVars
<1>6. ASSUME NEW m \in Messages, TakeGate(m), m.kind = "apply", m.token = app.token
      PROVE  /\ app.token \in Tokens \ (applied \cup declined)
             /\ \E i \in 1..Len(toApp) : toApp[i].kind = "apply" /\ toApp[i].token = app.token
  <2>1. app.token \in Tokens /\ app.token \notin applied \cup declined
    BY <1>6 DEF TypeOK, AppStates, TakeGate, GateInv, AtGateInv
  <2>2. toApp # <<>> /\ m = Head(toApp) /\ toApp \in Seq(Messages)
    BY <1>6 DEF TakeGate, Read, EndOfInput, TypeOK
  <2>3. 1 \in 1..Len(toApp) /\ toApp[1] = m
    BY <2>2
  <2>4. QED
    BY <1>6, <2>1, <2>3
<1>7. QED
  BY <1>1, <1>2, <1>3, <1>4, <1>5, <1>6 DEF AppStep


(* A worker that goes on keeps at most that one gate open.                  *)
LEMMA HotShrinks ==
  ASSUME TypeOK, NEW h, Hot(h), UNCHANGED toApp \/ \E m \in Messages : Read(m),
         applied \cup declined \subseteq applied' \cup declined', InPipe' \subseteq {h}
  PROVE  Hot(h)'
<1>1. toApp \in Seq(Messages)
  BY DEF TypeOK
<1>2. CASE toApp' = toApp
  BY <1>2 DEF Hot
<1>3. CASE toApp # <<>> /\ toApp' = Tail(toApp)
  <2>1. ASSUME NEW i \in 1..Len(toApp') PROVE i + 1 \in 1..Len(toApp) /\ toApp'[i] = toApp[i + 1]
    BY <1>1, <1>3, HeadTailProperties
  <2>2. QED
    BY <2>1 DEF Hot
<1>4. QED
  BY <1>2, <1>3 DEF Read

(* A call opens no gate but its own: h is g already, or was no gate's.      *)
LEMMA HotSends ==
  ASSUME TypeOK, GateInv, NEW h, NEW g, Hot(h), NEW m \in Messages, Send(m),
         UNCHANGED <<applied, declined, toClient>>, h = g \/ h = 0,
         m.kind = "apply" => m.token = g
  PROVE  Hot(g)'
<1>1. toApp \in Seq(Messages) /\ 0 \notin Tokens
  BY BoundsAssumption DEF TypeOK, Tokens
<1>2. InPipe' = InPipe
  BY DEF InPipe
<1>3. \A t \in InPipe : t \in Tokens
  BY <1>1 DEF InPipe, TypeOK, Frames, GateKinds
<1>4. InPipe' \subseteq {g}
  BY <1>1, <1>2, <1>3 DEF Hot
<1>5. \A i \in 1..Len(toApp) :
        toApp[i].kind = "apply" => toApp[i].token \in applied \cup declined \cup {g}
  <2>1. \A i \in 1..Len(toApp) : toApp[i].kind = "apply" => toApp[i].token \in Tokens
    BY GateInvParts DEF ApplyInv, TypeOK
  <2>2. QED
    BY <1>1, <2>1 DEF Hot
<1>6. CASE toApp' = toApp
  BY <1>4, <1>5, <1>6 DEF Hot
<1>7. CASE toApp' = Append(toApp, m)
  <2>1. \A i \in 1..Len(toApp') : toApp'[i] = m \/ (i \in 1..Len(toApp) /\ toApp'[i] = toApp[i])
    BY <1>1, <1>7, AppendProperties
  <2>2. QED
    BY <1>4, <1>5, <2>1 DEF Hot
<1>8. QED
  BY <1>6, <1>7 DEF Send

(* All that the narration rests on.                                         *)
TaleInv == FreshInv /\ HotInv /\ StepInv /\ TallyInv

(* Before the conversation there is nothing to tell.                        *)
LEMMA InitTale == DriveInit => TaleInv
<1> SUFFICES ASSUME DriveInit PROVE TaleInv
  OBVIOUS
<1>1. InPipe = {} /\ FreshInv /\ Hot(0)
  BY DEF DriveInit, Init, InPipe, FreshInv, Hot
<1>2. TallyInv
  BY <1>1, FS_EmptySet DEF TallyInv, DriveInit, Init
<1>3. step = "idle" /\ lost \in BOOLEAN /\ ~lost /\ frames = 0 /\ told = 0 /\ approved = {}
  BY DEF DriveInit, Init
<1>4. HotInv
  BY <1>1, <1>3 DEF HotInv
<1>5. StepInv
  BY <1>3 DEF StepInv
<1>6. QED
  BY <1>1, <1>2, <1>4, <1>5 DEF TaleInv

(* The worker, or its end: nothing is collected.                            *)
LEMMA WorkerTale ==
  ASSUME TypeOK, GateInv, TaleInv, gateMode # "policy", AppStep, UNCHANGED driveVars,
         step # "idle", reply = "none"
  PROVE  TaleInv'
<1>1. /\ UNCHANGED <<client, approved>>
      /\ UNCHANGED toApp \/ \E m \in Messages : Read(m)
  BY WorkerEffect
<1>2. StepInv'
  BY <1>1 DEF TaleInv, StepInv, driveVars
<1>3. CASE /\ applied' = applied /\ declined \subseteq declined'
           /\ UNCHANGED toClient \/ \E f \in Frames : Write(f) /\ f.kind # "applied"
  <2>1. FreshInv' /\ InPipe' = InPipe
    <3>1. CASE UNCHANGED toClient
      BY <1>3, <3>1, FreshQuiet DEF TaleInv
    <3>2. CASE \E f \in Frames : Write(f) /\ f.kind # "applied"
      BY <1>3, <3>2, FreshWrites DEF TaleInv
    <3>3. QED
      BY <1>3, <3>1, <3>2
  <2>2. ASSUME NEW h, Hot(h) PROVE Hot(h)'
    <3>1. InPipe' \subseteq {h}
      BY <2>1, <2>2 DEF Hot
    <3>2. QED
      BY <1>1, <1>3, <2>2, <3>1, HotShrinks
  <2>3. HotInv'
    BY <1>1, <2>2 DEF TaleInv, HotInv, driveVars
  <2>4. TallyInv'
    BY <1>3, <2>1 DEF TaleInv, TallyInv, driveVars
  <2>5. QED
    BY <1>2, <2>1, <2>3, <2>4 DEF TaleInv
<1>4. ASSUME NEW t \in Tokens, t \notin applied \cup declined, applied' = applied \cup {t},
             declined' = declined, Write(GateFrame("applied", t)),
             \E i \in 1..Len(toApp) : toApp[i].kind = "apply" /\ toApp[i].token = t
      PROVE  TaleInv'
  <2>1. GateFrame("applied", t) \in Frames /\ GateFrame("applied", t).token = t
        /\ GateFrame("applied", t).kind = "applied"
    BY <1>4, Vocabulary DEF GateKinds, GateFrame
  <2>2. FreshInv' /\ InPipe' = InPipe \cup {t}
    BY <1>4, <2>1, FreshWrites DEF TaleInv
  <2>3. ASSUME NEW h, Hot(h) PROVE Hot(h)'
    <3>1. h = t
      BY <1>4, <2>3 DEF Hot
    <3>2. InPipe' \subseteq {h}
      BY <2>2, <2>3, <3>1 DEF Hot
    <3>3. QED
      BY <1>1, <1>4, <2>3, <3>2, HotShrinks
  <2>4. HotInv'
    BY <1>1, <2>3 DEF TaleInv, HotInv, driveVars
  <2>5. applied' \ InPipe' = applied \ InPipe
    BY <1>4, <2>2
  <2>6. TallyInv'
    BY <2>5 DEF TaleInv, TallyInv, driveVars
  <2>7. QED
    BY <1>2, <2>2, <2>4, <2>6 DEF TaleInv
<1>5. QED
  BY <1>3, <1>4, WorkerEffect

(* A step that leaves both pipes and the gates' decisions alone.            *)
LEMMA StillTale ==
  ASSUME FreshInv, TallyInv, UNCHANGED <<toApp, toClient, applied, declined, told>>
  PROVE  FreshInv' /\ TallyInv' /\ \A h : Hot(h) => Hot(h)'
<1>1. FreshInv' /\ InPipe' = InPipe
  BY FreshQuiet
<1>2. QED
  BY <1>1 DEF TallyInv, Hot

(* The driver sends what is not an apply.                                   *)
LEMMA SaysTale ==
  ASSUME TypeOK, GateInv, TaleInv, NEW m \in Messages, Send(m), m.kind # "apply",
         UNCHANGED <<toClient, applied, declined, told>>
  PROVE  FreshInv' /\ TallyInv' /\ \A h : Hot(h) => Hot(h)'
<1>1. FreshInv' /\ InPipe' = InPipe
  BY FreshQuiet DEF TaleInv
<1>2. ASSUME NEW h, Hot(h) PROVE Hot(h)'
  BY <1>2, HotSends
<1>3. QED
  BY <1>1, <1>2 DEF TaleInv, TallyInv


(* A frame is collected that is no "applied".                               *)
LEMMA CollectsOther ==
  ASSUME TypeOK, GateInv, TaleInv, Receive \/ Drain, Collect(client'.view), ~lost,
         step # "outcome"
  PROVE  FreshInv' /\ TallyInv' /\ Hot(0)'
<1> DEFINE f == Head(toClient)
<1>1. client'.view = f /\ f \in Frames
  BY Taking DEF TypeOK, Receive, Drain
<1>2. UNCHANGED <<toApp, applied, declined>>
  BY DEF Receive, Drain, appVars
<1>3. Hot(0) /\ 0 \notin Tokens
  BY BoundsAssumption DEF TaleInv, HotInv, StepInv, Tokens
<1>4. f.kind # "applied"
  <2>1. f.kind = "applied" => f.token \in InPipe /\ f.token \in Tokens
    BY <1>1, FreshTaken DEF TaleInv, Frames, GateKinds
  <2>2. QED
    BY <1>3, <2>1 DEF Hot
<1>5. FreshInv' /\ InPipe' = InPipe
  BY <1>4, FreshTaken DEF TaleInv
<1>6. told' = told
  BY <1>1, <1>4 DEF Collect
<1>7. QED
  BY <1>2, <1>3, <1>5, <1>6 DEF TaleInv, TallyInv, Hot

(* The outcome of the gate the driver waits for is collected: it is told of *)
(* if it is an "applied", and the gate is decided either way.               *)
LEMMA CollectsOutcome ==
  ASSUME TypeOK, GateInv, ReplyInv, TaleInv, Receive, Collect(client'.view), step = "outcome"
  PROVE  FreshInv' /\ TallyInv' /\ Hot(0)'
<1> DEFINE f == Head(toClient)
           t == client.token
<1>1. client'.view = f /\ f \in Frames /\ toClient # <<>>
  BY DEF TypeOK, Receive
<1>2. UNCHANGED <<toApp, applied, declined>>
  BY DEF Receive, appVars
<1>3. Hot(t) /\ client.pc = "wait" /\ t \in Tokens /\ t # 0 /\ client.prompt
  BY BoundsAssumption DEF TaleInv, HotInv, StepInv, Tokens
<1>4. Decides(f, t)
  BY <1>1, <1>3 DEF ReplyInv, CallInv, FirstDecides
<1>5. \A i \in 1..Len(toApp) :
        toApp[i].kind = "apply" => toApp[i].token \in applied \cup declined
  BY <1>3, <1>4 DEF Hot, Decides
<1>6. CASE f.kind = "applied"
  <2>1. FreshInv' /\ t \in InPipe /\ InPipe' = InPipe \ {t} /\ t \in applied
    BY <1>4, <1>6, FreshTaken DEF TaleInv, Decides
  <2>2. InPipe = {t} /\ InPipe' = {}
    BY <1>3, <2>1 DEF Hot
  <2>3. Hot(0)'
    BY <1>2, <1>5, <2>2 DEF Hot
  <2>4. told' = told + 1
    BY <1>1, <1>6 DEF Collect
  <2>5. Cardinality((applied \ {t}) \cup {t}) = Cardinality(applied \ {t}) + 1
    <3>1. IsFiniteSet(applied \ {t})
      BY TokensFinite, FS_Subset DEF TypeOK
    <3>2. t \notin applied \ {t}
      OBVIOUS
    <3>3. QED
      BY <3>1, <3>2, FS_AddElement
  <2>6. (applied \ {t}) \cup {t} = applied' \ InPipe' /\ applied \ {t} = applied \ InPipe
    BY <1>2, <2>1, <2>2
  <2>7. TallyInv'
    BY <2>4, <2>5, <2>6 DEF TaleInv, TallyInv
  <2>8. QED
    BY <2>1, <2>3, <2>7
<1>7. CASE f.kind = "declined"
  <2>1. FreshInv' /\ InPipe' = InPipe
    BY <1>7, FreshTaken DEF TaleInv
  <2>2. t \notin applied
    BY <1>4, <1>7, GateInvParts DEF Decides, HistoryInv, PostedOnlyIfApproved
  <2>3. InPipe = {}
    BY <1>3, <2>2 DEF Hot, InPipe, TaleInv, FreshInv
  <2>4. Hot(0)'
    BY <1>2, <1>5, <2>1, <2>3 DEF Hot
  <2>5. told' = told
    BY <1>1, <1>7 DEF Collect
  <2>6. QED
    BY <1>2, <2>1, <2>4, <2>5 DEF TaleInv, TallyInv
<1>8. QED
  BY <1>4, <1>6, <1>7 DEF Decides

(* A call returns a frame, which is collected.                              *)
LEMMA FrameTale ==
  ASSUME TypeOK, GateInv, ReplyInv, TaleInv, TakeFrame
  PROVE  TaleInv'
<1>1. ~lost /\ lost' = lost /\ step' \notin {"outcome", "idle", "done"}
  BY DEF TaleInv, StepInv, TakeFrame, Collect
<1>2. FreshInv' /\ TallyInv' /\ Hot(0)'
  BY <1>1, CollectsOther, CollectsOutcome DEF TakeFrame
<1>3. HotInv'
  BY <1>1, <1>2 DEF HotInv
<1>4. StepInv'
  <2>1. frames' = frames + 1 /\ told' \in {told, told + 1} /\ frames \in Nat /\ told \in Nat
    BY DEF TakeFrame, Collect, TaleInv, StepInv
  <2>2. step' = "gate" => client'.view.kind = "gate"
    BY DEF TakeFrame
  <2>3. QED
    BY <1>1, <2>1, <2>2 DEF StepInv, TaleInv
<1>5. QED
  BY <1>2, <1>3, <1>4 DEF TaleInv

(* A frame nobody called for is collected.                                  *)
LEMMA DrainTale ==
  ASSUME TypeOK, GateInv, TaleInv, DrainFrame
  PROVE  TaleInv'
<1>1. step = "drain" /\ ~lost /\ lost' = lost /\ step' = step
  BY DEF TaleInv, StepInv, DrainFrame, Collect
<1>2. FreshInv' /\ TallyInv' /\ Hot(0)'
  BY <1>1, CollectsOther DEF DrainFrame
<1>3. HotInv'
  BY <1>1, <1>2 DEF HotInv
<1>4. StepInv'
  <2>1. frames' = frames + 1 /\ told' \in {told, told + 1} /\ frames \in Nat /\ told \in Nat
    BY DEF DrainFrame, Collect, TaleInv, StepInv
  <2>2. QED
    BY <1>1, <2>1 DEF StepInv, TaleInv
<1>5. QED
  BY <1>2, <1>3, <1>4 DEF TaleInv

(* A gate is put to the approver: its message opens it.                     *)
LEMMA RouteTale ==
  ASSUME TypeOK, GateInv, TaleInv, RouteGate
  PROVE  TaleInv'
<1> DEFINE t == client.view.token
<1>1. PICK granted \in BOOLEAN : ApplyCall(granted, t)
  BY DEF RouteGate
<1>2. t \in Tokens /\ client'.pc = "wait" /\ client'.token = t /\ client'.prompt
  <2>1. client.view.kind = "gate"
    BY DEF RouteGate, TaleInv, StepInv
  <2>2. QED
    BY <1>1, <2>1 DEF TypeOK, ApplyCall, OnView, ClientStates
<1>3. UNCHANGED <<toClient, applied, declined, told, frames, lost>> /\ step' = "outcome"
  BY <1>1 DEF ApplyCall, appVars, RouteGate
<1>4. \E m \in Messages : Send(m) /\ (m.kind = "apply" => m.token = t)
  <2>1. /\ ApplyMessage(t) \in Messages /\ ApplyMessage(t).token = t
        /\ Message("refuse") \in Messages /\ Message("refuse").kind = "refuse"
    BY <1>2, Vocabulary DEF MessageKinds, ApplyMessage, Message
  <2>2. QED
    BY <1>1, <2>1 DEF ApplyCall
<1>5. Hot(0) /\ step = "gate" /\ ~lost /\ frames > 0
  BY DEF RouteGate, TaleInv, HotInv, StepInv
<1>6. ASSUME NEW g, g = t PROVE Hot(g)'
  BY <1>3, <1>4, <1>5, <1>6, HotSends
<1>7. HotInv'
  <2>1. PICK g : g = t
    OBVIOUS
  <2>2. client'.token = g /\ Hot(g)'
    BY <1>2, <1>6, <2>1
  <2>3. QED
    BY <1>3, <2>2 DEF HotInv, Hot, InPipe
<1>8. FreshInv' /\ InPipe' = InPipe
  BY <1>3, FreshQuiet DEF TaleInv
<1>9. TallyInv' /\ StepInv'
  BY <1>2, <1>3, <1>5, <1>8 DEF TaleInv, TallyInv, StepInv
<1>10. QED
  BY <1>7, <1>8, <1>9 DEF TaleInv

(* The drive is cut off: by a wait that is closed, or a send that breaks.   *)
LEMMA ClosedTale ==
  ASSUME TypeOK, TaleInv, Closed
  PROVE  TaleInv'
<1>1. UNCHANGED <<toApp, toClient, applied, declined, approved, told, frames>> /\ step' = "leave"
  BY DEF Closed, SendBreaks, CloseWait, appVars, grantVars
<1>2. FreshInv' /\ TallyInv' /\ \A h : Hot(h) => Hot(h)'
  BY <1>1, StillTale DEF TaleInv
<1>3. lost' = (step = "outcome") /\ ~lost
  BY DEF Closed, TaleInv, StepInv
<1>4. HotInv'
  <2>1. CASE step = "outcome"
    <3>1. \E h \in Tokens : Hot(h)
      BY <2>1 DEF TaleInv, HotInv, StepInv
    <3>2. \E h \in Tokens : Hot(h)'
      BY <1>2, <3>1 DEF Tokens
    <3>3. QED
      BY <1>1, <1>3, <2>1, <3>2 DEF HotInv
  <2>2. CASE step # "outcome"
    BY <1>1, <1>2, <1>3, <2>2 DEF TaleInv, HotInv
  <2>3. QED
    BY <2>1, <2>2
<1>5. StepInv'
  BY <1>1, <1>3 DEF TaleInv, StepInv
<1>6. QED
  BY <1>2, <1>4, <1>5 DEF TaleInv

(* Where nothing is collected, decided or lost, it is enough that the step  *)
(* stays within its order.                                                  *)
LEMMA OrderTale ==
  ASSUME TaleInv, FreshInv', TallyInv', \A h : Hot(h) => Hot(h)',
         UNCHANGED <<frames, told, lost, approved>>,
         {step, step'} \cap {"outcome"} = {}, lost => step' \in {"leave", "done"},
         step' \notin {"gate", "idle"}, step' = "done" /\ reply' # "drove" => frames = 0
  PROVE  TaleInv'
<1>1. HotInv'
  <2>1. CASE lost
    BY <2>1 DEF TaleInv, HotInv, Tokens
  <2>2. CASE ~lost
    BY <2>2 DEF TaleInv, HotInv
  <2>3. QED
    BY <2>1, <2>2
<1>2. StepInv'
  BY DEF TaleInv, StepInv
<1>3. QED
  BY <1>1, <1>2 DEF TaleInv

(* The drive stops draining, or ends.                                       *)
LEMMA QuietTale ==
  ASSUME TypeOK, TaleInv, DrainIdle \/ Narrate
  PROVE  TaleInv'
<1>1. UNCHANGED <<toApp, toClient, applied, declined, approved, told, frames, lost>>
  BY DEF DrainIdle, Narrate, vars, appVars, grantVars
<1>2. FreshInv' /\ TallyInv' /\ \A h : Hot(h) => Hot(h)'
  BY <1>1, StillTale DEF TaleInv
<1>3. CASE DrainIdle
  BY <1>1, <1>2, <1>3, OrderTale DEF DrainIdle, TaleInv, StepInv
<1>4. CASE Narrate
  BY <1>1, <1>2, <1>4, OrderTale DEF Narrate
<1>5. QED
  BY <1>3, <1>4

(* A message is taken for a command, or is not.                             *)
LEMMA HandleTale ==
  ASSUME TaleInv, NEW operator \in BOOLEAN, NEW command \in BOOLEAN, NEW drivable \in BOOLEAN,
         Handle(operator, command, drivable)
  PROVE  TaleInv'
<1>1. UNCHANGED <<toApp, toClient, applied, declined, approved, told, frames, lost>>
  BY DEF Handle, vars, appVars, grantVars
<1>2. FreshInv' /\ TallyInv' /\ \A h : Hot(h) => Hot(h)'
  BY <1>1, StillTale DEF TaleInv
<1>3. step = "idle" /\ ~lost /\ frames = 0 /\ step' \in {"home", "done"}
  BY DEF Handle, TaleInv, StepInv
<1>4. QED
  BY <1>1, <1>2, <1>3, OrderTale

(* A key is pressed, or the driver quits.                                   *)
LEMMA SayTale ==
  ASSUME TypeOK, GateInv, TaleInv, PressKey \/ Leave
  PROVE  TaleInv'
<1>1. UNCHANGED <<toClient, applied, declined, approved, told, frames, lost>>
  BY DEF PressKey, Press, Call, Leave, Quit, appVars, grantVars
<1>2. \E m \in Messages : Send(m) /\ m.kind # "apply"
  <2>1. \A k \in {"key", "quit"} : Message(k) \in Messages /\ Message(k).kind = k
    BY Vocabulary DEF MessageKinds, Message
  <2>2. QED
    BY <2>1 DEF PressKey, Press, Call, Leave, Quit
<1>3. FreshInv' /\ TallyInv' /\ \A h : Hot(h) => Hot(h)'
  BY <1>1, <1>2, SaysTale
<1>4. {step, step'} \cap {"outcome", "gate", "idle"} = {} /\ step' # "done"
      /\ (lost => step' = "leave")
  BY DEF PressKey, Leave, TaleInv, StepInv
<1>5. QED
  BY <1>1, <1>3, <1>4, OrderTale

(* The child that has not left is killed: what it did is not undone.        *)
LEMMA KillTale ==
  ASSUME TypeOK, TaleInv, Kill, UNCHANGED driveVars
  PROVE  TaleInv'
<1>1. UNCHANGED <<toApp, toClient, client, applied, declined, approved, told, frames, lost>>
  BY DEF Kill, driveVars, clientVars, grantVars
<1>2. FreshInv' /\ TallyInv' /\ \A h : Hot(h) => Hot(h)'
  BY <1>1, StillTale DEF TaleInv
<1>3. HotInv'
  BY <1>1, <1>2 DEF TaleInv, HotInv, driveVars, Tokens
<1>4. StepInv'
  BY <1>1 DEF TaleInv, StepInv, driveVars
<1>5. QED
  BY <1>2, <1>3, <1>4 DEF TaleInv

(* Every step of the conversation keeps the tally.                          *)
LEMMA NextTale ==
  ASSUME TypeOK, GateInv, ReplyInv, TaleInv, gateMode # "policy", [DriveNext]_allVars
  PROVE  TaleInv'
<1>1. CASE DriveStep
  BY <1>1, HandleTale, FrameTale, ClosedTale, SayTale, RouteTale, DrainTale, QuietTale, KillTale
     DEF DriveStep
<1>2. CASE WorkerStep
  BY <1>2, WorkerTale DEF WorkerStep
<1>3. CASE UNCHANGED allVars
  <2>1. UNCHANGED <<toApp, toClient, client, applied, declined, approved, told, frames, lost, step, reply>>
    BY <1>3 DEF allVars, vars, appVars, clientVars, grantVars, driveVars
  <2>2. FreshInv' /\ TallyInv' /\ \A h : Hot(h) => Hot(h)'
    BY <2>1, StillTale DEF TaleInv
  <2>3. HotInv'
    BY <2>1, <2>2 DEF TaleInv, HotInv, Tokens
  <2>4. StepInv'
    BY <2>1 DEF TaleInv, StepInv
  <2>5. QED
    BY <2>2, <2>3, <2>4 DEF TaleInv
<1>4. QED
  BY <1>1, <1>2, <1>3 DEF DriveNext


(* The worker of a conversation leaves every gate to its driver, or only    *)
(* rehearses: the policy that decides, if any, is the approver's.           *)
DriverDecides == \A d \in Deployments : d.gate # "policy"

(* No policy decides in the worker at hand.                                 *)
PolicyAway == gateMode # "policy"

(* The deployment is chosen once: a policy does not come to the worker later. *)
LEMMA ModeFixed == DriverDecides => (Spec => []PolicyAway)
<1>1. DriverDecides /\ Init => PolicyAway
  BY DEF Init, DriverDecides, PolicyAway
<1>2. PolicyAway /\ [Next]_vars => PolicyAway'
  <2> SUFFICES ASSUME [Next]_vars PROVE gateMode' = gateMode
    BY DEF PolicyAway
  <2>1. CASE AppStep
    BY <2>1
       DEF AppStep, AppDraw, ReadKey, DryRunGate, ReadAt, AskInput, AskConfirm, AskAt, OfferGate,
           PolicyDecides, Post, PostRaises, Exit, ShellOut, TakeKey, TakeOther, TakeDryGate,
           TakeGate, TakeInput, TakeConfirm, Applies, Declines, Answered, Unanswered, clientVars,
           modeVars
  <2>2. CASE ClientStep
    BY <2>2
       DEF ClientStep, Press, Snapshot, AnswerInput, AnswerConfirm, Call, ApplyCall, SendBreaks,
           Receive, CloseWait, Drain, Quit, Kill, Vanish, clientVars, appVars, modeVars
  <2>3. CASE UNCHANGED vars
    BY <2>3 DEF vars, appVars, modeVars
  <2>4. QED
    BY <2>1, <2>2, <2>3 DEF Next
<1>3. QED
  BY <1>1, <1>2, PTL DEF Spec

(* The order of the replies holds in every run of the channel.              *)
LEMMA ReplyAlways == Spec => []ReplyInv
BY InitReply, NextReply, ChannelTypeCorrect, PTL DEF Spec

(* The tally is kept in every conversation whose worker asks its driver.    *)
LEMMA TaleAlways == DriverDecides => (DriveSpec => []TaleInv)
<1>1. TypeOK /\ GateInv /\ ReplyInv /\ PolicyAway /\ TaleInv /\ [DriveNext]_allVars => TaleInv'
  BY NextTale DEF PolicyAway
<1>2. QED
  BY <1>1, DriveImplementsChannel, ModeFixed, ReplyAlways, GateAlwaysSafe, ChannelTypeCorrect,
     InitTale, PTL DEF DriveSpec

(* The narration counts every write that was applied, and no other, except  *)
(* for one at most whose outcome was cut off with the wait for it.          *)
THEOREM NarrationAlwaysExact == DriverDecides => (DriveSpec => []NarrationExact)
<1>1. TypeOK /\ TaleInv => NarrationExact
  <2> SUFFICES ASSUME TypeOK, TaleInv, step = "done"
               PROVE  /\ told <= Cardinality(applied)
                      /\ Cardinality(applied) <= told + (IF lost THEN 1 ELSE 0)
    BY DEF NarrationExact
  <2>1. IsFiniteSet(applied) /\ Cardinality(applied) \in Nat
    <3>1. IsFiniteSet(Tokens)
      BY TokensFinite
    <3>2. QED
      BY <3>1, FS_Subset, FS_CardinalityType DEF TypeOK
  <2>2. told = Cardinality(applied \ InPipe)
    BY DEF TaleInv, TallyInv
  <2>3. CASE lost
    <3>1. PICK h \in Tokens : Hot(h)
      BY <2>3 DEF TaleInv, HotInv
    <3>2. applied \ InPipe \in {applied, applied \ {h}}
      BY <3>1 DEF Hot
    <3>3. Cardinality(applied \ {h}) \in {Cardinality(applied), Cardinality(applied) - 1}
      BY <2>1, FS_RemoveElement
    <3>4. QED
      BY <2>1, <2>2, <2>3, <3>2, <3>3
  <2>4. CASE ~lost
    <3>1. applied \cap InPipe = {}
      <4>1. Hot(0) /\ 0 \notin Tokens
        BY <2>4, BoundsAssumption DEF TaleInv, HotInv, Tokens
      <4>2. QED
        BY <4>1 DEF Hot, TypeOK
    <3>2. applied \ InPipe = applied
      BY <3>1
    <3>3. QED
      BY <2>1, <2>2, <2>4, <3>2
  <2>5. QED
    BY <2>3, <2>4
<1>2. QED
  BY <1>1, TaleAlways, DriveImplementsChannel, ChannelTypeCorrect, PTL

(* No conversation denies having driven a worker in which something was     *)
(* approved, let alone written.                                             *)
THEOREM DenialsAreTrue == DriverDecides => (DriveSpec => []DenialIsTrue)
<1>1. GateInv /\ TaleInv => DenialIsTrue
  BY DEF GateInv, PostedOnlyIfApproved, TaleInv, StepInv, DenialIsTrue
<1>2. QED
  BY <1>1, TaleAlways, DriveImplementsChannel, GateAlwaysSafe, PTL
=============================================================================
