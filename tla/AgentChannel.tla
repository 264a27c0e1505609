----------------------------- MODULE AgentChannel -----------------------------
(***************************************************************************)
(* The agent channel: a cockpit served over stdin/stdout (agent.py,        *)
(* serve_stdio), the client that drives it (agent.py, CockpitClient;       *)
(* approval_delivery.py) and the write gate at the end of a walk (walk.py, *)
(* confirm_apply).  The two processes share only the pipes: toApp holds    *)
(* the messages the app has not read, toClient the frames the client has   *)
(* not (the pipe and the queue behind its reader thread are one FIFO).     *)
(*                                                                         *)
(* What a screen shows is left out: a frame is its kind, and the token of  *)
(* the gate it speaks of.  What a walk does between two reads is the       *)
(* worker's: it may draw, ask, open a gate, read a key or end, in any      *)
(* order that keeps run_walk's shape (a screen is drawn after a prompt is  *)
(* answered or a gate decided, before a key is read).                      *)
(***************************************************************************)
EXTENDS Naturals, Sequences, FiniteSets

CONSTANTS
  Deployments,  \* [gate, approver]: how the app may be served, and driven
  Capabilities, \* [listed, money]: what an AllowlistPolicy looks at
  MaxApplies,   \* AllowlistPolicy.max_applies
  MaxGates,     \* how many gates are reached (bound)
  MaxDraws,     \* how many screens and prompts the app writes (bound)
  MaxCalls      \* how many calls the client makes (bound)

Tokens == 1..MaxGates   \* gate-1, gate-2, ...: walk.py's counter

FrameKinds ==
  {"screen", "gate", "applied", "declined", "dryRun", "input?", "confirm?", "error"}
GateKinds == {"gate", "applied", "declined"}
Frames == {f \in [kind : FrameKinds, token : 0..MaxGates] :
             f.kind \in GateKinds => f.token \in Tokens}

MessageKinds == {"key", "snapshot", "apply", "refuse", "input", "confirm", "quit"}
Messages == [kind : MessageKinds \cup {"eof"}, token : 0..MaxGates]

Frame(kind) == [kind |-> kind, token |-> 0]
GateFrame(kind, t) == [kind |-> kind, token |-> t]
Screen == Frame("screen")
Message(kind) == [kind |-> kind, token |-> 0]
ApplyMessage(t) == [kind |-> "apply", token |-> t]
EndOfInput == [kind |-> "eof", token |-> 0]

(* serve_stdio's default, allow_apply, or an AllowlistPolicy of its own.   *)
GateModes == {"dryRun", "handshake", "policy"}

(* approve() at the client decides freely, or is an AllowlistPolicy.       *)
Approvers == {"human", "policy"}

ASSUME DeploymentsAssumption ==
  Deployments \subseteq [gate : GateModes, approver : Approvers]
ASSUME CapabilitiesAssumption ==
  Capabilities \subseteq [listed : BOOLEAN, money : {"no", "yes", "unknown"}]
ASSUME BoundsAssumption == {MaxApplies, MaxGates, MaxDraws, MaxCalls} \subseteq Nat

VARIABLES
  gateMode, approver,  \* the deployment: neither side changes it
  toApp,     \* messages written and not read
  toClient,  \* frames written and not read
  app,       \* what the app is doing: see AppStates
  gateCap,   \* the capability each gate was reached in, a sequence over tokens
  draws,     \* screens and prompts written so far
  client,    \* what the client is doing: see ClientStates
  calls,     \* calls made so far
  budget,    \* AllowlistPolicy._applied
  approved,  \* history: tokens whose write was approved
  applied, declined,  \* history: what each gate decided (the gate.* audit events)
  posted,    \* history: writes made
  resolved   \* history: approval.resolved events, <<token, outcome, prompt>>

modeVars == <<gateMode, approver>>
appVars == <<app, gateCap, draws, applied, declined, posted, modeVars>>
clientVars == <<client, calls, resolved, modeVars>>
grantVars == <<budget, approved>>
vars == <<toApp, toClient, appVars, clientVars, grantVars>>

(* pc: running, or blocked in the read it names; token: the gate at hand;  *)
(* silent: a key was dispatched and nothing drawn since (key_mark equals   *)
(* frames_written); owed: a screen is to be drawn before the next read;    *)
(* open: some key has been dispatched, and a capability may be open.       *)
AppStates ==
  {a \in [pc : {"run", "key", "dryGate", "gate", "policy", "input", "confirm", "post", "end"},
          token : 0..MaxGates, silent : BOOLEAN, owed : BOOLEAN, open : BOOLEAN] :
     a.pc \in {"gate", "policy", "post"} => a.token \in Tokens}

(* token: the gate apply() is waiting on, 0 for another call; prompt: that  *)
(* gate was on view when apply() was called; kept: the gates whose          *)
(* ApprovalRequest the client has made and may still apply.                 *)
ClientStates ==
  [pc : {"wait", "free", "closed", "quit", "gone"}, token : 0..MaxGates, prompt : BOOLEAN,
   view : Frames, kept : SUBSET Tokens]

-----------------------------------------------------------------------------
(* AllowlistPolicy *)

(* Mutant: only money known to move is refused.                            *)
PolicyAllows_MoneyUnknown(t) ==
  gateCap[t].money # "yes" /\ gateCap[t].listed /\ budget < MaxApplies

(* Money must be explicitly excluded, the key listed, the cap not reached. *)
PolicyAllows(t) ==
  /\ gateCap[t].money = "no"
  /\ gateCap[t].listed
  /\ budget < MaxApplies

(* Mutant: a grant is not counted against the cap.                         *)
PolicyGrants_Uncounted(t) ==
  PolicyAllows(t) /\ approved' = approved \cup {t} /\ UNCHANGED budget

PolicyGrants(t) ==
  /\ PolicyAllows(t)
  /\ budget' = budget + 1
  /\ approved' = approved \cup {t}

PolicyRefuses(t) == ~PolicyAllows(t) /\ UNCHANGED grantVars

-----------------------------------------------------------------------------
(* The app, running *)

Running == app.pc = "run"

Write(f) == toClient' = Append(toClient, f)

(* on_screen: a frame, and the key before it is answered. *)
AppDraw ==
  /\ Running /\ draws < MaxDraws
  /\ Write(Screen)
  /\ app' = [app EXCEPT !.silent = FALSE, !.owed = FALSE]
  /\ draws' = draws + 1
  /\ UNCHANGED <<toApp, gateCap, applied, declined, posted, clientVars, grantVars>>

(* Mutant: a key that drew nothing is left unanswered.                     *)
ReadAt_Silent(pc) ==
  /\ Running /\ ~app.owed
  /\ app' = [app EXCEPT !.pc = pc, !.silent = FALSE]
  /\ UNCHANGED <<toApp, toClient, gateCap, draws, applied, declined, posted,
                 clientVars, grantVars>>

(* read_key: a key that drew nothing is answered with the screen again.    *)
ReadAt(pc) ==
  /\ Running /\ ~app.owed
  /\ IF app.silent THEN Write(Screen) ELSE UNCHANGED toClient
  /\ app' = [app EXCEPT !.pc = pc, !.silent = FALSE]
  /\ UNCHANGED <<toApp, gateCap, draws, applied, declined, posted, clientVars, grantVars>>

ReadKey == ReadAt("key")

(* confirm_apply in a pure dry run reads one key for cadence. *)
DryRunGate == gateMode = "dryRun" /\ app.open /\ ReadAt("dryGate")

(* Mutant: every gate of the session has one token.                        *)
OfferGate_SessionToken(c) ==
  /\ Running /\ app.open /\ gateMode # "dryRun"
  /\ Len(gateCap) < MaxGates
  /\ gateCap' = Append(gateCap, c)
  /\ Write(GateFrame("gate", 1))
  /\ app' = [app EXCEPT !.pc = IF gateMode = "handshake" THEN "gate" ELSE "policy",
                        !.token = 1, !.silent = FALSE]
  /\ UNCHANGED <<toApp, draws, applied, declined, posted, clientVars, grantVars>>

(* confirm_apply with an authorizer: a token of its own, and the proposal. *)
OfferGate(c) ==
  /\ Running /\ app.open /\ gateMode # "dryRun"
  /\ Len(gateCap) < MaxGates
  /\ gateCap' = Append(gateCap, c)
  /\ Write(GateFrame("gate", Len(gateCap) + 1))
  /\ app' = [app EXCEPT !.pc = IF gateMode = "handshake" THEN "gate" ELSE "policy",
                        !.token = Len(gateCap) + 1, !.silent = FALSE]
  /\ UNCHANGED <<toApp, draws, applied, declined, posted, clientVars, grantVars>>

(* agent_input, agent_confirm: a prompt is written, and is not a draw.     *)
AskAt(pc, kind) ==
  /\ Running /\ app.open /\ draws < MaxDraws
  /\ Write(Frame(kind))
  /\ app' = [app EXCEPT !.pc = pc]
  /\ draws' = draws + 1
  /\ UNCHANGED <<toApp, gateCap, applied, declined, posted, clientVars, grantVars>>

AskInput == AskAt("input", "input?")
AskConfirm == AskAt("confirm", "confirm?")

(* The write behind an applied gate; a step that raises instead is caught  *)
(* by the shell, which owes the client a crash frame either way.           *)
Post ==
  /\ app.pc = "post"
  /\ posted' = posted \cup {app.token}
  /\ app' = [app EXCEPT !.pc = "run"]
  /\ UNCHANGED <<toApp, toClient, gateCap, draws, applied, declined, clientVars, grantVars>>

PostRaises ==
  /\ app.pc = "post"
  /\ app' = [app EXCEPT !.pc = "run"]
  /\ UNCHANGED <<toApp, toClient, gateCap, draws, applied, declined, posted,
                 clientVars, grantVars>>

(* The cockpit unwinds and the process ends; a ShellOut leaves a note.     *)
Exit ==
  /\ Running
  /\ app' = [app EXCEPT !.pc = "end"]
  /\ UNCHANGED <<toApp, toClient, gateCap, draws, applied, declined, posted,
                 clientVars, grantVars>>

ShellOut ==
  /\ Running
  /\ Write(Screen)
  /\ app' = [app EXCEPT !.pc = "end"]
  /\ UNCHANGED <<toApp, gateCap, draws, applied, declined, posted, clientVars, grantVars>>

-----------------------------------------------------------------------------
(* The app, reading *)

(* The next message, or the end of the stream once the client is gone.     *)
Read(m) ==
  \/ toApp # <<>> /\ m = Head(toApp) /\ toApp' = Tail(toApp)
  \/ toApp = <<>> /\ client.pc = "gone" /\ m = EndOfInput /\ UNCHANGED toApp

(* A read that ends with a frame, or with none.                            *)
Answered(f) ==
  /\ Write(f)
  /\ UNCHANGED <<gateCap, draws, posted, clientVars>>
Unanswered == UNCHANGED <<toClient, gateCap, draws, posted, clientVars>>

Keyed(m) == m.kind \in {"key", "quit", "eof"}

(* read_key returns: only a key message sets key_mark; quit and the end of *)
(* the stream read as "q".                                                 *)
TakeKey(m) ==
  /\ app.pc = "key" /\ Keyed(m) /\ Read(m)
  /\ app' = [app EXCEPT !.pc = "run", !.silent = (m.kind = "key"),
                        !.open = @ \/ m.kind = "key"]
  /\ Unanswered
  /\ UNCHANGED <<applied, declined, grantVars>>

(* Mutant: a message read_key does not know is skipped without a word.     *)
TakeOther_Silent(m) ==
  /\ app.pc \in {"key", "dryGate"} /\ ~Keyed(m) /\ Read(m)
  /\ IF m.kind = "snapshot" THEN Answered(Screen) ELSE Unanswered
  /\ UNCHANGED <<app, applied, declined, grantVars>>

(* read_key goes on reading: a snapshot is answered with the screen, any   *)
(* other message with an error.                                            *)
TakeOther(m) ==
  /\ app.pc \in {"key", "dryGate"} /\ ~Keyed(m) /\ Read(m)
  /\ Answered(IF m.kind = "snapshot" THEN Screen ELSE Frame("error"))
  /\ UNCHANGED <<app, applied, declined, grantVars>>

(* Mutant: the key read for cadence is taken for the answer.               *)
TakeDryGate_Answer(m) ==
  /\ app.pc = "dryGate" /\ Keyed(m) /\ Read(m)
  /\ Unanswered
  /\ app' = [app EXCEPT !.pc = "post", !.owed = TRUE]
  /\ UNCHANGED <<applied, declined, grantVars>>

(* The pure dry run declines whatever the key.                             *)
TakeDryGate(m) ==
  /\ app.pc = "dryGate" /\ Keyed(m) /\ Read(m)
  /\ Answered(Frame("dryRun"))
  /\ app' = [app EXCEPT !.pc = "run", !.owed = TRUE]
  /\ UNCHANGED <<applied, declined, grantVars>>

Applies ==
  /\ Answered(GateFrame("applied", app.token))
  /\ applied' = applied \cup {app.token}
  /\ app' = [app EXCEPT !.pc = "post", !.owed = TRUE]
  /\ UNCHANGED declined

(* Mutant: a declined gate tells the walk to go ahead.                     *)
Declines_GoesAhead ==
  /\ Answered(GateFrame("declined", app.token))
  /\ declined' = declined \cup {app.token}
  /\ app' = [app EXCEPT !.pc = "post", !.owed = TRUE]
  /\ UNCHANGED applied

Declines ==
  /\ Answered(GateFrame("declined", app.token))
  /\ declined' = declined \cup {app.token}
  /\ app' = [app EXCEPT !.pc = "run", !.owed = TRUE]
  /\ UNCHANGED applied

(* Mutants: the apply of any gate authorizes; a message that is not an     *)
(* apply is an error, and the gate reads on.                               *)
TakeGate_AnyToken(m) ==
  /\ app.pc = "gate" /\ Read(m)
  /\ IF m.kind = "apply" THEN Applies ELSE Declines
  /\ UNCHANGED grantVars

TakeGate_ReadsOn(m) ==
  /\ app.pc = "gate" /\ Read(m)
  /\ IF m.kind \in {"apply", "refuse"}
       THEN IF m.token = app.token THEN Applies ELSE Declines
       ELSE Answered(Frame("error")) /\ UNCHANGED <<app, applied, declined>>
  /\ UNCHANGED grantVars

(* authorize_apply reads one message: exactly the apply of this very gate  *)
(* authorizes, anything else declines.                                     *)
TakeGate(m) ==
  /\ app.pc = "gate" /\ Read(m)
  /\ IF m.kind = "apply" /\ m.token = app.token THEN Applies ELSE Declines
  /\ UNCHANGED grantVars

(* autonomous_authorize reads nothing: the policy decides.                 *)
PolicyDecides ==
  /\ app.pc = "policy"
  /\ \/ PolicyGrants(app.token) /\ Applies
     \/ PolicyRefuses(app.token) /\ Declines
  /\ UNCHANGED toApp

(* agent_input: another message is an error, and raises in the walk.       *)
TakeInput(m) ==
  /\ app.pc = "input" /\ Read(m)
  /\ IF m.kind \in {"input", "eof"} THEN Unanswered ELSE Answered(Frame("error"))
  /\ app' = [app EXCEPT !.pc = "run", !.owed = TRUE]
  /\ UNCHANGED <<applied, declined, grantVars>>

(* agent_confirm: whatever is not a yes is a silent no.                    *)
TakeConfirm(m) ==
  /\ app.pc = "confirm" /\ Read(m)
  /\ Unanswered
  /\ app' = [app EXCEPT !.pc = "run", !.owed = TRUE]
  /\ UNCHANGED <<applied, declined, grantVars>>

-----------------------------------------------------------------------------
(* The client *)

Ended == app.pc = "end"

Send(m) == toApp' = IF Ended THEN toApp ELSE Append(toApp, m)

(* A call that sends one message and waits for the next frame.             *)
Call(kind) ==
  /\ client.pc = "free" /\ calls < MaxCalls
  /\ Send(Message(kind))
  /\ client' = [client EXCEPT !.pc = "wait", !.token = 0]
  /\ calls' = calls + 1
  /\ UNCHANGED <<toClient, appVars, resolved, grantVars>>

Press == Call("key")
Snapshot == Call("snapshot")
AnswerInput == Call("input")
AnswerConfirm == Call("confirm")

(* The gate t is the frame the client has last read.                       *)
OnView(t) == client.view.kind = "gate" /\ client.view.token = t

(* apply(), of a request the client has kept (ApprovalRequest.from_gate),  *)
(* at its gate or at any time after: the apply message is sent only if     *)
(* approve() has granted the proposal.                                     *)
ApplyCall(granted, t) ==
  /\ client.pc = "free" /\ t \in client.kept /\ calls < MaxCalls
  /\ CASE approver = "policy" /\ granted -> PolicyGrants(t)
       [] approver = "policy" /\ ~granted -> PolicyRefuses(t)
       [] approver = "human" /\ granted -> approved' = approved \cup {t} /\ UNCHANGED budget
       [] OTHER -> UNCHANGED grantVars
  /\ Send(IF granted THEN ApplyMessage(t) ELSE Message("refuse"))
  /\ client' = [client EXCEPT !.pc = "wait", !.token = t, !.prompt = OnView(t)]
  /\ calls' = calls + 1
  /\ UNCHANGED <<toClient, appVars, resolved>>

(* _send on a broken pipe: the call is over before it waits.               *)
SendBreaks ==
  /\ client.pc = "free" /\ Ended
  /\ client' = [client EXCEPT !.pc = "closed"]
  /\ UNCHANGED <<toApp, toClient, appVars, calls, resolved, grantVars>>

(* The request a client can make of a frame, and keep.                     *)
Requests(f) == IF f.kind = "gate" THEN {f.token} ELSE {}

Outcome(f) == IF f.kind \in {"applied", "declined"} THEN f.kind ELSE "resolved"

(* _next returns; a pending apply_approval_request audits that frame's     *)
(* status as the outcome, whatever gate the frame speaks of.               *)
Receive ==
  /\ client.pc = "wait" /\ toClient # <<>>
  /\ client' = [pc |-> "free", token |-> 0, prompt |-> FALSE, view |-> Head(toClient),
                kept |-> client.kept \cup Requests(Head(toClient))]
  /\ toClient' = Tail(toClient)
  /\ resolved' = IF client.token = 0 THEN resolved
                  ELSE resolved \cup {<<client.token, Outcome(Head(toClient)), client.prompt>>}
  /\ UNCHANGED <<toApp, appVars, calls, grantVars>>

(* _next meets the end of the stream, or has waited long enough.           *)
CloseWait ==
  /\ client.pc = "wait" /\ toClient = <<>>
  /\ client' = [client EXCEPT !.pc = "closed", !.token = 0]
  /\ UNCHANGED <<toApp, toClient, appVars, calls, resolved, grantVars>>

(* drain() takes a frame nobody waits for, and may stop before the last.   *)
Drain ==
  /\ client.pc = "free" /\ toClient # <<>>
  /\ client' = [client EXCEPT !.view = Head(toClient), !.kept = @ \cup Requests(Head(toClient))]
  /\ toClient' = Tail(toClient)
  /\ UNCHANGED <<toApp, appVars, calls, resolved, grantVars>>

Quit ==
  /\ client.pc \in {"free", "closed"}
  /\ Send(Message("quit"))
  /\ client' = [client EXCEPT !.pc = "quit"]
  /\ UNCHANGED <<toClient, appVars, calls, resolved, grantVars>>

(* Mutant: a child that is not reading is left to itself.                  *)
Kill_OnlyReaders ==
  /\ client.pc = "quit" /\ ~Ended /\ ~Running
  /\ app' = [app EXCEPT !.pc = "end"]
  /\ UNCHANGED <<toApp, toClient, gateCap, draws, applied, declined, posted,
                 clientVars, grantVars>>

(* A child that has not left is terminated, then killed.                   *)
Kill ==
  /\ client.pc = "quit" /\ ~Ended
  /\ app' = [app EXCEPT !.pc = "end"]
  /\ UNCHANGED <<toApp, toClient, gateCap, draws, applied, declined, posted,
                 clientVars, grantVars>>

(* The driving process dies: its end of the pipes closes.                  *)
Vanish ==
  /\ client.pc # "gone"
  /\ client' = [client EXCEPT !.pc = "gone", !.token = 0]
  /\ UNCHANGED <<toApp, toClient, appVars, calls, resolved, grantVars>>

-----------------------------------------------------------------------------
Init ==
  /\ \E d \in Deployments : gateMode = d.gate /\ approver = d.approver
  /\ toApp = <<>> /\ toClient = <<>>
  /\ app = [pc |-> "run", token |-> 0, silent |-> FALSE, owed |-> TRUE,
            open |-> FALSE]
  /\ gateCap = <<>> /\ draws = 0
  /\ client = [pc |-> "wait", token |-> 0, prompt |-> FALSE, view |-> Screen, kept |-> {}]
  /\ calls = 0 /\ budget = 0
  /\ approved = {} /\ applied = {} /\ declined = {} /\ posted = {} /\ resolved = {}

AppStep ==
  \/ AppDraw \/ ReadKey \/ DryRunGate \/ AskInput \/ AskConfirm
  \/ \E c \in Capabilities : OfferGate(c)
  \/ PolicyDecides \/ Post \/ PostRaises \/ Exit \/ ShellOut
  \/ \E m \in Messages :
       \/ TakeKey(m) \/ TakeOther(m) \/ TakeDryGate(m) \/ TakeGate(m)
       \/ TakeInput(m) \/ TakeConfirm(m)

ClientStep ==
  \/ Press \/ Snapshot \/ AnswerInput \/ AnswerConfirm
  \/ \E granted \in BOOLEAN, t \in Tokens : ApplyCall(granted, t)
  \/ SendBreaks \/ Receive \/ CloseWait \/ Drain \/ Quit \/ Kill \/ Vanish

Next == AppStep \/ ClientStep

Spec == Init /\ [][Next]_vars

-----------------------------------------------------------------------------
(* Properties *)

(* The type of every variable. *)
TypeOK ==
  /\ gateMode \in GateModes /\ approver \in Approvers
  /\ toApp \in Seq(Messages) /\ toClient \in Seq(Frames)
  /\ app \in AppStates /\ client \in ClientStates
  /\ gateCap \in Seq(Capabilities) /\ Len(gateCap) <= MaxGates
  /\ {draws, calls, budget} \subseteq Nat
  /\ approved \subseteq Tokens /\ posted \subseteq Tokens
  /\ applied \subseteq Tokens /\ declined \subseteq Tokens
  /\ resolved \subseteq Tokens \X {"applied", "declined", "resolved"} \X BOOLEAN

(* The write gate: nothing is posted without an approval of that very gate *)
(* (confirm_apply, "the only place a walk may post"), in a pure dry run    *)
(* nothing at all, however stale the client's view of the app is.          *)
PostedOnlyIfApproved ==
  /\ posted \subseteq applied /\ applied \subseteq approved
  /\ applied \cap declined = {}
  /\ gateMode = "dryRun" => posted = {}

(* WS-B's autonomous policy, at either end of the channel: what is posted  *)
(* is allowlisted, moves no money and stays within the session's cap.      *)
PolicyRespected ==
  (gateMode = "policy" \/ approver = "policy") =>
    /\ \A t \in posted : gateCap[t].listed /\ gateCap[t].money = "no"
    /\ Cardinality(applied) <= MaxApplies

(* Frame-per-key: app and client never both block on each other, whatever  *)
(* the client last sent and wherever the app took it (serve_stdio's "a     *)
(* driver never blocks on a silent key").                                  *)
NoMutualWait ==
  ~ /\ app.pc \in {"key", "dryGate", "gate", "input", "confirm"}
    /\ toApp = <<>>
    /\ client.pc = "wait"
    /\ toClient = <<>>

(* approval.resolved tells what the gate did, of a request applied while   *)
(* its gate was the frame on view: the frame after that call is that       *)
(* gate's, though the client may be frames behind the app and may have     *)
(* applied other requests late (whose event may tell of another frame).    *)
ResolvedTruly ==
  \A r \in {x \in resolved : x[3]} :
    /\ r[2] = "applied" => r[1] \in applied
    /\ r[2] = "declined" => r[1] \in declined
    /\ r[2] # "resolved"

-----------------------------------------------------------------------------
(* The inductive invariant behind the write gate. *)

Offered == 1..Len(gateCap)

(* The tokens in flight are spoken for: an apply message carries one that  *)
(* was approved, a gate frame or a request kept one that was offered.      *)
WireInv ==
  /\ \A i \in 1..Len(toApp) : toApp[i].kind = "apply" => toApp[i].token \in approved
  /\ \A i \in 1..Len(toClient) : toClient[i].kind = "gate" => toClient[i].token \in Offered
  /\ client.view.kind = "gate" => client.view.token \in Offered
  /\ client.kept \subseteq Offered

(* The gate at hand has not been decided, the write at hand not made.      *)
AtGateInv ==
  /\ app.pc \in {"gate", "policy"} => app.token \in Offered \ (applied \cup declined)
  /\ app.pc = "post" => app.token \in applied \ posted
  /\ app.pc = "policy" => gateMode = "policy"
  /\ app.pc = "gate" => gateMode = "handshake"

(* What the gates have decided, against what was approved and is posted.   *)
GateInv ==
  /\ WireInv /\ AtGateInv
  /\ approved \cup declined \subseteq Offered
  /\ gateMode = "dryRun" => gateCap = <<>>
  /\ PostedOnlyIfApproved

-----------------------------------------------------------------------------
(* The channel implements the write gate. *)

Gate == INSTANCE GuardedWrite WITH offered <- Offered

(* Whoever approves (a human over the wire, a policy at either end), the   *)
(* channel's gates follow the life of a guarded write.                     *)
ImplementsGuardedWrite == Gate!WriteSpec
=============================================================================
