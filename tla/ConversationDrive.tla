--------------------------- MODULE ConversationDrive ---------------------------
(***************************************************************************)
(* The conversational operator (conversation.py): a message that is a      *)
(* command is turned into a script of keys, the worker is spawned and      *)
(* driven over the agent channel, each gate that answers a key is put to   *)
(* the approver, and the operator is told what happened.  The driver takes *)
(* the client's part in AgentChannel, one call at a time.                  *)
(***************************************************************************)
EXTENDS AgentChannel

CONSTANT ScriptLength   \* keys in Plan.script (bound)

ASSUME ScriptAssumption == ScriptLength \in Nat

VARIABLES
  step,    \* where Conversation.handle is
  left,    \* keys of the script still to press
  frames,  \* frames collected
  told,    \* of them, those that say "applied"
  lost,    \* an apply() whose outcome never came: the wait was closed
  seen,    \* history: tokens of the gate frames collected
  routed,  \* history: of them, those put to the approver
  reply    \* what the operator is told

driveVars == <<step, left, frames, told, lost, seen, routed, reply>>
allVars == <<vars, driveVars>>

Steps == {"idle", "home", "press", "reply", "gate", "outcome", "drain", "leave", "done"}
Replies == {"none", "ignored", "no command", "not drivable", "unreachable", "drove"}

(* Only an operator's message is a command; then the router and the        *)
(* launcher have their say, and the worker is spawned.                     *)
Handle(operator, command, drivable) ==
  /\ step = "idle"
  /\ reply' = IF ~operator THEN "ignored"
              ELSE IF ~command THEN "no command"
              ELSE IF ~drivable THEN "not drivable" ELSE "none"
  /\ step' = IF operator /\ command /\ drivable THEN "home" ELSE "done"
  /\ UNCHANGED <<vars, left, frames, told, lost, seen, routed>>

(* A frame joins the list.                                                 *)
Collect(f) ==
  /\ frames' = frames + 1
  /\ told' = IF f.kind = "applied" THEN told + 1 ELSE told
  /\ seen' = IF f.kind = "gate" THEN seen \cup {f.token} ELSE seen
  /\ UNCHANGED <<left, lost, reply>>

(* Mutant: the frame apply() returns is not collected.                     *)
TakeFrame_NoOutcome ==
  /\ step \in {"home", "reply", "outcome"}
  /\ Receive
  /\ IF step = "outcome" THEN UNCHANGED <<frames, told, seen, left, lost, reply>>
                         ELSE Collect(client'.view)
  /\ step' = CASE step = "home" -> "press"
               [] step = "reply" /\ client'.view.kind = "gate" -> "gate"
               [] OTHER -> "drain"
  /\ UNCHANGED routed

(* read_home, press and apply return a frame; only press looks at it.      *)
TakeFrame ==
  /\ step \in {"home", "reply", "outcome"}
  /\ Receive
  /\ Collect(client'.view)
  /\ step' = CASE step = "home" -> "press"
               [] step = "reply" /\ client'.view.kind = "gate" -> "gate"
               [] OTHER -> "drain"
  /\ UNCHANGED routed

(* Mutant: a drive that is cut off forgets its frames.                     *)
Closed_Forgets ==
  /\ step \in {"home", "press", "reply", "gate", "outcome"}
  /\ step = "press" => left > 0
  /\ SendBreaks \/ CloseWait
  /\ step' = "leave"
  /\ frames' = 0 /\ told' = 0 /\ lost' = (step = "outcome")
  /\ UNCHANGED <<left, seen, routed, reply>>

(* CockpitClosed, from a wait or from a send: the drive is over.           *)
Closed ==
  /\ step \in {"home", "press", "reply", "gate", "outcome"}
  /\ step = "press" => left > 0
  /\ SendBreaks \/ CloseWait
  /\ step' = "leave"
  /\ lost' = (step = "outcome")
  /\ UNCHANGED <<left, frames, told, seen, routed, reply>>

PressKey ==
  /\ step = "press" /\ left > 0
  /\ Press
  /\ step' = "reply" /\ left' = left - 1
  /\ UNCHANGED <<frames, told, lost, seen, routed, reply>>

RouteGate ==
  /\ step = "gate"
  /\ \E granted \in BOOLEAN : ApplyCall(granted, client.view.token)
  /\ step' = "outcome" /\ routed' = routed \cup {client.view.token}
  /\ UNCHANGED <<left, frames, told, lost, seen, reply>>

(* drain() collects whatever arrives, and stops when nothing does for a    *)
(* moment, which a slow worker may let pass.                               *)
DrainFrame ==
  /\ step = "drain"
  /\ Drain
  /\ Collect(client'.view)
  /\ UNCHANGED <<step, routed>>

DrainIdle ==
  /\ step = "drain" /\ toClient = <<>>
  /\ step' = "press"
  /\ UNCHANGED <<vars, left, frames, told, lost, seen, routed, reply>>

Leave ==
  /\ \/ step = "press" /\ left = 0
     \/ step = "leave" /\ client.pc = "closed"
  /\ Quit
  /\ step' = "leave"
  /\ UNCHANGED <<left, frames, told, lost, seen, routed, reply>>

(* quit() returns once the child is gone, and the drive is narrated.       *)
Narrate ==
  /\ step = "leave" /\ client.pc = "quit" /\ Ended
  /\ step' = "done"
  /\ reply' = IF frames = 0 THEN "unreachable" ELSE "drove"
  /\ UNCHANGED <<vars, left, frames, told, lost, seen, routed>>

DriveStep ==
  \/ \E operator, command, drivable \in BOOLEAN : Handle(operator, command, drivable)
  \/ TakeFrame \/ Closed \/ PressKey \/ RouteGate \/ DrainFrame \/ DrainIdle
  \/ Leave \/ Narrate
  \/ Kill /\ UNCHANGED driveVars

(* The worker runs once it has been spawned.                               *)
WorkerStep == step # "idle" /\ reply = "none" /\ AppStep /\ UNCHANGED driveVars

DriveInit ==
  /\ Init
  /\ step = "idle" /\ left = ScriptLength
  /\ frames = 0 /\ told = 0 /\ lost = FALSE
  /\ seen = {} /\ routed = {} /\ reply = "none"

DriveNext == DriveStep \/ WorkerStep

DriveSpec == DriveInit /\ [][DriveNext]_allVars

(* The driver's thread is scheduled, and its timeouts expire; the worker   *)
(* is under no obligation: it may hang, or never read what it is sent.     *)
FairDriveSpec == DriveSpec /\ WF_allVars(DriveStep)

-----------------------------------------------------------------------------
(* Properties *)

DriveTypeOK ==
  /\ TypeOK
  /\ step \in Steps /\ reply \in Replies
  /\ left \in 0..ScriptLength /\ {frames, told} \subseteq Nat
  /\ lost \in BOOLEAN
  /\ routed \subseteq seen /\ seen \subseteq Tokens

(* "Applied n change(s).": the narration counts every gate that applied   *)
(* and no other; short of one only if the very call that approved it was   *)
(* cut off before its outcome came.                                        *)
NarrationExact ==
  step = "done" =>
    /\ told <= Cardinality(applied)
    /\ Cardinality(applied) <= told + (IF lost THEN 1 ELSE 0)

(* A reply that denies having driven the worker is never given when        *)
(* something was approved, let alone posted.                               *)
DenialIsTrue ==
  (step = "done" /\ reply # "drove") => approved = {} /\ posted = {}

(* A conversation ends, however the worker behaves, and leaves no child.   *)
ConversationEnds == (step = "home") ~> (step = "done" /\ Ended)

(* conversation.py: the driver routes any awaiting gate to the approver.   *)
EverySeenGateRouted == step = "done" => (seen \subseteq routed)
=============================================================================
