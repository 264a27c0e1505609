----------------------------- MODULE DoctorLoop -----------------------------
(***************************************************************************)
(* The interactive Doctor (shell.py, doctor.py).  A snapshot is what one   *)
(* report gives: the probes it found and the fixes offered, each with the  *)
(* identity of its probe.  The worker may return any snapshot at any       *)
(* rebuild: rows move, targets vanish, turn display-only or double.        *)
(* Fixes and probes without identities, paired by value, are left out.     *)
(***************************************************************************)
EXTENDS Naturals, Sequences, FiniteSets

CONSTANTS Snapshots,   \* what a report may be: [probes : sequence, fixes : sequence]
          Focuses,     \* the identities Doctor may be opened on, NoFocus among them
          NoFocus,
          FailureId,   \* the identity of the probe that stands for a failed report
          MaxRuns      \* bound: fixes run and refreshes

\* A report is a sequence of probes and a sequence of fixes.
ASSUME SnapshotsAssumption ==
  \A s \in Snapshots : /\ s.probes \in Seq({s.probes[i] : i \in DOMAIN s.probes})
                       /\ s.fixes \in Seq({s.fixes[i] : i \in DOMAIN s.fixes})
ASSUME RunsAssumption == MaxRuns \in Nat

VARIABLES focus, snap, serial, doctor, sel, pending, explicit, anchor, chosen,
          ran, attempts, receipts,
          target   \* the fix last chosen, or run since

doctorVars == <<focus, snap, serial, doctor, sel, pending, explicit, anchor, chosen,
                ran, attempts, receipts, target>>

Nothing == [id |-> FailureId, probe |-> FailureId, kind |-> "display"]
NoReceipt == [probe |-> FailureId, closure |-> "unknown", serial |-> 0]

\* What Doctor shows when the report raised and the worker classified it.
Failure == [report |-> FALSE, probes |-> <<[id |-> FailureId, level |-> "error"]>>, fixes |-> <<>>]
Reports == {[report |-> TRUE, probes |-> s.probes, fixes |-> s.fixes] : s \in Snapshots}

----------------------------------------------------------------------------
(* Rows, focus and identity. *)

\* The fixes that can be run, in the order of the report.
Kept(s) == {i \in DOMAIN s.fixes : s.fixes[i].kind # "display"}
KeptTo(s, i) == {j \in Kept(s) : j <= i}
Runnable(s) ==
  [k \in 1 .. Cardinality(Kept(s)) |-> s.fixes[CHOOSE i \in Kept(s) : Cardinality(KeptTo(s, i)) = k]]

ProbesOf(s, id) == {i \in DOMAIN s.probes : s.probes[i].id = id}

\* The rows that carry an identity, of a probe or of a remedy; the first of some
\* rows, 0 if there is none.
OfProbe(rows, id) == {i \in DOMAIN rows : rows[i].probe = id}
OfRemedy(rows, id) == {i \in DOMAIN rows : rows[i].id = id}
First(found) == IF found = {} THEN 0 ELSE CHOOSE i \in found : \A j \in found : i <= j

\* The focus against everything rendered: the probe's identity first, then the
\* remedy's; two claimants never select one of them.
Decision(s) ==
  LET byProbe == First(OfProbe(Runnable(s), focus))
      byRemedy == First(OfRemedy(Runnable(s), focus))
      claimants == OfRemedy(s.fixes, focus)
      rendered == ProbesOf(s, focus) \cup claimants \cup OfProbe(s.fixes, focus) # {}
  IN CASE focus = NoFocus -> [row |-> 1, state |-> "none"]
       [] focus # NoFocus /\ Cardinality(ProbesOf(s, focus)) > 1 -> [row |-> 0, state |-> "ambiguous"]
       [] focus # NoFocus /\ Cardinality(ProbesOf(s, focus)) <= 1 /\ byProbe # 0 ->
            [row |-> byProbe, state |-> "matched"]
       [] focus # NoFocus /\ Cardinality(ProbesOf(s, focus)) <= 1 /\ byProbe = 0 ->
            CASE Cardinality(claimants) > 1 -> [row |-> 0, state |-> "ambiguous"]
              [] Cardinality(claimants) = 1 /\ byRemedy # 0 -> [row |-> byRemedy, state |-> "matched"]
              [] OTHER -> [row |-> 0, state |-> IF rendered THEN "present" ELSE "unknown"]

\* Where the remedy that was selected is now: by its own identity, else by its
\* probe's, and only when one row carries it.
Unique(found) == IF Cardinality(found) = 1 THEN First(found) ELSE 0

\* A bug to find: the cursor keeps its number.
Preserved_ByIndex(rows, was) == IF sel \in DOMAIN rows THEN sel ELSE 1

Preserved(rows, was) ==
  LET byId == Unique(OfRemedy(rows, was.id))
      byProbe == Unique(OfProbe(rows, was.probe))
  IN IF byId # 0 THEN byId ELSE byProbe

Visible(s) == explicit \/ Decision(s).row # 0 \/ Decision(s).state \in {"ambiguous", "unknown"}

----------------------------------------------------------------------------
(* The loop. *)

\* The head of the loop: where the cursor is in this snapshot.
Place ==
  /\ doctor = "top"
  /\ LET rows == Runnable(snap)
         row == CASE rows = <<>> -> sel
                  [] rows # <<>> /\ pending -> (IF Decision(snap).row # 0 THEN Decision(snap).row ELSE 1)
                  [] rows # <<>> /\ ~pending /\ anchor # Nothing ->
                       (IF Preserved(rows, anchor) # 0 THEN Preserved(rows, anchor) ELSE 1)
                  [] OTHER -> ((sel - 1) % Len(rows)) + 1
     IN /\ sel' = row
        /\ pending' = (pending /\ rows = <<>>)
        /\ anchor' = IF rows # <<>> /\ ~pending THEN Nothing ELSE anchor
        /\ target' = IF rows # <<>> /\ pending THEN rows[row] ELSE target
  /\ doctor' = "keys"
  /\ UNCHANGED <<focus, snap, serial, explicit, chosen, ran, attempts, receipts>>

Choose(row) ==
  /\ sel' = row /\ explicit' = TRUE /\ chosen' = serial
  /\ target' = Runnable(snap)[row]

\* Up and down; on a page with no cursor the first of them, or Enter, only
\* shows it.
Move ==
  /\ doctor = "keys" /\ Runnable(snap) # <<>>
  /\ \/ /\ ~Visible(snap) /\ Choose(sel)
     \/ /\ Visible(snap)
        /\ \E step \in {1, Len(Runnable(snap)) - 1} :
             Choose(((sel - 1 + step) % Len(Runnable(snap))) + 1)
  /\ UNCHANGED <<focus, snap, serial, doctor, pending, anchor, ran, attempts, receipts>>

Run(row) ==
  /\ attempts < MaxRuns
  /\ attempts' = attempts + 1
  /\ ran' = [fix |-> Runnable(snap)[row], first |-> (row = 1), aimed |-> target', serial |-> serial,
             chosen |-> chosen', blind |-> Decision(snap).state = "present"]
  /\ doctor' = "running"
  /\ UNCHANGED <<focus, snap, serial, pending, anchor, receipts>>

RunSelected ==
  /\ doctor = "keys" /\ Runnable(snap) # <<>> /\ Visible(snap)
  /\ UNCHANGED <<sel, explicit, chosen, target>>
  /\ Run(sel)

\* A digit is an explicit choice and needs no cursor.
RunNumbered ==
  /\ doctor = "keys"
  /\ \E row \in DOMAIN Runnable(snap) : Choose(row) /\ Run(row)

\* The report anew: another snapshot, the failure the worker classified, or
\* nothing, and Doctor closes on the set-up hint.
Rebuilt == Reports \cup {Failure}

RefreshReport ==
  /\ doctor = "keys" /\ Runnable(snap) = <<>> /\ serial < MaxRuns + 1
  /\ \/ /\ snap' \in Rebuilt /\ doctor' = "top" /\ explicit' = FALSE /\ serial' = serial + 1
     \/ /\ doctor' = "closed" /\ UNCHANGED <<snap, explicit, serial>>
  /\ UNCHANGED <<focus, sel, pending, anchor, chosen, ran, attempts, receipts, target>>

Closure(before, s, comparable) ==
  LET after == ProbesOf(s, before.id)
  IN CASE before = Nothing \/ ~comparable \/ Cardinality(after) > 1 -> "unknown"
       [] before # Nothing /\ comparable /\ after = {} -> "resolved"
       [] before # Nothing /\ comparable /\ Cardinality(after) = 1 ->
            (IF \A i \in after : s.probes[i] = before THEN "still_present" ELSE "changed")

\* The probe a fix is paired with, when one carries its identity.
Origin(s, f) ==
  IF Cardinality(ProbesOf(s, f.probe)) = 1 THEN s.probes[CHOOSE i \in ProbesOf(s, f.probe) : TRUE]
  ELSE Nothing

Receipt(s, comparable) ==
  receipts' = Append(receipts, [probe |-> Origin(snap, ran.fix).id, serial |-> serial',
                                closure |-> Closure(Origin(snap, ran.fix), s, comparable)])

\* A bug to find: a failed report is compared like any other.
Comparable_Always(s) == TRUE

\* A comparison needs the worker's own report, unless the probe is in both.
Comparable(s) == s.report \/ ProbesOf(s, Origin(snap, ran.fix).id) # {}

\* A bug to find: the choice outlives the list it was made on.
Explicit_Kept == explicit

\* The fix has run, failed, been declined or refused; the report is read anew,
\* the receipt compares the two, and whatever was chosen was of the old rows.
Explicit == FALSE

FixEnds ==
  /\ doctor = "running"
  /\ \E s \in Rebuilt :
       /\ serial' = serial + 1
       /\ Receipt(s, Comparable(s))
       /\ snap' = s /\ anchor' = ran.fix /\ explicit' = Explicit /\ doctor' = "top"
  /\ target' = ran.fix
  /\ UNCHANGED <<focus, sel, pending, chosen, ran, attempts>>

\* No report after the fix, or the capability it opened left the terminal.
FixEndsSession ==
  /\ doctor = "running"
  /\ UNCHANGED serial
  /\ Receipt(snap, FALSE)
  /\ doctor' = "closed"
  /\ UNCHANGED <<focus, snap, sel, pending, explicit, anchor, chosen, ran, attempts, target>>

\* A fix that opens a capability the worker does not have.
CapabilityMissing ==
  /\ doctor = "running" /\ ran.fix.kind = "open"
  /\ UNCHANGED serial
  /\ Receipt(snap, FALSE)
  /\ doctor' = "top"
  /\ UNCHANGED <<focus, snap, sel, pending, explicit, anchor, chosen, ran, attempts, target>>

CloseDoctor ==
  /\ doctor = "keys"
  /\ doctor' = "closed"
  /\ UNCHANGED <<focus, snap, serial, sel, pending, explicit, anchor, chosen, ran, attempts,
                 receipts, target>>

DoctorInit ==
  /\ focus \in Focuses /\ snap \in Rebuilt /\ serial = 1 /\ doctor = "top"
  /\ sel = 1 /\ pending = TRUE /\ explicit = FALSE /\ anchor = Nothing /\ chosen = 0
  /\ ran = [fix |-> Nothing, first |-> TRUE, aimed |-> Nothing, serial |-> 0, chosen |-> 0, blind |-> FALSE]
  /\ attempts = 0 /\ receipts = <<>> /\ target = Nothing

DoctorNext ==
  \/ Place \/ Move \/ RunSelected \/ RunNumbered \/ RefreshReport
  \/ FixEnds \/ FixEndsSession \/ CapabilityMissing \/ CloseDoctor

DoctorSpec == DoctorInit /\ [][DoctorNext]_doctorVars

DoctorTypeOK ==
  /\ focus \in Focuses /\ snap \in Rebuilt /\ serial \in 1 .. 2 * MaxRuns + 1
  /\ doctor \in {"top", "keys", "running", "closed"}
  /\ pending \in BOOLEAN /\ explicit \in BOOLEAN /\ chosen \in 0 .. serial
  /\ attempts \in 0 .. MaxRuns
  /\ doctor = "keys" /\ Runnable(snap) # <<>> => sel \in DOMAIN Runnable(snap)

----------------------------------------------------------------------------
\* When the focus names something that cannot be run, no other fix runs until
\* the operator has chosen one on this very list.
NoBlindRun == ran.blind => ran.chosen = ran.serial

\* The fix that runs is the one last chosen or run, wherever a rebuild has moved
\* it, a fix of the same probe or the first row, and never one that merely took
\* its place.
RunsTheChosenFix ==
  ran.first \/ ran.fix = Nothing \/ ran.fix.id = ran.aimed.id \/ ran.fix.probe = ran.aimed.probe

\* Every attempt leaves one receipt; "resolved" is said only of a report in
\* which the probe is gone.
ReceiptsAreTrue ==
  /\ Len(receipts) = attempts - (IF doctor = "running" THEN 1 ELSE 0)
  /\ \A i \in DOMAIN receipts :
       receipts[i].closure = "resolved" /\ receipts[i].serial = serial =>
          snap.report /\ ProbesOf(snap, receipts[i].probe) = {}

\* What Doctor runs was chosen, and what it says of it is true.
DoctorSafe == NoBlindRun /\ RunsTheChosenFix /\ ReceiptsAreTrue
=============================================================================
