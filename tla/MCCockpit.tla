----------------------------- MODULE MCCockpit -----------------------------
(* The operator's terminal and the process's own services on small        *)
(* instances.  The components share no state: each behaviour runs one of   *)
(* them and leaves the others as they start.                               *)
EXTENDS HomeLoop, TerminalWalk, RawSession, Viewport, DoctorLoop, AuditMirror, TokenRefresh,
        RunTelemetry, HomeCursor

\* Which of them may run: "home", "cursor", "walk", "raw", "view", "doctor",
\* "audit", "token", "telemetry".
CONSTANT Components

VARIABLE active_component

AllWalks == {<<"animate", "apply">>, <<"apply", "await", "apply">>, <<"animate">>}

Sheet(lines, id, line) == [lines |-> lines, id |-> id, cursor |-> line]
SmallSheets == {Sheet(4, "a", 0), Sheet(12, "a", 3), Sheet(12, "a", 9), Sheet(10, "b", 0)}

Probe(id, level) == [id |-> id, level |-> level]
Fix(id, probe, kind) == [id |-> id, probe |-> probe, kind |-> kind]
SmallSnapshots ==
  {[probes |-> <<Probe("p1", "error"), Probe("p2", "warn")>>,
    fixes |-> <<Fix("f1", "p1", "run"), Fix("f2", "p2", "open")>>],
   [probes |-> <<Probe("p1", "warn"), Probe("p2", "warn")>>,
    fixes |-> <<Fix("f1", "p1", "display"), Fix("f3", "p2", "run"), Fix("f2", "p2", "open")>>],
   [probes |-> <<Probe("p2", "warn")>>, fixes |-> <<Fix("f2", "p2", "open")>>],
   [probes |-> <<Probe("p1", "ok"), Probe("p1", "error")>>, fixes |-> <<>>],
   [probes |-> <<Probe("p2", "warn"), Probe("p1", "error")>>,
    fixes |-> <<Fix("f3", "p2", "run"), Fix("f1", "p1", "run")>>]}

Declares(given, needed, interactive, client) ==
  [given |-> given, scopes |-> needed, interactive |-> interactive, client |-> client]
SmallSpecs ==
  {Declares("no", {"a"}, FALSE, FALSE), Declares("no", {"a", "b"}, FALSE, FALSE),
   Declares("no", {"a", "b"}, TRUE, TRUE), Declares("no", {"a", "b"}, TRUE, FALSE),
   Declares("yes", {"a"}, FALSE, FALSE), Declares("garbled", {"a"}, FALSE, FALSE)}

Rows(pills, needs, extras, roster) ==
  [pills |-> pills, needs |-> needs, extras |-> extras, roster |-> roster]
SmallLayouts ==
  {Rows(0, 0, <<>>, {}), Rows(2, 1, <<>>, {}), Rows(3, 2, <<<<"stat", "vat">>>>, {}),
   Rows(1, 0, <<<<"stat", "vat">>>>, {<<"a">>}), Rows(0, 2, <<>>, {<<"a", "b", "s">>})}
SmallCatalogs ==
  {[a |-> <<>>, b |-> <<"c1">>, s |-> <<>>], [a |-> <<"c1", "c2", "c3">>, b |-> <<"c4">>, s |-> <<>>],
   [a |-> <<"c1", "c2">>, b |-> <<>>, s |-> <<"c3", "c4">>]}
TaxonomyLetters == <<"a", "b">>
TwoShortcuts == <<"1", "2">>

cockpitVars ==
  <<active_component, homeVars, cursorVars, walkVars, rawVars, viewVars, doctorVars, auditVars,
    tokenVars, telemetryVars>>

Runs(c) == active_component = c
Fixed(c, start) == Runs(c) \/ start

CursorAtRest ==
  /\ layout = Rows(0, 0, <<>>, {}) /\ catalog = [a |-> <<>>, b |-> <<"c1">>, s |-> <<>>]
  /\ view = "closed" /\ selected = 0 /\ back = <<>> /\ shelf = NoShelf /\ pick = 0 /\ matches = 0

\* A cursor that is left alone is on a Home there may be.
ASSUME RestAssumption ==
  /\ Rows(0, 0, <<>>, {}) \in Layouts /\ [a |-> <<>>, b |-> <<"c1">>, s |-> <<>>] \in Catalogs

CockpitInit ==
  /\ active_component \in Components
  /\ HomeInit /\ Fixed("home", mode = "plain")
  /\ IF Runs("cursor") THEN CursorInit ELSE CursorAtRest
  /\ WalkInit /\ Fixed("walk", steps = <<"animate">> /\ blocked = "no")
  /\ RawInit
  /\ ViewInit /\ Fixed("view", height = 5 /\ console = 0)
  /\ DoctorInit /\ Fixed("doctor", focus = NoFocus /\ snap = Failure)
  /\ AuditInit
  /\ TokenInit /\ Fixed("token", lapsed = 0 /\ stored = {})
  /\ TelemetryInit /\ Fixed("telemetry", ~uploads /\ ~execution)

Only(c) ==
  /\ UNCHANGED active_component
  /\ c # "home" => UNCHANGED homeVars
  /\ c # "cursor" => UNCHANGED cursorVars
  /\ c # "walk" => UNCHANGED walkVars
  /\ c # "raw" => UNCHANGED rawVars
  /\ c # "view" => UNCHANGED viewVars
  /\ c # "doctor" => UNCHANGED doctorVars
  /\ c # "audit" => UNCHANGED auditVars
  /\ c # "token" => UNCHANGED tokenVars
  /\ c # "telemetry" => UNCHANGED telemetryVars

CockpitNext ==
  \/ Runs("home") /\ HomeNext /\ Only("home")
  \/ Runs("cursor") /\ CursorNext /\ Only("cursor")
  \/ Runs("walk") /\ WalkNext /\ Only("walk")
  \/ Runs("raw") /\ RawNext /\ Only("raw")
  \/ Runs("view") /\ ViewNext /\ Only("view")
  \/ Runs("doctor") /\ DoctorNext /\ Only("doctor")
  \/ Runs("audit") /\ AuditNext /\ Only("audit")
  \/ Runs("token") /\ TokenNext /\ Only("token")
  \/ Runs("telemetry") /\ TelemetryNext /\ Only("telemetry")

\* The components' own fairness, each where it runs.
CockpitSpec ==
  /\ CockpitInit /\ [][CockpitNext]_cockpitVars
  /\ WF_homeVars(Runs("home") /\ MainStep)
  /\ WF_homeVars(Runs("home") /\ CaptureStep)
  /\ \A r \in Resolvers : WF_tokenVars(Runs("token") /\ ResolverStep(r))

\* Every component's state has its type.
CockpitTypeOK ==
  /\ HomeTypeOK /\ CursorTypeOK /\ WalkTypeOK /\ RawTypeOK /\ ViewTypeOK /\ DoctorTypeOK
  /\ AuditTypeOK /\ TokenTypeOK /\ TelemetryTypeOK

\* What the operator left alone comes to rest: Home shows the world as it is or
\* says it could not, and whoever asked for credentials has an answer.
CockpitSettles == (Runs("home") => HomeSettles) /\ ResolversEnd
=============================================================================
