---------------------------- MODULE RunTelemetry ----------------------------
(***************************************************************************)
(* Run telemetry of one worker in one context (obs/_telemetry.py): event   *)
(* buffers and run sessions nest and join, isolation hides them from what  *)
(* runs inside, and a session that ends uploads its part of the buffer as  *)
(* one object.  A scope remembers what it replaced, as a ContextVar token. *)
(***************************************************************************)
EXTENDS Naturals, Sequences

CONSTANTS MaxScopes,   \* bound: scopes open at once
          MaxLists,    \* bound: buffers and sessions opened
          MaxEvents    \* bound: events of the worker's own

ASSUME EventsAssumption == MaxEvents \in Nat

VARIABLES scopes,    \* the scopes open, innermost last
          bound,     \* the list bound for the worker (0: none), _RUN_BUFFERS
          active,    \* a session is, _RUN_SESSION_WORKERS
          lists,     \* the event lists made so far
          uploads,   \* _flush_allowed: cloud_run, forced, or no runtime declared
          execution, \* CLOUD_RUN_EXECUTION names every run of the process
          objects,   \* the bucket: per run id, the object last uploaded
          runs, reported,
          inside, during   \* the run the context is in (0: none), what each run reported

telemetryVars ==
  <<scopes, bound, active, lists, uploads, execution, objects, runs, reported, inside, during>>

ScopeKinds == {"buffer", "joined", "session", "isolated"}
Event(name, n) == [name |-> name, n |-> n]
Started == Event("run.started", 0)
Finished == {Event("finished ok", 0), Event("finished error", 0)}
TopScope == scopes[Len(scopes)]
Opens(s) == Len(scopes) < MaxScopes /\ scopes' = Append(scopes, s)
Closes == scopes' = SubSeq(scopes, 1, Len(scopes) - 1)
Scope(kind, list, from, run) ==
  [kind |-> kind, list |-> list, from |-> from, run |-> run,
   bound |-> bound, active |-> active, inside |-> inside]

\* event(): the wire record goes to the bound list, if there is one.
Wire(e) == [lists EXCEPT ![bound] = Append(@, e)]

Emit ==
  /\ reported < MaxEvents
  /\ reported' = reported + 1
  /\ lists' = IF bound = 0 THEN lists ELSE Wire(Event("own", reported'))
  /\ during' = IF inside = 0 THEN during ELSE [during EXCEPT ![inside] = Append(@, Event("own", reported'))]
  /\ UNCHANGED <<scopes, bound, active, uploads, execution, objects, runs, inside>>

----------------------------------------------------------------------------
(* event_buffer and isolated_event_buffers *)

EnterBuffer ==
  /\ IF bound # 0 THEN Opens(Scope("joined", 0, 0, 0)) /\ UNCHANGED <<bound, lists>>
     ELSE /\ Len(lists) < MaxLists
          /\ Opens(Scope("buffer", 0, 0, 0))
          /\ lists' = Append(lists, <<>>) /\ bound' = Len(lists')
  /\ UNCHANGED <<active, uploads, execution, objects, runs, reported, inside, during>>

Isolate ==
  /\ Opens(Scope("isolated", 0, 0, 0))
  /\ bound' = 0 /\ active' = FALSE /\ inside' = 0
  /\ UNCHANGED <<lists, uploads, execution, objects, runs, reported, during>>

\* Leaving puts back what the scope replaced, whatever ended it.
LeaveScope ==
  /\ scopes # <<>> /\ TopScope.kind \in {"buffer", "joined", "isolated"}
  /\ Closes
  /\ bound' = TopScope.bound /\ active' = TopScope.active /\ inside' = TopScope.inside
  /\ UNCHANGED <<lists, uploads, execution, objects, runs, reported, during>>

----------------------------------------------------------------------------
(* run_session *)

\* Inside a session of the worker another one is nothing.
JoinSession ==
  /\ active
  /\ Opens(Scope("joined", 0, 0, 0))
  /\ UNCHANGED <<bound, active, lists, uploads, execution, objects, runs, reported, inside, during>>

\* A bug to find: the session takes the whole of a list bound before it.
Opened_Whole(list) == Scope("session", list, 0, runs + 1)

Opened(list) == Scope("session", list, Len(lists[list]), runs + 1)

\* A list bound before is reused, from its length on; else one is made.
StartSession ==
  /\ ~active
  /\ runs' = runs + 1 /\ inside' = runs' /\ active' = TRUE
  /\ during' = Append(during, <<Started>>)
  /\ IF bound # 0
     THEN /\ Opens(Opened(bound)) /\ UNCHANGED bound
          /\ lists' = Wire(Started)
     ELSE /\ Len(lists) < MaxLists
          /\ Opens(Scope("session", Len(lists) + 1, 0, runs'))
          /\ bound' = Len(lists) + 1
          /\ lists' = Append(lists, <<Started>>)
  /\ UNCHANGED <<uploads, execution, objects, reported>>

RunId(run) == IF execution THEN 0 ELSE run

\* The session ends: run.finished, the context put back, and its part of the
\* list uploaded; an upload that fails is swallowed.
EndSession ==
  /\ scopes # <<>> /\ TopScope.kind = "session"
  /\ Closes
  /\ \E status \in Finished :
       /\ lists' = Wire(status)
       /\ during' = [during EXCEPT ![inside] = Append(@, status)]
  /\ bound' = TopScope.bound /\ active' = TopScope.active /\ inside' = TopScope.inside
  /\ \E ok \in BOOLEAN :
       LET part == SubSeq(lists'[TopScope.list], TopScope.from + 1, Len(lists'[TopScope.list]))
       IN objects' = IF uploads /\ ok THEN [objects EXCEPT ![RunId(TopScope.run)] = part] ELSE objects
  /\ UNCHANGED <<uploads, execution, runs, reported>>

----------------------------------------------------------------------------
TelemetryInit ==
  /\ scopes = <<>> /\ bound = 0 /\ active = FALSE /\ lists = <<>>
  /\ uploads \in BOOLEAN /\ execution \in BOOLEAN
  /\ objects = [id \in 0 .. MaxLists + MaxScopes |-> <<>>]
  /\ runs = 0 /\ reported = 0 /\ inside = 0 /\ during = <<>>

TelemetryNext ==
  \/ Emit \/ EnterBuffer \/ Isolate \/ LeaveScope
  \/ JoinSession \/ (StartSession /\ runs < MaxLists) \/ EndSession

TelemetrySpec == TelemetryInit /\ [][TelemetryNext]_telemetryVars

----------------------------------------------------------------------------
TelemetryTypeOK ==
  /\ \A i \in DOMAIN scopes : scopes[i].kind \in ScopeKinds
  /\ bound \in 0 .. Len(lists) /\ active \in BOOLEAN /\ inside \in 0 .. runs
  /\ runs = Len(during) /\ reported \in 0 .. MaxEvents

\* Every object uploaded is one run, whole: its start, what was reported while
\* the context was in it, and its end.  Lists bound earlier, nested sessions and
\* isolated stretches never leak into it.
ObjectsAreWholeRuns ==
  \A id \in DOMAIN objects : objects[id] # <<>> =>
    \E r \in 1 .. runs :
      /\ objects[id] = during[r]
      /\ \A i \in 1 .. Len(during[r]) :
           (during[r][i].name # "own") = (i \in {1, Len(during[r])})
=============================================================================
