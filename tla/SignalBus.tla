------------------------------ MODULE SignalBus ------------------------------
(***************************************************************************)
(* The fleet signal bus: workers emit their open signals to a bucket       *)
(* (signals/emit.py, signals/bridge.py) and a consumer polls the dated     *)
(* archive behind a cursor (signals/subscribe.py).                         *)
(*                                                                         *)
(* One action per access to shared storage: every upload, listing,         *)
(* download, callback and cursor read or write is a step of its own, so    *)
(* emissions and the replicas of the consumer interleave between any two.  *)
(* What the process may meet outside the happy path (an upload or download *)
(* that raises, a callback that raises, a cursor store that cannot be read *)
(* or written, the death of a replica) is a fault, drawn from FaultKinds   *)
(* and capped by MaxFaults.                                                *)
(***************************************************************************)
EXTENDS Naturals, Sequences

CONSTANTS
  Workers,      \* the emitting workers
  RunIds,       \* run identifiers: ordered by name, never by emission time
  MaxDate,      \* the dates are 1..MaxDate (the bound on time)
  Signals,      \* [kind, urgency, readable]: the lines an emission may carry
  Scans,        \* the sets of open signals build() may return, as sequences
  Anomaly,      \* the "Handoff failed" signal of the failure bridge
  SubKinds,     \* Subscription.kinds: {} for None, {K} for the filter K
  SubUrgency,   \* Subscription.min_urgency: {} for None, {u} for the floor u
  Replicas,     \* processes polling with one consumer_id
  GcsStore,     \* TRUE: GcsCursorStore, FALSE: FileCursorStore
  Discover,     \* TRUE: Subscription.workers is None
  Callback,     \* TRUE: poll() is given on_delivery
  FreshRuns,    \* TRUE: no two emissions of a worker share a run id
  SameDay,      \* TRUE: an emission is over before its date is
  FaultKinds,   \* the faults that may happen
  MaxFaults,    \* how many of them (bound)
  MaxEmits      \* how many emissions (bound)

Dates == 1..MaxDate
Objects == [worker : Workers, date : Dates, run : RunIds]
Bodies == Scans \cup {<<>>, <<Anomaly>>}
Deliveries == Objects \X Signals

(* A cursor is the date reached and the run ids processed in that date; the *)
(* absent cursor (None, set()) covers nothing, as date 0 does.              *)
Cursors == [date : 0..MaxDate, runs : SUBSET RunIds]
NoCursor == [date |-> 0, runs |-> {}]

Emissions ==
  [worker : Workers, date : Dates, run : RunIds, body : Bodies,
   stage : {"latest", "archive"}]

ASSUME WorkersNonempty == Workers # {}
ASSUME RunIdsAssumption == RunIds # {} /\ RunIds \subseteq Nat
ASSUME MaxDateAssumption == MaxDate \in Nat \ {0}
ASSUME ScansAssumption == Scans \subseteq Seq(Signals) /\ Anomaly \in Signals
ASSUME BoundsAssumption == MaxFaults \in Nat /\ MaxEmits \in Nat
ASSUME ModesAssumption ==
  {GcsStore, Discover, Callback, FreshRuns, SameDay} \subseteq BOOLEAN

VARIABLES
  today,        \* the UTC date
  inflight,     \* emissions begun and not over
  latest,       \* signals/<worker>/latest.jsonl
  archive,      \* signals/<worker>/<date>/<run>.jsonl; <<>>: no such object
  cursor,       \* the stored cursor of each worker
  poll,         \* what each replica's poll() holds in memory
  emits,        \* emissions so far
  faults,       \* faults so far
  named,        \* history: the <<worker, run id>> of every emission
  published,    \* history: what emissions put in the archive
  handled,      \* history: what the consumer was given
  redelivered,  \* history: what it was given more than once
  unsaved       \* history: objects whose last save() raised, not read since

emitVars == <<today, inflight, latest, archive, emits, named, published>>
pollVars == <<cursor, poll, handled, redelivered, unsaved>>
vars == <<emitVars, pollVars, faults>>

Exists(o) == archive[o] # <<>>

Fault(kind) == kind \in FaultKinds /\ faults < MaxFaults /\ faults' = faults + 1

-----------------------------------------------------------------------------
(* Filters and cursor arithmetic *)

UrgencyRank == [info |-> 0, soon |-> 1, due |-> 2, overdue |-> 3]
Rank(u) == IF u \in DOMAIN UrgencyRank THEN UrgencyRank[u] ELSE 0

(* A line reaches the consumer when it parses and passes the filters. *)
Matches(s) ==
  /\ s.readable
  /\ \A kinds \in SubKinds : s.kind \in kinds
  /\ \A floor \in SubUrgency : Rank(s.urgency) >= Rank(floor)

(* Mutant: the tie-break on run ids within a date is forgotten.             *)
Covered_DateOnly(c, o) == o.date <= c.date

(* What _archive_objects_after leaves out of the listing. *)
Covered(c, o) == o.date < c.date \/ (o.date = c.date /\ o.run \in c.runs)

(* Mutants: a second run of a date replaces the first; is not recorded.    *)
Advance_Replace(c, o) == [date |-> o.date, runs |-> {o.run}]
Advance_OncePerDate(c, o) ==
  IF o.date > c.date THEN [date |-> o.date, runs |-> {o.run}] ELSE c

Advance(c, o) ==
  IF o.date > c.date THEN [date |-> o.date, runs |-> {o.run}]
                     ELSE [c EXCEPT !.runs = @ \cup {o.run}]

(* Object-name order within one worker: the date, then the run id. *)
NotAfter(o, q) == o.date < q.date \/ (o.date = q.date /\ o.run <= q.run)

ArchiveAfter(w, c) == {o \in Objects : o.worker = w /\ Exists(o) /\ ~Covered(c, o)}

-----------------------------------------------------------------------------
(* Emission *)

(* scan_and_emit: now, the run id and the open set are fixed before any    *)
(* upload. A build() that raises emits nothing.                            *)
Begin(w, run, body) ==
  /\ emits < MaxEmits
  /\ FreshRuns => <<w, run>> \notin named
  /\ inflight' = inflight \cup
       {[worker |-> w, date |-> today, run |-> run, body |-> body, stage |-> "latest"]}
  /\ emits' = emits + 1
  /\ named' = named \cup {<<w, run>>}
  /\ UNCHANGED <<today, latest, archive, published, pollVars, faults>>

EmitSignals(w, run) == \E body \in Scans \cup {<<>>} : Begin(w, run, body)

(* failure_to_signal: a failed handoff is an emission of its own. *)
BridgeFailure(w, run) == Begin(w, run, <<Anomaly>>)

(* latest.jsonl is overwritten even by an empty set; an empty set ends there. *)
UploadLatest(e) ==
  /\ e.stage = "latest"
  /\ latest' = [latest EXCEPT ![e.worker] = e.body]
  /\ inflight' = (inflight \ {e}) \cup
       (IF e.body = <<>> THEN {} ELSE {[e EXCEPT !.stage = "archive"]})
  /\ UNCHANGED <<today, archive, emits, named, published, pollVars, faults>>

ObjectOf(e) == [worker |-> e.worker, date |-> e.date, run |-> e.run]

UploadArchive(e) ==
  /\ e.stage = "archive"
  /\ archive' = [archive EXCEPT ![ObjectOf(e)] = e.body]
  /\ published' = published \cup {<<ObjectOf(e), e.body[i]>> : i \in DOMAIN e.body}
  /\ inflight' = inflight \ {e}
  /\ UNCHANGED <<today, latest, emits, named, pollVars, faults>>

(* Either upload may raise: _flush swallows it and the emission is over. *)
UploadFails(e) ==
  /\ Fault("upload")
  /\ inflight' = inflight \ {e}
  /\ UNCHANGED <<today, latest, archive, emits, named, published, pollVars>>

NextDay ==
  /\ today < MaxDate
  /\ SameDay => inflight = {}
  /\ today' = today + 1
  /\ UNCHANGED <<inflight, latest, archive, emits, named, published, pollVars, faults>>

-----------------------------------------------------------------------------
(* Polling *)

NoObject == CHOOSE o \in Objects : TRUE

(* The cursor document when there is none. *)
NoDocument == [w \in Workers |-> NoCursor]

NotPolling ==
  [pc |-> "idle", left |-> {}, todo |-> {}, obj |-> NoObject, text |-> <<>>,
   line |-> 1, mem |-> NoCursor, snap |-> NoDocument,
   fresh |-> FALSE, out |-> {}]

(* While a worker is visited, obj is its current object, or stands for it   *)
(* before the first object is read.                                        *)
Visiting(w) == [NoObject EXCEPT !.worker = w]

(* Between two workers: poll() has yet to visit those of left, and has     *)
(* collected out (tracked only when there is no callback to receive it).   *)
Between(left, out) == [NotPolling EXCEPT !.pc = "worker", !.left = left, !.out = out]

LeaveWorker(p) ==
  poll' = [poll EXCEPT ![p] = Between(poll[p].left, poll[p].out)]

(* The next object of the worker at hand, its in-memory cursor at c; or,   *)
(* after the worker's last object, the next worker.                        *)
NextObject(p, c) ==
  LET rest == poll[p].todo \ {poll[p].obj}
  IN  IF rest = {}
        THEN Between(poll[p].left, poll[p].out)
        ELSE [Between(poll[p].left, poll[p].out) EXCEPT
                !.pc = "object", !.todo = rest, !.mem = c,
                !.obj = Visiting(poll[p].obj.worker)]

StartPoll(p) ==
  /\ poll[p].pc = "idle"
  /\ poll' = [poll EXCEPT ![p] =
       Between(IF Discover THEN {o.worker : o \in {q \in Objects : Exists(q)}}
                           ELSE Workers, {})]
  /\ UNCHANGED <<emitVars, cursor, handled, redelivered, unsaved, faults>>

(* poll() returns: without a callback, the caller has the list only now. *)
ReturnDeliveries(p) ==
  /\ poll[p].pc = "worker" /\ poll[p].left = {}
  /\ handled' = handled \cup poll[p].out
  /\ redelivered' = redelivered \cup (handled \cap poll[p].out)
  /\ poll' = [poll EXCEPT ![p] = NotPolling]
  /\ UNCHANGED <<emitVars, cursor, unsaved, faults>>

Visit(p, w, c) ==
  /\ poll[p].pc = "worker" /\ w \in poll[p].left
  /\ poll' = [poll EXCEPT ![p] =
       [Between(poll[p].left \ {w}, poll[p].out) EXCEPT
          !.pc = "list", !.mem = c, !.obj = Visiting(w)]]
  /\ UNCHANGED <<emitVars, cursor, handled, redelivered, unsaved>>

LoadCursor(p, w) == Visit(p, w, cursor[w]) /\ UNCHANGED faults

(* Both stores answer None when the cursor cannot be read. *)
LoadFails(p, w) == Visit(p, w, NoCursor) /\ Fault("load")

ListArchive(p) ==
  /\ poll[p].pc = "list"
  /\ LET found == ArchiveAfter(poll[p].obj.worker, poll[p].mem)
     IN  IF found = {}
           THEN LeaveWorker(p)
           ELSE poll' = [poll EXCEPT ![p].pc = "object", ![p].todo = found]
  /\ UNCHANGED <<emitVars, cursor, handled, redelivered, unsaved, faults>>

ListFails(p) ==
  /\ poll[p].pc = "list"
  /\ Fault("list")
  /\ LeaveWorker(p)
  /\ UNCHANGED <<emitVars, cursor, handled, redelivered, unsaved>>

(* Mutant: the listing is worked off in whatever order it came.            *)
ReadObject_Unsorted(p) ==
  /\ poll[p].pc = "object"
  /\ \E o \in poll[p].todo :
       /\ poll' = [poll EXCEPT ![p].pc = "line", ![p].obj = o,
                                 ![p].text = archive[o], ![p].line = 1]
       /\ unsaved' = unsaved \ {o}
  /\ UNCHANGED <<emitVars, cursor, handled, redelivered, faults>>

ReadObject(p) ==
  /\ poll[p].pc = "object"
  /\ \E o \in poll[p].todo :
       /\ \A q \in poll[p].todo : NotAfter(o, q)
       /\ poll' = [poll EXCEPT ![p].pc = "line", ![p].obj = o,
                                 ![p].text = archive[o], ![p].line = 1]
       /\ unsaved' = unsaved \ {o}
  /\ UNCHANGED <<emitVars, cursor, handled, redelivered, faults>>

(* Mutant: an object that cannot be read is skipped, and the worker's next *)
(* objects are read.                                                       *)
ReadFails_SkipsObject(p) ==
  /\ poll[p].pc = "object"
  /\ Fault("download")
  /\ \E o \in poll[p].todo :
       /\ \A q \in poll[p].todo : NotAfter(o, q)
       /\ poll[p].todo # {o}
       /\ poll' = [poll EXCEPT ![p].todo = @ \ {o}]
  /\ UNCHANGED <<emitVars, cursor, handled, redelivered, unsaved>>

ReadFails(p) ==
  /\ poll[p].pc = "object"
  /\ Fault("download")
  /\ LeaveWorker(p)
  /\ UNCHANGED <<emitVars, cursor, handled, redelivered, unsaved>>

AtLine(p) == poll[p].pc = "line" /\ poll[p].line <= Len(poll[p].text)

Line(p) == poll[p].text[poll[p].line]

SkipLine(p) ==
  /\ AtLine(p) /\ ~Matches(Line(p))
  /\ poll' = [poll EXCEPT ![p].line = @ + 1]
  /\ UNCHANGED <<emitVars, cursor, handled, redelivered, unsaved, faults>>

Deliver(p) ==
  /\ AtLine(p) /\ Matches(Line(p))
  /\ LET d == <<poll[p].obj, Line(p)>>
     IN  IF Callback
           THEN /\ handled' = handled \cup {d}
                /\ redelivered' = redelivered \cup (handled \cap {d})
                /\ poll' = [poll EXCEPT ![p].line = @ + 1]
           ELSE /\ poll' = [poll EXCEPT ![p].line = @ + 1, ![p].out = @ \cup {d}]
                /\ UNCHANGED <<handled, redelivered>>
  /\ UNCHANGED <<emitVars, cursor, unsaved, faults>>

(* Mutant: a callback that raises is logged, and the next line is read.    *)
CallbackRaises_Swallowed(p) ==
  /\ Callback
  /\ AtLine(p) /\ Matches(Line(p))
  /\ Fault("callback")
  /\ poll' = [poll EXCEPT ![p].line = @ + 1]
  /\ UNCHANGED <<emitVars, cursor, handled, redelivered, unsaved>>

(* The callback raises: the object stays uncommitted and the worker is left. *)
CallbackRaises(p) ==
  /\ Callback
  /\ AtLine(p) /\ Matches(Line(p))
  /\ Fault("callback")
  /\ LeaveWorker(p)
  /\ UNCHANGED <<emitVars, cursor, handled, redelivered, unsaved>>

(* Mutant: the object is committed before its last line is read.           *)
AllLinesRead_OffByOne(p) == poll[p].pc = "line" /\ poll[p].line >= Len(poll[p].text)

AllLinesRead(p) == poll[p].pc = "line" /\ poll[p].line > Len(poll[p].text)

Advanced(p) == Advance(poll[p].mem, poll[p].obj)

(* Mutant: the generation is never read, so only a first save can succeed. *)
SaveReads_CreateOnly(p) ==
  /\ AllLinesRead(p)
  /\ poll' = [poll EXCEPT ![p].pc = "put", ![p].mem = Advanced(p),
                          ![p].snap = cursor, ![p].fresh = (cursor = NoDocument)]
  /\ UNCHANGED <<emitVars, cursor, handled, redelivered, unsaved, faults>>

(* save(), first half: the in-memory cursor has advanced, and the store    *)
(* reads the whole cursor document it is about to write back.              *)
SaveReads(p) ==
  /\ AllLinesRead(p)
  /\ poll' = [poll EXCEPT ![p].pc = "put", ![p].mem = Advanced(p),
                          ![p].snap = cursor, ![p].fresh = TRUE]
  /\ UNCHANGED <<emitVars, cursor, handled, redelivered, unsaved, faults>>

(* The cursor document cannot be read: the file store goes on with an      *)
(* empty one, the GCS store gives the save up.                             *)
SaveReadFails(p) ==
  /\ AllLinesRead(p)
  /\ Fault("saveRead")
  /\ IF GcsStore
       THEN /\ poll' = [poll EXCEPT ![p] = NextObject(p, Advanced(p))]
            /\ unsaved' = unsaved \cup {poll[p].obj}
       ELSE /\ poll' = [poll EXCEPT ![p].pc = "put", ![p].mem = Advanced(p),
                                    ![p].snap = NoDocument, ![p].fresh = TRUE]
            /\ UNCHANGED unsaved
  /\ UNCHANGED <<emitVars, cursor, handled, redelivered>>

(* Mutant: the document written holds the worker at hand alone.            *)
SaveWrites_OneWorker(p) ==
  /\ poll[p].pc = "put"
  /\ GcsStore => poll[p].fresh
  /\ cursor' = [NoDocument EXCEPT ![poll[p].obj.worker] = poll[p].mem]
  /\ poll' = [poll EXCEPT ![p] = NextObject(p, poll[p].mem)]
  /\ UNCHANGED <<emitVars, handled, redelivered, unsaved, faults>>

(* save(), second half. The GCS write asks for the generation it has read; *)
(* the file is replaced whatever it holds by now.                          *)
SaveWrites(p) ==
  /\ poll[p].pc = "put"
  /\ GcsStore => poll[p].fresh
  /\ cursor' = [poll[p].snap EXCEPT ![poll[p].obj.worker] = poll[p].mem]
  /\ poll' = [q \in Replicas |->
                IF q = p THEN NextObject(p, poll[p].mem)
                         ELSE [poll[q] EXCEPT !.fresh = FALSE]]
  /\ UNCHANGED <<emitVars, handled, redelivered, unsaved, faults>>

SaveRefused(p) ==
  /\ poll[p].pc = "put"
  /\ poll' = [poll EXCEPT ![p] = NextObject(p, poll[p].mem)]
  /\ unsaved' = unsaved \cup {poll[p].obj}
  /\ UNCHANGED <<emitVars, cursor, handled, redelivered>>

(* PreconditionFailed: another replica has written since the read. *)
SaveConflicts(p) == GcsStore /\ ~poll[p].fresh /\ SaveRefused(p) /\ UNCHANGED faults

SaveFails(p) == Fault("save") /\ SaveRefused(p)

(* The process dies: only the bucket and the cursor store survive. *)
Crash(p) ==
  /\ poll[p].pc # "idle"
  /\ Fault("crash")
  /\ poll' = [poll EXCEPT ![p] = NotPolling]
  /\ UNCHANGED <<emitVars, cursor, handled, redelivered, unsaved>>

-----------------------------------------------------------------------------
Init ==
  /\ today = 1
  /\ inflight = {}
  /\ latest = [w \in Workers |-> <<>>]
  /\ archive = [o \in Objects |-> <<>>]
  /\ cursor = [w \in Workers |-> NoCursor]
  /\ poll = [p \in Replicas |-> NotPolling]
  /\ emits = 0 /\ faults = 0
  /\ named = {} /\ published = {}
  /\ handled = {} /\ redelivered = {} /\ unsaved = {}

Emit ==
  \/ \E w \in Workers, run \in RunIds : EmitSignals(w, run) \/ BridgeFailure(w, run)
  \/ \E e \in inflight : UploadLatest(e) \/ UploadArchive(e) \/ UploadFails(e)

PollStep(p) ==
  \/ StartPoll(p) \/ ReturnDeliveries(p)
  \/ \E w \in Workers : LoadCursor(p, w)
  \/ ListArchive(p) \/ ReadObject(p)
  \/ SkipLine(p) \/ Deliver(p)
  \/ SaveReads(p) \/ SaveWrites(p) \/ SaveConflicts(p)

PollFault(p) ==
  \/ \E w \in Workers : LoadFails(p, w)
  \/ ListFails(p) \/ ReadFails(p) \/ CallbackRaises(p)
  \/ SaveReadFails(p) \/ SaveFails(p) \/ Crash(p)

Next == Emit \/ NextDay \/ (\E p \in Replicas : PollStep(p) \/ PollFault(p))

Spec == Init /\ [][Next]_vars

(* Pollers are scheduled for ever (a cron job, a daemon loop); nothing     *)
(* obliges a worker to emit, a day to end or a fault to happen.            *)
FairSpec == Spec /\ \A p \in Replicas : WF_vars(PollStep(p))

-----------------------------------------------------------------------------
(* Properties *)

PollStates ==
  [pc : {"idle", "worker", "list", "object", "line", "put"},
   left : SUBSET Workers, todo : SUBSET Objects, obj : Objects, text : Bodies,
   line : Nat \ {0}, mem : Cursors, snap : [Workers -> Cursors],
   fresh : BOOLEAN, out : SUBSET Deliveries]

(* The type of every variable. *)
TypeOK ==
  /\ today \in Dates
  /\ inflight \subseteq Emissions
  /\ latest \in [Workers -> Bodies]
  /\ archive \in [Objects -> Bodies]
  /\ cursor \in [Workers -> Cursors]
  /\ poll \in [Replicas -> PollStates]
  /\ emits \in Nat /\ faults \in Nat
  /\ named \subseteq Workers \X RunIds
  /\ published \subseteq Deliveries
  /\ handled \subseteq Deliveries /\ redelivered \subseteq Deliveries
  /\ unsaved \subseteq Objects

(* A delivery poll() can still make: its line is in the archive and the    *)
(* stored cursor does not claim its object is done.                        *)
Reachable(d) ==
  LET o == d[1] IN
    /\ \E i \in DOMAIN archive[o] : archive[o][i] = d[2]
    /\ ~Covered(cursor[o.worker], o)

(* At-least-once delivery (poll's cursor discipline): whatever fails, and  *)
(* however the replicas race, a signal put in the archive has been given   *)
(* to the consumer or a later poll will still find it.                     *)
NothingLost ==
  \A d \in published : Matches(d[2]) => d \in handled \/ Reachable(d)

(* Without on_delivery the cursor moves before the caller has the list:    *)
(* nothing is lost as seen between polls, provided poll() returns.         *)
NothingLostBetweenPolls == (\A p \in Replicas : poll[p].pc = "idle") => NothingLost

(* The price of at-least-once: a lone consumer sees a signal twice only    *)
(* after something has failed.                                             *)
OnceUnlessFault == faults = 0 => redelivered = {}

(* The stored cursor of a lone consumer whose store can be read never      *)
(* forgets an object it has committed, whatever saves fail or process dies.*)
StoredCursorOnlyAdvances ==
  [][\A o \in Objects : Covered(cursor[o.worker], o) => Covered(cursor'[o.worker], o)]_vars

(* Every matching signal in the archive is handed over in the end.         *)
EveryLineHandled ==
  \A d \in Deliveries : (d \in published /\ Matches(d[2])) ~> d \in handled

(* Once emissions and faults are over, the replicas' saves converge: the   *)
(* stored cursor settles on covering the whole archive.                    *)
CursorCatchesUp ==
  <>[](\A o \in Objects : Exists(o) => Covered(cursor[o.worker], o))

(* docs/signal-bus.md: an archive object is append-only with a stable name.*)
ArchiveAppendOnly ==
  [][\A o \in Objects : Exists(o) => archive'[o] = archive[o]]_vars

(* docs/signal-bus.md: an object whose save() raised is re-delivered on    *)
(* the next call, so until then the stored cursor may not cover it.        *)
FailedSaveRedelivers == \A o \in unsaved : ~Covered(cursor[o.worker], o)

-----------------------------------------------------------------------------
(* Refinement: of the wanted signals in the archive, those in objects the  *)
(* stored cursor covers are acknowledged.                                  *)

Wanted == {d \in published : Matches(d[2])}
Acked == {d \in Wanted : Covered(cursor[d[1].worker], d[1])}

Topic == INSTANCE AtLeastOnceTopic WITH
  Messages <- Deliveries, offered <- Wanted, taken <- handled, acked <- Acked

(* The bus implements an at-least-once topic: poll() never commits a cursor *)
(* past a matching signal the consumer has not been given.                 *)
ImplementsTopic == Topic!TopicSpec

-----------------------------------------------------------------------------
(* The inductive invariant behind NothingLost, when runs are fresh, no     *)
(* emission outlives its date and poll() has a callback.                   *)

Done(o) ==
  \A i \in DOMAIN archive[o] : Matches(archive[o][i]) => <<o, archive[o][i]>> \in handled

(* A cursor that may be stored for w: all it covers is done, and it claims *)
(* no run that could still be uploaded under the date it has reached.      *)
SafeCursor(w, c) ==
  /\ c.date <= today
  /\ \A run \in c.runs : Exists([worker |-> w, date |-> c.date, run |-> run])
  /\ \A o \in Objects : (o.worker = w /\ Exists(o) /\ Covered(c, o)) => Done(o)

EmitInv ==
  /\ \A e \in inflight :
       e.date = today /\ <<e.worker, e.run>> \in named /\ ~Exists(ObjectOf(e))
  /\ \A e, f \in inflight : (e.worker = f.worker /\ e.run = f.run) => e = f
  /\ \A o \in Objects : Exists(o) => o.date <= today /\ <<o.worker, o.run>> \in named

PublishedInv ==
  /\ \A d \in published : \E i \in DOMAIN archive[d[1]] : archive[d[1]][i] = d[2]
  /\ \A o \in Objects : \A i \in DOMAIN archive[o] : <<o, archive[o][i]>> \in published

HandledInv == handled \subseteq Wanted

(* What an object of the visited worker can be while its listing is worked *)
(* off: covered, still to come, or too recent to be behind what is to come.*)
ListedInv(r) ==
  /\ \A q \in r.todo : q.worker = r.obj.worker /\ Exists(q)
  /\ \A o \in Objects : (o.worker = r.obj.worker /\ Exists(o)) =>
       Covered(r.mem, o) \/ o \in r.todo \/ (\A q \in r.todo : q.date <= o.date)

ReadInv(r) ==
  /\ r.obj \in r.todo
  /\ \A q \in r.todo : r.obj.date <= q.date
  /\ r.text = archive[r.obj]

ReplicaInv(r) ==
  /\ r.pc \in {"list", "object", "line", "put"} => SafeCursor(r.obj.worker, r.mem)
  /\ r.pc \in {"object", "line", "put"} => ListedInv(r)
  /\ r.pc \in {"object", "line"} => \A q \in r.todo : ~Covered(r.mem, q)
  /\ r.pc \in {"line", "put"} => ReadInv(r)
  /\ r.pc = "line" =>
       \A i \in DOMAIN r.text : (i < r.line /\ Matches(r.text[i])) => <<r.obj, r.text[i]>> \in handled
  /\ r.pc = "put" =>
       /\ \A q \in r.todo : Covered(r.mem, q) <=> q = r.obj
       /\ \A w \in Workers : SafeCursor(w, r.snap[w])

(* Everything the cursors can claim, stored or in the memory of a replica, *)
(* has been handed to the consumer.                                        *)
CursorsSafe ==
  /\ EmitInv
  /\ PublishedInv
  /\ HandledInv
  /\ \A w \in Workers : SafeCursor(w, cursor[w])
  /\ \A p \in Replicas : ReplicaInv(poll[p]) /\ poll[p].out = {}
=============================================================================
