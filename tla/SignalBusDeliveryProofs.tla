----------------------- MODULE SignalBusDeliveryProofs -----------------------
(***************************************************************************)
(* First type correctness, which everything after it rests on.             *)
(*                                                                         *)
(* Then at-least-once delivery for every number of workers, runs, dates    *)
(* and replicas, both stores and any faults, when run ids are fresh, an    *)
(* emission does not outlive its date and poll() is given on_delivery.     *)
(*                                                                         *)
(* NothingLost alone is not inductive: a cursor on its way to the store    *)
(* (poll()'s in-memory one, or the document save() is about to write back) *)
(* must be as safe as the stored one.  CursorsSafe says so, and says what  *)
(* a listing may be missing while it is worked off.                        *)
(*                                                                         *)
(* For a lone consumer, two things more: its stored cursor only advances   *)
(* when the store can be read, and it is given nothing twice before the    *)
(* first fault.                                                            *)
(***************************************************************************)
EXTENDS SignalBus, TLAPS

LEMMA BodiesAreSequences == Bodies \subseteq Seq(Signals)
<1>1. <<>> \in Seq(Signals)
  OBVIOUS
<1>2. <<Anomaly>> \in Seq(Signals)
  BY ScansAssumption
<1> QED BY <1>1, <1>2, ScansAssumption DEF Bodies

LEMMA NoObjectType == NoObject \in Objects
<1>1. PICK w \in Workers, run \in RunIds : TRUE
  BY WorkersNonempty, RunIdsAssumption
<1>2. 1 \in Dates
  BY MaxDateAssumption DEF Dates
<1>3. [worker |-> w, date |-> 1, run |-> run] \in Objects
  BY <1>1, <1>2 DEF Objects
<1> QED BY <1>3 DEF NoObject

LEMMA VisitingType == ASSUME NEW w \in Workers PROVE Visiting(w) \in Objects /\ Visiting(w).worker = w
BY NoObjectType DEF Visiting, Objects

LEMMA NoCursorType == NoCursor \in Cursors
BY MaxDateAssumption DEF NoCursor, Cursors

LEMMA NoDocumentType == NoDocument \in [Workers -> Cursors]
BY NoCursorType DEF NoDocument

LEMMA NotPollingType == NotPolling \in PollStates
BY NoObjectType, NoCursorType, NoDocumentType DEF NotPolling, PollStates, Bodies

LEMMA BetweenType ==
  ASSUME NEW left \in SUBSET Workers, NEW out \in SUBSET Deliveries
  PROVE  Between(left, out) \in PollStates
BY NotPollingType DEF Between, PollStates

LEMMA AdvanceType ==
  ASSUME NEW c \in Cursors, NEW o \in Objects
  PROVE  Advance(c, o) \in Cursors
BY MaxDateAssumption DEF Advance, Cursors, Objects, Dates

LEMMA NextObjectType ==
  ASSUME TypeOK, NEW p \in Replicas, NEW c \in Cursors
  PROVE  NextObject(p, c) \in PollStates
<1>1. poll[p] \in PollStates
  BY DEF TypeOK
<1>2. Between(poll[p].left, poll[p].out) \in PollStates
  BY <1>1, BetweenType DEF PollStates
<1>3. Visiting(poll[p].obj.worker) \in Objects
  BY <1>1, VisitingType DEF PollStates, Objects
<1> DEFINE rest == poll[p].todo \ {poll[p].obj}
<1>4. rest \subseteq Objects
  BY <1>1 DEF PollStates
<1> HIDE DEF rest
<1>5. [Between(poll[p].left, poll[p].out) EXCEPT
                !.pc = "object", !.todo = rest, !.mem = c,
                !.obj = Visiting(poll[p].obj.worker)] \in PollStates
  BY <1>2, <1>3, <1>4 DEF PollStates
<1> QED BY <1>2, <1>5 DEF NextObject, rest

LEMMA LineType ==
  ASSUME TypeOK, NEW p \in Replicas, AtLine(p)
  PROVE  Line(p) \in Signals
<1>1. poll[p].text \in Seq(Signals) /\ poll[p].line \in 1..Len(poll[p].text)
  BY BodiesAreSequences DEF TypeOK, PollStates, AtLine
<1> QED BY <1>1 DEF Line

-----------------------------------------------------------------------------
(* What every step of a poll that replaces one replica's record preserves. *)

LEMMA PollUpdateType ==
  ASSUME TypeOK, NEW p \in Replicas, NEW r \in PollStates,
         poll' = [poll EXCEPT ![p] = r]
  PROVE  poll' \in [Replicas -> PollStates]
BY DEF TypeOK

LEMMA EmitType ==
  ASSUME TypeOK, Emit
  PROVE  TypeOK'
<1>1. ASSUME NEW w \in Workers, NEW run \in RunIds, NEW body \in Bodies, Begin(w, run, body)
      PROVE  TypeOK'
  BY <1>1 DEF Begin, TypeOK, Emissions, pollVars
<1>2. ASSUME NEW e \in inflight, UploadLatest(e)
      PROVE  TypeOK'
  <2>1. e \in Emissions
    BY DEF TypeOK
  <2>2. [e EXCEPT !.stage = "archive"] \in Emissions
    BY <2>1 DEF Emissions
  <2>3. inflight' \subseteq Emissions
    BY <1>2, <2>2 DEF UploadLatest, TypeOK
  <2>4. latest' \in [Workers -> Bodies]
    BY <1>2, <2>1 DEF UploadLatest, TypeOK, Emissions
  <2> QED BY <1>2, <2>3, <2>4 DEF UploadLatest, TypeOK, pollVars
<1>3. ASSUME NEW e \in inflight, UploadArchive(e)
      PROVE  TypeOK'
  <2>1. e \in Emissions /\ ObjectOf(e) \in Objects /\ e.body \in Bodies
    BY DEF TypeOK, Emissions, ObjectOf, Objects
  <2>2. e.body \in Seq(Signals)
    BY <2>1, BodiesAreSequences
  <2>3. \A i \in DOMAIN e.body : e.body[i] \in Signals
    BY <2>2
  <2>4. published' \subseteq Deliveries
    BY <1>3, <2>1, <2>3 DEF UploadArchive, TypeOK, Deliveries
  <2>5. archive' \in [Objects -> Bodies]
    BY <1>3, <2>1 DEF UploadArchive, TypeOK
  <2> QED BY <1>3, <2>4, <2>5 DEF UploadArchive, TypeOK, pollVars
<1>4. ASSUME NEW e \in inflight, UploadFails(e)
      PROVE  TypeOK'
  BY <1>4 DEF UploadFails, Fault, TypeOK, pollVars
<1>5. ASSUME NEW w \in Workers, NEW run \in RunIds, EmitSignals(w, run) \/ BridgeFailure(w, run)
      PROVE  \E body \in Bodies : Begin(w, run, body)
  BY <1>5 DEF EmitSignals, BridgeFailure, Bodies
<1> QED BY <1>1, <1>2, <1>3, <1>4, <1>5 DEF Emit

LEMMA PollStepType ==
  ASSUME TypeOK, NEW p \in Replicas, PollStep(p)
  PROVE  TypeOK'
<1>1. poll[p] \in PollStates
  BY DEF TypeOK
<1>2. CASE StartPoll(p)
  <2>1. {o.worker : o \in {q \in Objects : Exists(q)}} \subseteq Workers
    BY DEF Objects
  <2>2. PICK left \in SUBSET Workers : poll' = [poll EXCEPT ![p] = Between(left, {})]
    BY <1>2, <2>1 DEF StartPoll
  <2>3. poll' \in [Replicas -> PollStates]
    BY <2>2, BetweenType, PollUpdateType
  <2> QED BY <1>2, <2>3 DEF StartPoll, TypeOK, emitVars
<1>3. CASE ReturnDeliveries(p)
  <2>1. poll' \in [Replicas -> PollStates]
    BY <1>3, NotPollingType, PollUpdateType DEF ReturnDeliveries
  <2> QED BY <1>1, <1>3, <2>1 DEF ReturnDeliveries, TypeOK, emitVars, PollStates
<1>4. ASSUME NEW w \in Workers, LoadCursor(p, w)
      PROVE  TypeOK'
  <2>1. Between(poll[p].left \ {w}, poll[p].out) \in PollStates
    BY <1>1, BetweenType DEF PollStates
  <2>2. [Between(poll[p].left \ {w}, poll[p].out) EXCEPT
          !.pc = "list", !.mem = cursor[w], !.obj = Visiting(w)] \in PollStates
    BY <2>1, VisitingType DEF PollStates, TypeOK
  <2>3. poll' \in [Replicas -> PollStates]
    BY <1>4, <2>2, PollUpdateType DEF LoadCursor, Visit
  <2> QED BY <1>4, <2>3 DEF LoadCursor, Visit, TypeOK, emitVars
<1>5. CASE ListArchive(p)
  <2> DEFINE found == ArchiveAfter(poll[p].obj.worker, poll[p].mem)
  <2>1. found \subseteq Objects
    BY DEF ArchiveAfter
  <2>2. Between(poll[p].left, poll[p].out) \in PollStates
    BY <1>1, BetweenType DEF PollStates
  <2> HIDE DEF found
  <2>3. \/ poll' = [poll EXCEPT ![p] = Between(poll[p].left, poll[p].out)]
        \/ poll' = [poll EXCEPT ![p].pc = "object", ![p].todo = found]
    BY <1>5 DEF ListArchive, LeaveWorker, found
  <2>4. poll' \in [Replicas -> PollStates]
    BY <1>1, <2>1, <2>2, <2>3 DEF TypeOK, PollStates
  <2> QED BY <1>5, <2>4 DEF ListArchive, TypeOK, emitVars
<1>6. CASE ReadObject(p)
  <2>1. PICK o \in poll[p].todo :
          poll' = [poll EXCEPT ![p].pc = "line", ![p].obj = o,
                                 ![p].text = archive[o], ![p].line = 1]
    BY <1>6 DEF ReadObject
  <2>2. o \in Objects /\ archive[o] \in Bodies
    BY <1>1, <2>1 DEF TypeOK, PollStates
  <2>3. [poll[p] EXCEPT !.pc = "line", !.obj = o, !.text = archive[o], !.line = 1]
          \in PollStates
    <3>1. 1 \in Nat \ {0}
      OBVIOUS
    <3> QED BY <1>1, <2>2, <3>1, Zenon DEF PollStates
  <2>4. poll' \in [Replicas -> PollStates]
    BY <2>1, <2>3 DEF TypeOK
  <2> QED BY <1>6, <2>4 DEF ReadObject, TypeOK, emitVars
<1>7. CASE SkipLine(p)
  <2>1. [poll[p] EXCEPT !.line = @ + 1] \in PollStates
    BY <1>1 DEF PollStates
  <2>2. poll' = [poll EXCEPT ![p] = [poll[p] EXCEPT !.line = @ + 1]]
    BY <1>7 DEF SkipLine, TypeOK
  <2>3. poll' \in [Replicas -> PollStates]
    BY <2>1, <2>2, PollUpdateType
  <2> QED BY <1>7, <2>3 DEF SkipLine, TypeOK, emitVars
<1>8. CASE Deliver(p)
  <2> DEFINE d == <<poll[p].obj, Line(p)>>
  <2>1. d \in Deliveries
    BY <1>1, <1>8, LineType DEF Deliver, Deliveries, PollStates
  <2> HIDE DEF d
  <2>2. \/ /\ handled' = handled \cup {d}
           /\ redelivered' = redelivered \cup (handled \cap {d})
           /\ poll' = [poll EXCEPT ![p].line = @ + 1]
        \/ /\ poll' = [poll EXCEPT ![p].line = @ + 1, ![p].out = @ \cup {d}]
           /\ UNCHANGED <<handled, redelivered>>
    BY <1>8 DEF Deliver, d
  <2>3. poll' \in [Replicas -> PollStates]
    <3>1. [poll[p] EXCEPT !.line = @ + 1] \in PollStates
      BY <1>1 DEF PollStates
    <3>2. poll[p].out \cup {d} \in SUBSET Deliveries /\ poll[p].line + 1 \in Nat \ {0}
      BY <1>1, <2>1 DEF PollStates
    <3>3. [poll[p] EXCEPT !.line = @ + 1, !.out = @ \cup {d}] \in PollStates
      BY <1>1, <3>2, Zenon DEF PollStates
    <3> QED BY <2>2, <3>1, <3>3 DEF TypeOK
  <2>4. handled' \subseteq Deliveries /\ redelivered' \subseteq Deliveries
    BY <2>1, <2>2 DEF TypeOK
  <2> QED BY <1>8, <2>3, <2>4 DEF Deliver, TypeOK, emitVars
<1>9. CASE SaveReads(p)
  <2>1. Advanced(p) \in Cursors
    BY <1>1, AdvanceType DEF Advanced, PollStates
  <2>2. poll' \in [Replicas -> PollStates]
    BY <1>1, <1>9, <2>1 DEF SaveReads, TypeOK, PollStates
  <2> QED BY <1>9, <2>2 DEF SaveReads, TypeOK, emitVars
<1>10. CASE SaveWrites(p)
  <2>1. NextObject(p, poll[p].mem) \in PollStates
    BY <1>1, NextObjectType DEF PollStates
  <2>2. \A q \in Replicas : [poll[q] EXCEPT !.fresh = FALSE] \in PollStates
    BY DEF TypeOK, PollStates
  <2>3. poll' \in [Replicas -> PollStates]
    BY <1>10, <2>1, <2>2 DEF SaveWrites
  <2>4. cursor' \in [Workers -> Cursors]
    BY <1>1, <1>10 DEF SaveWrites, PollStates
  <2> QED BY <1>10, <2>3, <2>4 DEF SaveWrites, TypeOK, emitVars
<1>11. CASE SaveConflicts(p)
  <2>1. NextObject(p, poll[p].mem) \in PollStates
    BY <1>1, NextObjectType DEF PollStates
  <2>2. poll' \in [Replicas -> PollStates]
    BY <1>11, <2>1, PollUpdateType DEF SaveConflicts, SaveRefused
  <2> QED BY <1>1, <1>11, <2>2 DEF SaveConflicts, SaveRefused, TypeOK, emitVars, PollStates
<1> QED BY <1>2, <1>3, <1>4, <1>5, <1>6, <1>7, <1>8, <1>9, <1>10, <1>11 DEF PollStep

LEMMA PollFaultType ==
  ASSUME TypeOK, NEW p \in Replicas, PollFault(p)
  PROVE  TypeOK'
<1>1. poll[p] \in PollStates
  BY DEF TypeOK
<1>2. Between(poll[p].left, poll[p].out) \in PollStates
  BY <1>1, BetweenType DEF PollStates
<1>3. Advanced(p) \in Cursors
  BY <1>1, AdvanceType DEF Advanced, PollStates
<1>4. ASSUME NEW w \in Workers, LoadFails(p, w)
      PROVE  TypeOK'
  <2>1. Between(poll[p].left \ {w}, poll[p].out) \in PollStates
    BY <1>1, BetweenType DEF PollStates
  <2>2. [Between(poll[p].left \ {w}, poll[p].out) EXCEPT
          !.pc = "list", !.mem = NoCursor, !.obj = Visiting(w)] \in PollStates
    BY <2>1, VisitingType, NoCursorType DEF PollStates
  <2>3. poll' \in [Replicas -> PollStates]
    BY <1>4, <2>2, PollUpdateType DEF LoadFails, Visit
  <2> QED BY <1>4, <2>3 DEF LoadFails, Visit, Fault, TypeOK, emitVars
<1>5. CASE ListFails(p)
  <2>1. poll' \in [Replicas -> PollStates]
    BY <1>2, <1>5, PollUpdateType DEF ListFails, LeaveWorker
  <2> QED BY <1>5, <2>1 DEF ListFails, Fault, TypeOK, emitVars
<1>6. CASE ReadFails(p)
  <2>1. poll' \in [Replicas -> PollStates]
    BY <1>2, <1>6, PollUpdateType DEF ReadFails, LeaveWorker
  <2> QED BY <1>6, <2>1 DEF ReadFails, Fault, TypeOK, emitVars
<1>7. CASE CallbackRaises(p)
  <2>1. poll' \in [Replicas -> PollStates]
    BY <1>2, <1>7, PollUpdateType DEF CallbackRaises, LeaveWorker
  <2> QED BY <1>7, <2>1 DEF CallbackRaises, Fault, TypeOK, emitVars
<1>8. CASE SaveReadFails(p)
  <2>1. NextObject(p, Advanced(p)) \in PollStates
    BY <1>3, NextObjectType
  <2>2. \/ poll' = [poll EXCEPT ![p] = NextObject(p, Advanced(p))]
        \/ poll' = [poll EXCEPT ![p].pc = "put", ![p].mem = Advanced(p),
                                ![p].snap = NoDocument, ![p].fresh = TRUE]
    BY <1>8 DEF SaveReadFails
  <2>3. [poll[p] EXCEPT !.pc = "put", !.mem = Advanced(p),
                        !.snap = NoDocument, !.fresh = TRUE] \in PollStates
    BY <1>1, <1>3, NoDocumentType DEF PollStates
  <2>4. poll' \in [Replicas -> PollStates]
    BY <2>1, <2>2, <2>3 DEF TypeOK
  <2>5. unsaved' \subseteq Objects
    BY <1>1, <1>8 DEF SaveReadFails, TypeOK, PollStates
  <2> QED BY <1>8, <2>4, <2>5 DEF SaveReadFails, Fault, TypeOK, emitVars
<1>9. CASE SaveFails(p)
  <2>1. NextObject(p, poll[p].mem) \in PollStates
    BY <1>1, NextObjectType DEF PollStates
  <2>2. poll' \in [Replicas -> PollStates]
    BY <1>9, <2>1, PollUpdateType DEF SaveFails, SaveRefused
  <2> QED BY <1>1, <1>9, <2>2 DEF SaveFails, SaveRefused, Fault, TypeOK, emitVars, PollStates
<1>10. CASE Crash(p)
  <2>1. poll' \in [Replicas -> PollStates]
    BY <1>10, NotPollingType, PollUpdateType DEF Crash
  <2> QED BY <1>10, <2>1 DEF Crash, Fault, TypeOK, emitVars
<1> QED BY <1>4, <1>5, <1>6, <1>7, <1>8, <1>9, <1>10 DEF PollFault

(* Every variable keeps its type: a cursor is a date and a set of run ids, *)
(* the archive maps object names to bodies, a replica is at a step of      *)
(* poll(), whatever the faults.                                            *)
THEOREM TypeCorrect == Spec => []TypeOK
<1>1. Init => TypeOK
  BY NotPollingType, NoCursorType, MaxDateAssumption DEF Init, TypeOK, Bodies, Dates
<1>2. TypeOK /\ [Next]_vars => TypeOK'
  <2> SUFFICES ASSUME TypeOK, [Next]_vars PROVE TypeOK'
    OBVIOUS
  <2>1. CASE NextDay
    BY <2>1, MaxDateAssumption DEF NextDay, TypeOK, Dates, pollVars
  <2>2. CASE UNCHANGED vars
    BY <2>2 DEF vars, emitVars, pollVars, TypeOK
  <2> QED BY <2>1, <2>2, EmitType, PollStepType, PollFaultType DEF Next
<1> QED BY <1>1, <1>2, PTL DEF Spec

-----------------------------------------------------------------------------

(* A step that leaves the archive alone and takes nothing back. *)
Grows == archive' = archive /\ today <= today' /\ handled \subseteq handled'

LEMMA SafeGrows ==
  ASSUME TypeOK, TypeOK', Grows
  PROVE  \A w \in Workers, c \in Cursors : SafeCursor(w, c) => SafeCursor(w, c)'
<1> SUFFICES ASSUME NEW w \in Workers, NEW c \in Cursors, SafeCursor(w, c)
             PROVE  SafeCursor(w, c)'
  OBVIOUS
<1>1. c.date <= today'
  BY DEF SafeCursor, Grows, TypeOK, Cursors, Dates
<1>2. \A o \in Objects : Done(o) => Done(o)'
  BY DEF Done, Grows
<1>3. \A o \in Objects : Exists(o)' => Exists(o)
  BY DEF Exists, Grows
<1>4. \A o \in Objects : Covered(c, o)' => Covered(c, o)
  BY DEF Covered
<1>5. \A run \in c.runs : Exists([worker |-> w, date |-> c.date, run |-> run])'
  BY DEF SafeCursor, Exists, Grows
<1> QED BY <1>1, <1>2, <1>3, <1>4, <1>5 DEF SafeCursor

LEMMA ReplicaGrows ==
  ASSUME TypeOK, TypeOK', Grows
  PROVE  \A r \in PollStates : ReplicaInv(r) => ReplicaInv(r)'
<1> SUFFICES ASSUME NEW r \in PollStates, ReplicaInv(r)
             PROVE  ReplicaInv(r)'
  OBVIOUS
<1>1. r.obj.worker \in Workers /\ r.mem \in Cursors /\ r.snap \in [Workers -> Cursors]
  BY DEF PollStates, Objects
<1>2. SafeCursor(r.obj.worker, r.mem) => SafeCursor(r.obj.worker, r.mem)'
  BY <1>1, SafeGrows
<1>3. ListedInv(r) => ListedInv(r)'
  BY DEF ListedInv, Exists, Grows, Covered
<1>4. ReadInv(r) => ReadInv(r)'
  BY DEF ReadInv, Grows
<1>5. \A w \in Workers : SafeCursor(w, r.snap[w]) => SafeCursor(w, r.snap[w])'
  BY <1>1, SafeGrows
<1> QED BY <1>2, <1>3, <1>4, <1>5 DEF ReplicaInv, Grows, Covered

(* An upload lands under today's date and a name no cursor claims yet. *)
LEMMA SafeUpload ==
  ASSUME TypeOK, TypeOK', EmitInv, NEW e \in inflight, UploadArchive(e)
  PROVE  \A w \in Workers, c \in Cursors : SafeCursor(w, c) => SafeCursor(w, c)'
<1> DEFINE new == ObjectOf(e)
<1>1. new \in Objects /\ new.date = today /\ ~Exists(new)
  BY DEF EmitInv, TypeOK, Emissions, ObjectOf, Objects
<1> HIDE DEF new
<1>2. today' = today /\ handled' = handled /\ \A o \in Objects \ {new} : archive'[o] = archive[o]
  BY <1>1 DEF UploadArchive, pollVars, new, TypeOK
<1> SUFFICES ASSUME NEW w \in Workers, NEW c \in Cursors, SafeCursor(w, c)
             PROVE  SafeCursor(w, c)'
  OBVIOUS
<1>3. \A o \in Objects : (o.worker = w /\ Covered(c, o)) => o # new
  <2> SUFFICES ASSUME new.worker = w, Covered(c, new) PROVE FALSE
    OBVIOUS
  <2>1. c.date = today /\ new.run \in c.runs
    BY <1>1 DEF Covered, SafeCursor, Cursors, TypeOK, Dates
  <2>2. new = [worker |-> w, date |-> c.date, run |-> new.run]
    BY <1>1, <2>1 DEF Objects
  <2> QED BY <1>1, <2>1, <2>2 DEF SafeCursor
<1>4. c.date <= today'
  BY <1>2 DEF SafeCursor
<1>5. ASSUME NEW run \in c.runs
      PROVE  Exists([worker |-> w, date |-> c.date, run |-> run])'
  <2> DEFINE o == [worker |-> w, date |-> c.date, run |-> run]
  <2>1. Exists(o)
    BY DEF SafeCursor
  <2>2. CASE c.date = 0
    <3>1. archive' = [archive EXCEPT ![new] = e.body] /\ o # new
      BY <1>1, <2>2 DEF UploadArchive, new, Objects, Dates
    <3> QED BY <2>1, <2>2, <3>1, <1>1 DEF Exists, TypeOK
  <2>3. CASE c.date # 0
    <3>1. o \in Objects
      BY <2>3 DEF Objects, Cursors, Dates
    <3> QED BY <1>1, <1>2, <2>1, <3>1 DEF Exists
  <2> QED BY <2>2, <2>3
<1>6. ASSUME NEW o \in Objects, o.worker = w, Exists(o)', Covered(c, o)
      PROVE  Done(o)'
  <2>1. o # new
    BY <1>3, <1>6
  <2>2. archive'[o] = archive[o]
    BY <1>2, <2>1
  <2>3. Done(o)
    BY <1>6, <2>2 DEF SafeCursor, Exists
  <2> QED BY <1>2, <2>2, <2>3 DEF Done
<1>7. \A o \in Objects : Covered(c, o)' => Covered(c, o)
  BY DEF Covered
<1> QED BY <1>4, <1>5, <1>6, <1>7 DEF SafeCursor

LEMMA ReplicaUpload ==
  ASSUME TypeOK, TypeOK', EmitInv, NEW e \in inflight, UploadArchive(e)
  PROVE  \A r \in PollStates : ReplicaInv(r) => ReplicaInv(r)'
<1> DEFINE new == ObjectOf(e)
<1>1. new \in Objects /\ new.date = today /\ ~Exists(new)
  BY DEF EmitInv, TypeOK, Emissions, ObjectOf, Objects
<1> HIDE DEF new
<1>2. today' = today /\ handled' = handled /\ \A o \in Objects \ {new} : archive'[o] = archive[o]
  BY <1>1 DEF UploadArchive, pollVars, new, TypeOK
<1>3. \A o \in Objects : Exists(o) => o.date <= today
  BY DEF EmitInv
<1> SUFFICES ASSUME NEW r \in PollStates, ReplicaInv(r)
             PROVE  ReplicaInv(r)'
  OBVIOUS
<1>4. r.obj.worker \in Workers /\ r.mem \in Cursors /\ r.snap \in [Workers -> Cursors]
      /\ r.obj \in Objects /\ r.todo \subseteq Objects
  BY DEF PollStates, Objects
<1>5. SafeCursor(r.obj.worker, r.mem) => SafeCursor(r.obj.worker, r.mem)'
  BY <1>4, SafeUpload
<1>6. ListedInv(r) => ListedInv(r)'
  <2> SUFFICES ASSUME ListedInv(r) PROVE ListedInv(r)'
    OBVIOUS
  <2>1. \A q \in r.todo : q.worker = r.obj.worker /\ Exists(q) /\ Exists(q)' /\ q.date <= new.date
    BY <1>1, <1>2, <1>3, <1>4 DEF ListedInv, Exists
  <2>2. ASSUME NEW o \in Objects, o.worker = r.obj.worker, Exists(o)'
        PROVE  Covered(r.mem, o) \/ o \in r.todo \/ (\A q \in r.todo : q.date <= o.date)
    <3>1. CASE o = new
      BY <2>1, <3>1
    <3>2. CASE o # new
      BY <1>2, <2>2, <3>2 DEF ListedInv, Exists
    <3> QED BY <3>1, <3>2
  <2> QED BY <2>1, <2>2 DEF ListedInv, Covered
<1>7. ListedInv(r) /\ ReadInv(r) => ReadInv(r)'
  BY <1>1, <1>2, <1>4 DEF ReadInv, ListedInv, Exists
<1>8. \A w \in Workers : SafeCursor(w, r.snap[w]) => SafeCursor(w, r.snap[w])'
  BY <1>4, SafeUpload
<1> QED BY <1>2, <1>5, <1>6, <1>7, <1>8 DEF ReplicaInv, Covered

-----------------------------------------------------------------------------
(* Emission and the calendar. *)

LEMMA OthersKept ==
  ASSUME TypeOK, TypeOK', CursorsSafe, UNCHANGED pollVars,
         \A w \in Workers, c \in Cursors : SafeCursor(w, c) => SafeCursor(w, c)',
         \A r \in PollStates : ReplicaInv(r) => ReplicaInv(r)'
  PROVE  /\ (\A w \in Workers : SafeCursor(w, cursor[w]))'
         /\ (\A p \in Replicas : ReplicaInv(poll[p]) /\ poll[p].out = {})'
<1>1. ASSUME NEW w \in Workers PROVE SafeCursor(w, cursor[w])'
  <2>1. cursor[w] \in Cursors /\ cursor' = cursor /\ SafeCursor(w, cursor[w])
    BY DEF TypeOK, pollVars, CursorsSafe
  <2> QED BY <2>1
<1>2. ASSUME NEW p \in Replicas PROVE (ReplicaInv(poll[p]) /\ poll[p].out = {})'
  <2>1. poll[p] \in PollStates /\ poll' = poll /\ ReplicaInv(poll[p]) /\ poll[p].out = {}
    BY DEF TypeOK, pollVars, CursorsSafe
  <2> QED BY <2>1
<1> QED BY <1>1, <1>2

LEMMA EmissionKeepsCursorsSafe ==
  ASSUME TypeOK, TypeOK', CursorsSafe, FreshRuns, SameDay, Emit \/ NextDay
  PROVE  CursorsSafe'
<1> USE DEF CursorsSafe
<1>1. ASSUME NEW w \in Workers, NEW run \in RunIds, NEW body, Begin(w, run, body)
      PROVE  CursorsSafe'
  <2>1. Grows /\ UNCHANGED pollVars
    BY <1>1 DEF Begin, Grows, TypeOK, Dates, pollVars
  <2>2. EmitInv'
    <3> DEFINE e == [worker |-> w, date |-> today, run |-> run, body |-> body,
                     stage |-> "latest"]
    <3>1. inflight' = inflight \cup {e} /\ <<w, run>> \notin named
          /\ named' = named \cup {<<w, run>>} /\ today' = today /\ archive' = archive
      BY <1>1 DEF Begin
    <3>2. ObjectOf(e) \in Objects /\ ObjectOf(e).worker = w /\ ObjectOf(e).run = run
      BY DEF ObjectOf, Objects, TypeOK
    <3>3. ~Exists(ObjectOf(e))
      BY <3>1, <3>2 DEF EmitInv
    <3>4. \A f \in inflight : ~(f.worker = w /\ f.run = run)
      BY <3>1 DEF EmitInv
    <3>5. \A f \in inflight' : f.date = today' /\ <<f.worker, f.run>> \in named'
                              /\ ~Exists(ObjectOf(f))'
      <4>1. \A f \in inflight' : Exists(ObjectOf(f))' <=> Exists(ObjectOf(f))
        BY <3>1 DEF Exists, ObjectOf
      <4>2. \A f \in inflight : f.date = today /\ <<f.worker, f.run>> \in named
                              /\ ~Exists(ObjectOf(f))
        BY DEF EmitInv
      <4>3. e.date = today /\ e.worker = w /\ e.run = run
        OBVIOUS
      <4> HIDE DEF e
      <4> QED BY <3>1, <3>3, <4>1, <4>2, <4>3
    <3>6. \A f, g \in inflight' : (f.worker = g.worker /\ f.run = g.run) => f = g
      BY <3>1, <3>4 DEF EmitInv
    <3> QED BY <3>1, <3>5, <3>6 DEF EmitInv, Exists
  <2>3. PublishedInv' /\ HandledInv'
    BY <1>1 DEF Begin, PublishedInv, HandledInv, Wanted, pollVars
  <2> QED BY <2>1, <2>2, <2>3, OthersKept, SafeGrows, ReplicaGrows
<1>2. ASSUME NEW e \in inflight, UploadLatest(e)
      PROVE  CursorsSafe'
  <2>1. Grows /\ UNCHANGED pollVars
    BY <1>2 DEF UploadLatest, Grows, TypeOK, Dates, pollVars
  <2>2. EmitInv'
    <3>1. e \in Emissions
      BY DEF TypeOK
    <3> DEFINE g == [e EXCEPT !.stage = "archive"]
    <3>2. g.worker = e.worker /\ g.run = e.run /\ g.date = e.date
      BY <3>1 DEF Emissions
    <3> HIDE DEF g
    <3>3. inflight' \subseteq (inflight \ {e}) \cup {g}
      BY <1>2 DEF UploadLatest, g
    <3> QED BY <1>2, <3>2, <3>3 DEF EmitInv, UploadLatest, Exists, ObjectOf
  <2>3. PublishedInv' /\ HandledInv'
    BY <1>2 DEF UploadLatest, PublishedInv, HandledInv, Wanted, pollVars
  <2> QED BY <2>1, <2>2, <2>3, OthersKept, SafeGrows, ReplicaGrows
<1>3. ASSUME NEW e \in inflight, UploadFails(e)
      PROVE  CursorsSafe'
  <2>1. Grows /\ UNCHANGED pollVars
    BY <1>3 DEF UploadFails, Grows, TypeOK, Dates, pollVars
  <2>2. EmitInv' /\ PublishedInv' /\ HandledInv'
    BY <1>3 DEF UploadFails, EmitInv, PublishedInv, HandledInv, Wanted, pollVars, Exists, ObjectOf
  <2> QED BY <2>1, <2>2, OthersKept, SafeGrows, ReplicaGrows
<1>4. ASSUME NEW e \in inflight, UploadArchive(e)
      PROVE  CursorsSafe'
  <2> DEFINE new == ObjectOf(e)
  <2>1. new \in Objects /\ new.date = today /\ ~Exists(new)
        /\ new.worker = e.worker /\ new.run = e.run
    BY DEF EmitInv, TypeOK, Emissions, ObjectOf, Objects
  <2>2. archive' = [archive EXCEPT ![new] = e.body] /\ UNCHANGED pollVars
        /\ today' = today /\ named' = named /\ inflight' = inflight \ {e}
    BY <1>4 DEF UploadArchive
  <2>3. EmitInv'
    <3>1. \A f \in inflight' : ObjectOf(f) # new /\ ObjectOf(f) \in Objects
      BY <2>2 DEF EmitInv, ObjectOf, TypeOK, Emissions, Objects
    <3>2. \A f \in inflight' : ~Exists(ObjectOf(f))'
      BY <2>1, <2>2, <3>1 DEF EmitInv, Exists, TypeOK
    <3>3. \A o \in Objects : Exists(o)' => o.date <= today' /\ <<o.worker, o.run>> \in named'
      BY <2>1, <2>2 DEF EmitInv, Exists, TypeOK, Dates
    <3> QED BY <2>2, <3>2, <3>3 DEF EmitInv
  <2>4. PublishedInv'
    <3>1. published' = published \cup {<<new, e.body[i]>> : i \in DOMAIN e.body}
      BY <1>4 DEF UploadArchive
    <3>2. \A d \in published : d[1] \in Objects
      BY DEF TypeOK, Deliveries
    <3>3. \A d \in published : d[1] # new
      BY <2>1, <3>2 DEF PublishedInv, Exists
    <3>4. \A d \in published : \E i \in DOMAIN archive'[d[1]] : archive'[d[1]][i] = d[2]
      BY <2>2, <3>2, <3>3 DEF PublishedInv, TypeOK
    <3>5. \A i \in DOMAIN e.body : \E j \in DOMAIN archive'[new] : archive'[new][j] = e.body[i]
      BY <2>1, <2>2 DEF TypeOK
    <3>6. \A d \in {<<new, e.body[i]>> : i \in DOMAIN e.body} :
            \E i \in DOMAIN archive'[d[1]] : archive'[d[1]][i] = d[2]
      BY <3>5
    <3>7. ASSUME NEW o \in Objects, NEW i \in DOMAIN archive'[o]
          PROVE  <<o, archive'[o][i]>> \in published'
      BY <2>1, <2>2, <3>1, <3>7 DEF PublishedInv, TypeOK
    <3> QED BY <3>1, <3>4, <3>6, <3>7 DEF PublishedInv
  <2>5. HandledInv'
    BY <1>4, <2>2 DEF HandledInv, Wanted, UploadArchive, pollVars
  <2> QED BY <1>4, <2>2, <2>3, <2>4, <2>5, OthersKept, SafeUpload, ReplicaUpload
<1>5. CASE NextDay
  <2>1. Grows /\ UNCHANGED pollVars
    BY <1>5 DEF NextDay, Grows, TypeOK, Dates, pollVars
  <2>2. EmitInv'
    <3>1. \A o \in Objects : o.date <= today => o.date <= today + 1
      BY MaxDateAssumption DEF Objects, Dates, TypeOK
    <3> QED BY <1>5, <3>1 DEF NextDay, EmitInv, Exists
  <2>3. PublishedInv' /\ HandledInv'
    BY <1>5 DEF NextDay, PublishedInv, HandledInv, Wanted, pollVars
  <2> QED BY <2>1, <2>2, <2>3, OthersKept, SafeGrows, ReplicaGrows
<1> QED BY <1>1, <1>2, <1>3, <1>4, <1>5 DEF Emit, EmitSignals, BridgeFailure

-----------------------------------------------------------------------------
(* Polling. *)

LEMMA Resting ==
  ASSUME NEW p \in Replicas, poll'[p].pc \in {"idle", "worker"}
  PROVE  ReplicaInv(poll[p])'
BY DEF ReplicaInv

LEMMA BetweenRests ==
  ASSUME NEW left, NEW out
  PROVE  Between(left, out).pc = "worker" /\ Between(left, out).out = out
BY DEF Between, NotPolling

(* A step of one replica that stores no cursor. *)
LEMMA OneReplicaMoves ==
  ASSUME TypeOK, TypeOK', CursorsSafe, UNCHANGED <<emitVars, cursor>>,
         handled \subseteq handled', HandledInv',
         NEW p \in Replicas, \A q \in Replicas \ {p} : poll'[q] = poll[q],
         ReplicaInv(poll[p])', (poll[p].out = {})'
  PROVE  CursorsSafe'
<1>1. Grows
  BY DEF Grows, emitVars, TypeOK, Dates
<1>2. EmitInv' /\ PublishedInv'
  BY DEF CursorsSafe, EmitInv, PublishedInv, emitVars, Exists, ObjectOf
<1>3. ASSUME NEW w \in Workers PROVE SafeCursor(w, cursor[w])'
  <2>1. cursor[w] \in Cursors /\ SafeCursor(w, cursor[w])
    BY DEF CursorsSafe, TypeOK
  <2> QED BY <1>1, <2>1, SafeGrows
<1>4. ASSUME NEW q \in Replicas PROVE (ReplicaInv(poll[q]) /\ poll[q].out = {})'
  <2>1. CASE q = p
    BY <2>1
  <2>2. CASE q # p
    <3>1. poll[q] \in PollStates /\ ReplicaInv(poll[q]) /\ poll[q].out = {}
      BY DEF CursorsSafe, TypeOK
    <3> QED BY <1>1, <2>2, <3>1, ReplicaGrows
  <2> QED BY <2>1, <2>2
<1> QED BY <1>2, <1>3, <1>4 DEF CursorsSafe

(* A step that abandons a worker, a poll or the process. *)
LEMMA ReplicaRests ==
  ASSUME TypeOK, TypeOK', CursorsSafe, UNCHANGED <<emitVars, cursor, handled>>,
         NEW p \in Replicas, NEW r, poll' = [poll EXCEPT ![p] = r],
         r.pc \in {"idle", "worker"}, r.out = {}
  PROVE  CursorsSafe'
<1>1. poll'[p] = r /\ \A q \in Replicas \ {p} : poll'[q] = poll[q]
  BY DEF TypeOK
<1>2. HandledInv'
  BY DEF CursorsSafe, HandledInv, Wanted, emitVars
<1> QED BY <1>1, <1>2, Resting, OneReplicaMoves

(* Once its object is done, the cursor may advance over it. *)
LEMMA AdvancedIsSafe ==
  ASSUME TypeOK, CursorsSafe, NEW p \in Replicas, AllLinesRead(p)
  PROVE  LET r == poll[p]
             c == Advanced(p)
         IN  /\ SafeCursor(r.obj.worker, c)
             /\ \A q \in r.todo : Covered(c, q) <=> q = r.obj
             /\ ListedInv([r EXCEPT !.mem = c])
<1> DEFINE r == poll[p]
           c == Advanced(p)
<1>1. r \in PollStates /\ ReplicaInv(r) /\ r.pc = "line"
  BY DEF TypeOK, CursorsSafe, AllLinesRead
<1>2. r.obj \in Objects /\ r.mem \in Cursors /\ r.todo \subseteq Objects
  BY <1>1 DEF PollStates
<1>3. ReadInv(r) /\ ListedInv(r) /\ SafeCursor(r.obj.worker, r.mem)
      /\ \A q \in r.todo : ~Covered(r.mem, q)
  BY <1>1 DEF ReplicaInv
<1>4. Done(r.obj)
  <2>1. r.text \in Seq(Signals) /\ r.line \in Nat
    BY <1>1, BodiesAreSequences DEF PollStates
  <2>2. \A i \in DOMAIN r.text : i < r.line
    BY <2>1 DEF AllLinesRead
  <2> QED BY <1>1, <1>3, <2>2 DEF ReplicaInv, ReadInv, Done
<1>5. r.obj.date >= r.mem.date /\ r.obj.date <= today /\ Exists(r.obj)
  <2>1. Exists(r.obj)
    BY <1>3 DEF ReadInv, ListedInv
  <2>2. ~Covered(r.mem, r.obj)
    BY <1>3 DEF ReadInv
  <2>3. r.obj.date <= today
    BY <1>2, <2>1 DEF CursorsSafe, EmitInv
  <2>4. r.obj.date \in Nat /\ r.mem.date \in Nat
    BY <1>2, MaxDateAssumption DEF Objects, Cursors, Dates
  <2> QED BY <2>1, <2>2, <2>3, <2>4 DEF Covered
<1>6. c.date = r.obj.date /\ r.obj.run \in c.runs
      /\ (r.obj.date > r.mem.date => c.runs = {r.obj.run})
      /\ (r.obj.date = r.mem.date => c.runs = r.mem.runs \cup {r.obj.run})
  BY <1>2, <1>5 DEF Advanced, Advance, Objects, Cursors, Dates
<1> HIDE DEF c
<1>7. \A o \in Objects : Covered(c, o) =>
        Covered(r.mem, o) \/ o.date < r.obj.date \/ (o.date = r.obj.date /\ o.run = r.obj.run)
  BY <1>2, <1>5, <1>6 DEF Covered, Objects, Cursors, Dates
<1>8. \A o \in Objects : Covered(r.mem, o) => Covered(c, o)
  BY <1>2, <1>5, <1>6 DEF Covered, Objects, Cursors, Dates
<1>9. \A o \in Objects : (o.worker = r.obj.worker /\ o.date = r.obj.date /\ o.run = r.obj.run)
        => o = r.obj
  BY <1>2 DEF Objects
<1>10. ASSUME NEW q \in r.todo PROVE Covered(c, q) <=> q = r.obj
  <2>1. q \in Objects /\ q.worker = r.obj.worker /\ r.obj.date <= q.date /\ ~Covered(r.mem, q)
    BY <1>2, <1>3 DEF ReadInv, ListedInv
  <2>2. Covered(c, q) => q = r.obj
    BY <1>2, <1>7, <1>9, <2>1 DEF Objects, Dates
  <2>3. Covered(c, r.obj)
    BY <1>6 DEF Covered
  <2> QED BY <2>2, <2>3
<1>11. ASSUME NEW o \in Objects, o.worker = r.obj.worker, Exists(o), Covered(c, o)
       PROVE  Done(o)
  <2>1. CASE Covered(r.mem, o)
    BY <1>3, <1>11, <2>1 DEF SafeCursor
  <2>2. CASE o.date = r.obj.date /\ o.run = r.obj.run
    BY <1>4, <1>9, <1>11, <2>2
  <2>3. CASE ~Covered(r.mem, o) /\ o.date < r.obj.date
    <3>1. o \in r.todo \/ \A q \in r.todo : q.date <= o.date
      BY <1>3, <1>11, <2>3 DEF ListedInv
    <3>2. r.obj.date <= o.date
      BY <1>3, <3>1 DEF ReadInv
    <3> QED BY <1>2, <2>3, <3>2 DEF Objects, Dates
  <2> QED BY <1>7, <1>11, <2>1, <2>2, <2>3
<1>12. ASSUME NEW run \in c.runs
       PROVE  Exists([worker |-> r.obj.worker, date |-> c.date, run |-> run])
  <2>1. CASE run = r.obj.run
    <3>1. r.obj = [worker |-> r.obj.worker, date |-> c.date, run |-> run]
      BY <1>2, <1>6, <2>1 DEF Objects
    <3> QED BY <1>5, <3>1
  <2>2. CASE run # r.obj.run
    <3>1. r.mem.date = c.date /\ run \in r.mem.runs
      BY <1>2, <1>5, <1>6, <1>12, <2>2 DEF Objects, Cursors, Dates
    <3> QED BY <1>3, <3>1 DEF SafeCursor
  <2> QED BY <2>1, <2>2
<1>13. SafeCursor(r.obj.worker, c)
  BY <1>5, <1>6, <1>11, <1>12 DEF SafeCursor
<1>14. ListedInv([r EXCEPT !.mem = c])
  <2>1. [r EXCEPT !.mem = c].todo = r.todo /\ [r EXCEPT !.mem = c].obj = r.obj
        /\ [r EXCEPT !.mem = c].mem = c
    BY <1>1 DEF PollStates
  <2> QED BY <1>3, <1>8, <2>1 DEF ListedInv
<1> QED BY <1>10, <1>13, <1>14 DEF c

(* An object is over: its cursor, saved or not, goes on to the next one. *)
LEMMA NextObjectInv ==
  ASSUME TypeOK, CursorsSafe, NEW p \in Replicas, NEW c \in Cursors,
         SafeCursor(poll[p].obj.worker, c),
         \A q \in poll[p].todo : Covered(c, q) <=> q = poll[p].obj,
         ListedInv([poll[p] EXCEPT !.mem = c])
  PROVE  ReplicaInv(NextObject(p, c)) /\ NextObject(p, c).out = {}
<1> DEFINE r == poll[p]
           rest == r.todo \ {r.obj}
           b == Between(r.left, r.out)
<1>1. r \in PollStates /\ r.out = {} /\ r.obj \in Objects /\ r.todo \subseteq Objects
  BY DEF TypeOK, CursorsSafe, PollStates
<1>2. b \in PollStates /\ b.pc = "worker" /\ b.out = {}
  <2>1. r.left \in SUBSET Workers /\ r.out \in SUBSET Deliveries
    BY <1>1 DEF PollStates
  <2>2. b \in PollStates
    BY <2>1, BetweenType
  <2>3. b.pc = "worker" /\ b.out = r.out
    BY BetweenRests
  <2> QED BY <1>1, <2>2, <2>3
<1> HIDE DEF b
<1>3. CASE rest = {}
  <2>1. NextObject(p, c) = b
    BY <1>3 DEF NextObject, b
  <2> QED BY <1>2, <2>1 DEF ReplicaInv
<1>4. CASE rest # {}
  <2> DEFINE n == [b EXCEPT !.pc = "object", !.todo = rest, !.mem = c,
                            !.obj = Visiting(r.obj.worker)]
  <2>1. NextObject(p, c) = n
    BY <1>4 DEF NextObject, b
  <2>2. r.obj.worker \in Workers /\ Visiting(r.obj.worker).worker = r.obj.worker
    BY <1>1, VisitingType DEF Objects
  <2>3. n.pc = "object" /\ n.todo = rest /\ n.mem = c /\ n.out = {}
        /\ n.obj.worker = r.obj.worker
    BY <1>2, <2>2 DEF PollStates
  <2> HIDE DEF n
  <2>4. /\ \A q \in r.todo : q.worker = r.obj.worker /\ Exists(q)
        /\ \A o \in Objects : (o.worker = r.obj.worker /\ Exists(o)) =>
             Covered(c, o) \/ o \in r.todo \/ (\A q \in r.todo : q.date <= o.date)
    BY <1>1 DEF ListedInv, PollStates
  <2>5. ListedInv(n)
    <3>1. ASSUME NEW o \in Objects, o.worker = r.obj.worker, Exists(o)
          PROVE  Covered(c, o) \/ o \in rest \/ (\A q \in rest : q.date <= o.date)
      BY <2>4, <3>1
    <3> QED BY <2>3, <2>4, <3>1 DEF ListedInv
  <2> QED BY <2>1, <2>3, <2>5 DEF ReplicaInv
<1> QED BY <1>3, <1>4

LEMMA VisitKeeps ==
  ASSUME TypeOK, TypeOK', CursorsSafe, NEW p \in Replicas, NEW w \in Workers,
         NEW c \in Cursors, SafeCursor(w, c), Visit(p, w, c)
  PROVE  CursorsSafe'
<1> DEFINE b == Between(poll[p].left \ {w}, poll[p].out)
           n == [b EXCEPT !.pc = "list", !.mem = c, !.obj = Visiting(w)]
<1>1. poll[p] \in PollStates /\ poll[p].out = {}
  BY DEF TypeOK, CursorsSafe
<1>2. b \in PollStates /\ b.out = {}
  <2>1. poll[p].left \ {w} \in SUBSET Workers /\ poll[p].out \in SUBSET Deliveries
    BY <1>1 DEF PollStates
  <2>2. b \in PollStates
    BY <2>1, BetweenType
  <2>3. b.out = poll[p].out
    BY BetweenRests
  <2> QED BY <1>1, <2>2, <2>3
<1>3. poll' = [poll EXCEPT ![p] = n]
  BY DEF Visit
<1> HIDE DEF b
<1>4. n.pc = "list" /\ n.mem = c /\ n.obj.worker = w /\ n.out = {}
  BY <1>2, VisitingType DEF PollStates
<1>5. UNCHANGED <<emitVars, cursor, handled>>
  BY DEF Visit
<1> HIDE DEF n
<1>6. SafeCursor(w, c)'
  BY <1>5, SafeGrows DEF Grows, emitVars, TypeOK, Dates
<1>7. poll'[p] = n /\ \A q \in Replicas \ {p} : poll'[q] = poll[q]
  BY <1>3 DEF TypeOK
<1>8. ReplicaInv(poll[p])'
  BY <1>4, <1>6, <1>7 DEF ReplicaInv
<1>9. HandledInv'
  BY <1>5 DEF CursorsSafe, HandledInv, Wanted, emitVars
<1> QED BY <1>4, <1>5, <1>7, <1>8, <1>9, OneReplicaMoves

LEMMA NoCursorIsSafe ==
  ASSUME TypeOK, NEW w \in Workers
  PROVE  SafeCursor(w, NoCursor)
<1>1. NoCursor.date = 0 /\ NoCursor.runs = {}
  BY DEF NoCursor
<1>2. \A o \in Objects : ~Covered(NoCursor, o)
  BY <1>1, MaxDateAssumption DEF Objects, Dates, Covered
<1>3. 0 <= today
  BY MaxDateAssumption DEF TypeOK, Dates
<1> QED BY <1>1, <1>2, <1>3 DEF SafeCursor

(* The next object, after a save that stored nothing. *)
LEMMA UnsavedKeeps ==
  ASSUME TypeOK, TypeOK', CursorsSafe, NEW p \in Replicas, NEW c \in Cursors,
         UNCHANGED <<emitVars, cursor, handled>>,
         poll' = [poll EXCEPT ![p] = NextObject(p, c)],
         SafeCursor(poll[p].obj.worker, c),
         \A q \in poll[p].todo : Covered(c, q) <=> q = poll[p].obj,
         ListedInv([poll[p] EXCEPT !.mem = c])
  PROVE  CursorsSafe'
<1> DEFINE n == NextObject(p, c)
<1>1. n \in PollStates /\ ReplicaInv(n) /\ n.out = {}
  BY NextObjectType, NextObjectInv
<1> HIDE DEF n
<1>2. poll'[p] = n /\ \A q \in Replicas \ {p} : poll'[q] = poll[q]
  BY DEF TypeOK, n
<1>3. Grows
  BY DEF Grows, emitVars, TypeOK, Dates
<1>4. ReplicaInv(poll[p])'
  BY <1>1, <1>2, <1>3, ReplicaGrows
<1>5. HandledInv'
  BY DEF CursorsSafe, HandledInv, Wanted, emitVars
<1> QED BY <1>1, <1>2, <1>4, <1>5, OneReplicaMoves

(* save() is about to write the document snap back, with the cursor advanced. *)
LEMMA SavingKeeps ==
  ASSUME TypeOK, TypeOK', CursorsSafe, NEW p \in Replicas, AllLinesRead(p),
         UNCHANGED <<emitVars, cursor, handled>>,
         \A q \in Replicas \ {p} : poll'[q] = poll[q],
         NEW n \in PollStates, n = poll'[p], n.pc = "put", n.todo = poll[p].todo,
         n.obj = poll[p].obj, n.text = poll[p].text, n.mem = Advanced(p), n.out = {},
         \A w \in Workers : SafeCursor(w, n.snap[w])
  PROVE  CursorsSafe'
<1> DEFINE r == poll[p]
<1>1. r \in PollStates /\ ReplicaInv(r) /\ r.pc = "line"
  BY DEF TypeOK, CursorsSafe, AllLinesRead
<1>2. SafeCursor(r.obj.worker, n.mem) /\ (\A q \in r.todo : Covered(n.mem, q) <=> q = r.obj)
      /\ ListedInv([r EXCEPT !.mem = n.mem])
  BY AdvancedIsSafe
<1>3. ListedInv(n)
  <2>1. [r EXCEPT !.mem = n.mem].todo = r.todo /\ [r EXCEPT !.mem = n.mem].obj = r.obj
        /\ [r EXCEPT !.mem = n.mem].mem = n.mem
    BY <1>1 DEF PollStates
  <2> QED BY <1>2, <2>1 DEF ListedInv
<1>4. ReadInv(n)
  BY <1>1 DEF ReplicaInv, ReadInv
<1>5. ReplicaInv(n)
  BY <1>2, <1>3, <1>4 DEF ReplicaInv
<1>6. Grows
  BY DEF Grows, emitVars, TypeOK, Dates
<1>7. ReplicaInv(poll[p])'
  BY <1>5, <1>6, ReplicaGrows
<1>8. HandledInv'
  BY DEF CursorsSafe, HandledInv, Wanted, emitVars
<1> QED BY <1>7, <1>8, OneReplicaMoves

(* What holds of a replica between the two halves of save(). *)
LEMMA AtPut ==
  ASSUME TypeOK, CursorsSafe, NEW p \in Replicas, poll[p].pc = "put"
  PROVE  LET r == poll[p]
         IN  /\ r.mem \in Cursors /\ SafeCursor(r.obj.worker, r.mem)
             /\ \A q \in r.todo : Covered(r.mem, q) <=> q = r.obj
             /\ ListedInv([r EXCEPT !.mem = r.mem])
             /\ \A w \in Workers : SafeCursor(w, r.snap[w])
<1>1. poll[p] \in PollStates /\ ReplicaInv(poll[p])
  BY DEF TypeOK, CursorsSafe
<1>2. [poll[p] EXCEPT !.mem = poll[p].mem] = poll[p]
  BY <1>1 DEF PollStates
<1> QED BY <1>1, <1>2 DEF ReplicaInv, PollStates

LEMMA RefusedKeeps ==
  ASSUME TypeOK, TypeOK', CursorsSafe, NEW p \in Replicas, SaveRefused(p)
  PROVE  CursorsSafe'
BY AtPut, UnsavedKeeps DEF SaveRefused

LEMMA SaveWritesKeeps ==
  ASSUME TypeOK, TypeOK', CursorsSafe, NEW p \in Replicas, SaveWrites(p)
  PROVE  CursorsSafe'
<1> DEFINE r == poll[p]
<1>1. r \in PollStates /\ r.pc = "put" /\ UNCHANGED <<emitVars, handled>>
  BY DEF TypeOK, SaveWrites
<1>2. r.mem \in Cursors /\ SafeCursor(r.obj.worker, r.mem)
      /\ \A w \in Workers : SafeCursor(w, r.snap[w])
  BY <1>1, AtPut
<1>3. Grows
  BY <1>1 DEF Grows, emitVars, TypeOK, Dates
<1>4. ASSUME NEW w \in Workers PROVE SafeCursor(w, cursor[w])'
  <2>1. SafeCursor(w, cursor'[w]) /\ cursor'[w] \in Cursors
    BY <1>1, <1>2 DEF SaveWrites, PollStates, TypeOK
  <2> QED BY <1>3, <2>1, SafeGrows
<1>5. ASSUME NEW q \in Replicas PROVE (ReplicaInv(poll[q]) /\ poll[q].out = {})'
  <2>1. PICK n \in PollStates : n = poll'[q]
    BY DEF TypeOK
  <2>2. CASE q = p
    <3>1. ReplicaInv(NextObject(p, r.mem)) /\ NextObject(p, r.mem).out = {}
      BY <1>1, AtPut, NextObjectInv
    <3>2. n = NextObject(p, r.mem)
      BY <2>1, <2>2 DEF SaveWrites
    <3> QED BY <1>3, <2>1, <2>2, <3>1, <3>2, ReplicaGrows
  <2>3. CASE q # p
    <3>1. n = [poll[q] EXCEPT !.fresh = FALSE]
      BY <2>1, <2>3 DEF SaveWrites
    <3>2. poll[q] \in PollStates /\ ReplicaInv(poll[q]) /\ poll[q].out = {}
      BY DEF TypeOK, CursorsSafe
    <3>3. n.pc = poll[q].pc /\ n.todo = poll[q].todo /\ n.mem = poll[q].mem
          /\ n.obj = poll[q].obj /\ n.text = poll[q].text /\ n.line = poll[q].line
          /\ n.snap = poll[q].snap /\ n.out = poll[q].out
      BY <3>1, <3>2 DEF PollStates
    <3>4. ReplicaInv(n)
      BY <3>2, <3>3 DEF ReplicaInv, ListedInv, ReadInv
    <3> QED BY <1>3, <2>1, <3>2, <3>3, <3>4, ReplicaGrows
  <2> QED BY <2>2, <2>3
<1>6. EmitInv' /\ PublishedInv' /\ HandledInv'
  BY <1>1 DEF CursorsSafe, EmitInv, PublishedInv, HandledInv, Wanted, emitVars, Exists, ObjectOf
<1> QED BY <1>4, <1>5, <1>6 DEF CursorsSafe

LEMMA PollStepKeepsCursorsSafe ==
  ASSUME TypeOK, TypeOK', CursorsSafe, Callback, NEW p \in Replicas, PollStep(p)
  PROVE  CursorsSafe'
<1> DEFINE r == poll[p]
<1>1. r \in PollStates /\ ReplicaInv(r) /\ r.out = {}
  BY DEF TypeOK, CursorsSafe
<1>2. CASE StartPoll(p)
  <2>1. PICK left : poll' = [poll EXCEPT ![p] = Between(left, {})]
    BY <1>2 DEF StartPoll
  <2>2. Between(left, {}).pc = "worker" /\ Between(left, {}).out = {}
    BY BetweenRests
  <2>3. UNCHANGED <<emitVars, cursor, handled>>
    BY <1>2 DEF StartPoll
  <2> QED BY <2>1, <2>2, <2>3, ReplicaRests
<1>3. CASE ReturnDeliveries(p)
  <2>1. UNCHANGED <<emitVars, cursor, handled>> /\ poll' = [poll EXCEPT ![p] = NotPolling]
    BY <1>1, <1>3 DEF ReturnDeliveries
  <2>2. NotPolling.pc = "idle" /\ NotPolling.out = {}
    BY DEF NotPolling
  <2> QED BY <2>1, <2>2, ReplicaRests
<1>4. ASSUME NEW w \in Workers, LoadCursor(p, w)
      PROVE  CursorsSafe'
  <2>1. cursor[w] \in Cursors /\ SafeCursor(w, cursor[w]) /\ Visit(p, w, cursor[w])
    BY <1>4 DEF LoadCursor, TypeOK, CursorsSafe
  <2> QED BY <2>1, VisitKeeps
<1>5. CASE ListArchive(p)
  <2> DEFINE found == ArchiveAfter(r.obj.worker, r.mem)
  <2>1. UNCHANGED <<emitVars, cursor, handled>>
    BY <1>5 DEF ListArchive
  <2>2. CASE found = {}
    <3>1. poll' = [poll EXCEPT ![p] = Between(r.left, r.out)]
      BY <1>5, <2>2 DEF ListArchive, LeaveWorker
    <3> QED BY <1>1, <2>1, <3>1, BetweenRests, ReplicaRests
  <2>3. CASE found # {}
    <3> DEFINE n == [r EXCEPT !.pc = "object", !.todo = found]
    <3>1. poll' = [poll EXCEPT ![p] = n]
      BY <1>5, <2>3 DEF ListArchive, TypeOK
    <3>2. n.pc = "object" /\ n.todo = found /\ n.mem = r.mem /\ n.obj = r.obj /\ n.out = {}
      BY <1>1 DEF PollStates
    <3> HIDE DEF n
    <3>3. SafeCursor(r.obj.worker, r.mem)
      BY <1>1, <1>5 DEF ListArchive, ReplicaInv
    <3>4. ListedInv(n) /\ \A q \in found : ~Covered(r.mem, q)
      BY <3>2 DEF ListedInv, ArchiveAfter
    <3>5. poll'[p] = n /\ \A q \in Replicas \ {p} : poll'[q] = poll[q]
      BY <3>1 DEF TypeOK
    <3>6. ReplicaInv(n)
      BY <3>2, <3>3, <3>4 DEF ReplicaInv
    <3>7. n \in PollStates /\ Grows
      BY <2>1, <3>5 DEF TypeOK, Grows, emitVars, Dates
    <3>8. ReplicaInv(poll[p])'
      BY <3>5, <3>6, <3>7, ReplicaGrows
    <3>9. HandledInv'
      BY <2>1 DEF CursorsSafe, HandledInv, Wanted, emitVars
    <3> QED BY <2>1, <3>2, <3>5, <3>8, <3>9, OneReplicaMoves
  <2> QED BY <2>2, <2>3
<1>6. CASE ReadObject(p)
  <2>1. PICK o \in r.todo :
          /\ \A q \in r.todo : NotAfter(o, q)
          /\ poll' = [poll EXCEPT ![p] = [r EXCEPT !.pc = "line", !.obj = o,
                                          !.text = archive[o], !.line = 1]]
    BY <1>6 DEF ReadObject, TypeOK
  <2> DEFINE n == [r EXCEPT !.pc = "line", !.obj = o, !.text = archive[o], !.line = 1]
  <2>2. n.pc = "line" /\ n.todo = r.todo /\ n.mem = r.mem /\ n.obj = o /\ n.out = {}
        /\ n.text = archive[o] /\ n.line = 1
    BY <1>1 DEF PollStates
  <2>3. poll'[p] = n /\ \A q \in Replicas \ {p} : poll'[q] = poll[q]
    BY <2>1 DEF TypeOK
  <2> HIDE DEF n
  <2>4. r.todo \subseteq Objects /\ SafeCursor(r.obj.worker, r.mem) /\ ListedInv(r)
        /\ \A q \in r.todo : ~Covered(r.mem, q)
    BY <1>1, <1>6 DEF ReadObject, ReplicaInv, PollStates
  <2>5. o.worker = r.obj.worker
    BY <2>4 DEF ListedInv
  <2>6. ListedInv(n)
    BY <2>2, <2>4, <2>5 DEF ListedInv
  <2>7. ReadInv(n)
    BY <2>1, <2>2, <2>4, MaxDateAssumption DEF ReadInv, NotAfter, Objects, Dates
  <2>8. \A i \in DOMAIN n.text : ~(i < n.line)
    <3>1. n.text \in Seq(Signals)
      BY <2>1, <2>2, <2>4, BodiesAreSequences DEF TypeOK
    <3> QED BY <2>2, <3>1
  <2>9. ReplicaInv(n)
    BY <2>2, <2>4, <2>5, <2>6, <2>7, <2>8 DEF ReplicaInv
  <2>10. n \in PollStates /\ Grows /\ UNCHANGED <<emitVars, cursor, handled>>
    BY <1>6, <2>3 DEF ReadObject, TypeOK, Grows, emitVars, Dates
  <2>11. ReplicaInv(poll[p])'
    BY <2>3, <2>9, <2>10, ReplicaGrows
  <2>12. HandledInv'
    BY <2>10 DEF CursorsSafe, HandledInv, Wanted, emitVars
  <2> QED BY <2>2, <2>3, <2>10, <2>11, <2>12, OneReplicaMoves
<1>7. CASE SkipLine(p) \/ Deliver(p)
  <2>1. UNCHANGED <<emitVars, cursor>> /\ poll' = [poll EXCEPT ![p].line = @ + 1]
        /\ r.pc = "line"
    BY <1>7 DEF SkipLine, Deliver, AtLine
  <2>2. PICK n \in PollStates : n = poll'[p]
    BY DEF TypeOK
  <2>3. PICK s \in PollStates : s = poll[p]
    BY DEF TypeOK
  <2>4. n.pc = s.pc /\ n.todo = s.todo /\ n.mem = s.mem /\ n.obj = s.obj /\ n.out = s.out
        /\ n.text = s.text /\ n.line = s.line + 1
    BY <2>1, <2>2, <2>3 DEF PollStates, TypeOK
  <2>5. \A q \in Replicas \ {p} : poll'[q] = poll[q]
    BY <2>1 DEF TypeOK
  <2>6. /\ handled \subseteq handled'
        /\ handled' \subseteq handled \cup {<<s.obj, Line(p)>>}
        /\ ~Matches(Line(p)) => handled' = handled
        /\ Matches(Line(p)) => <<s.obj, Line(p)>> \in handled'
    BY <1>7, <2>3 DEF SkipLine, Deliver
  <2>7. s.line \in DOMAIN s.text /\ Line(p) = s.text[s.line] /\ s.text \in Seq(Signals)
        /\ s.line \in Nat
    BY <1>1, <1>7, <2>3, BodiesAreSequences DEF SkipLine, Deliver, AtLine, Line, PollStates
  <2>8. Grows
    BY <2>1, <2>6 DEF Grows, emitVars, TypeOK, Dates
  <2>9. ReplicaInv(s)'
    BY <1>1, <2>3, <2>8, ReplicaGrows
  <2>10. s.pc = "line" /\ SafeCursor(s.obj.worker, s.mem)' /\ ListedInv(s)' /\ ReadInv(s)'
         /\ (\A q \in s.todo : ~Covered(s.mem, q))
         /\ \A i \in DOMAIN s.text :
              (i < s.line /\ Matches(s.text[i])) => <<s.obj, s.text[i]>> \in handled'
    BY <2>1, <2>3, <2>9 DEF ReplicaInv, Covered, Matches
  <2>11. ListedInv(n)' /\ ReadInv(n)'
    BY <2>4, <2>10 DEF ListedInv, ReadInv
  <2>12. \A i \in DOMAIN n.text :
           (i < n.line /\ Matches(n.text[i])) => <<n.obj, n.text[i]>> \in handled'
    <3>1. \A i \in DOMAIN n.text : i < n.line => i < s.line \/ i = s.line
      BY <2>4, <2>7
    <3> QED BY <2>4, <2>6, <2>7, <2>10, <3>1
  <2>13. ReplicaInv(n)'
    BY <2>4, <2>10, <2>11, <2>12 DEF ReplicaInv, Covered, Matches
  <2>14. ReplicaInv(poll[p])' /\ (poll[p].out = {})'
    BY <1>1, <2>2, <2>3, <2>4, <2>13
  <2>15. HandledInv'
    <3>1. CASE Matches(Line(p))
      <4>1. archive[s.obj] = s.text /\ s.obj \in Objects
        BY <1>1, <2>1, <2>3 DEF ReplicaInv, ReadInv, PollStates
      <4>2. <<s.obj, Line(p)>> \in published
        BY <2>7, <4>1 DEF CursorsSafe, PublishedInv
      <4> QED BY <2>1, <2>6, <3>1, <4>2 DEF CursorsSafe, HandledInv, Wanted, emitVars, Matches
    <3>2. CASE ~Matches(Line(p))
      BY <2>1, <2>6, <3>2 DEF CursorsSafe, HandledInv, Wanted, emitVars, Matches
    <3> QED BY <3>1, <3>2
  <2> QED BY <2>1, <2>5, <2>6, <2>14, <2>15, OneReplicaMoves
<1>8. CASE SaveReads(p)
  <2>1. PICK n \in PollStates : n = poll'[p]
    BY DEF TypeOK
  <2>2. UNCHANGED <<emitVars, cursor, handled>> /\ AllLinesRead(p)
        /\ poll' = [poll EXCEPT ![p] = [r EXCEPT !.pc = "put", !.mem = Advanced(p),
                                        !.snap = cursor, !.fresh = TRUE]]
    BY <1>8 DEF SaveReads, TypeOK
  <2>3. n.pc = "put" /\ n.todo = r.todo /\ n.mem = Advanced(p) /\ n.obj = r.obj
        /\ n.out = {} /\ n.text = r.text /\ n.snap = cursor
    BY <1>1, <2>1, <2>2 DEF PollStates, TypeOK
  <2>4. \A q \in Replicas \ {p} : poll'[q] = poll[q]
    BY <2>2 DEF TypeOK
  <2>5. \A w \in Workers : SafeCursor(w, n.snap[w])
    BY <2>3 DEF CursorsSafe
  <2> QED BY <2>1, <2>2, <2>3, <2>4, <2>5, SavingKeeps
<1>9. CASE SaveWrites(p)
  BY <1>9, SaveWritesKeeps
<1>10. CASE SaveConflicts(p)
  BY <1>10, RefusedKeeps DEF SaveConflicts
<1> QED BY <1>2, <1>3, <1>4, <1>5, <1>6, <1>7, <1>8, <1>9, <1>10 DEF PollStep

LEMMA PollFaultKeepsCursorsSafe ==
  ASSUME TypeOK, TypeOK', CursorsSafe, NEW p \in Replicas, PollFault(p)
  PROVE  CursorsSafe'
<1> DEFINE r == poll[p]
<1>1. r \in PollStates /\ ReplicaInv(r) /\ r.out = {}
  BY DEF TypeOK, CursorsSafe
<1>2. ASSUME NEW w \in Workers, LoadFails(p, w)
      PROVE  CursorsSafe'
  <2>1. SafeCursor(w, NoCursor) /\ NoCursor \in Cursors
    BY NoCursorIsSafe, NoCursorType
  <2> QED BY <1>2, <2>1, VisitKeeps DEF LoadFails
<1>3. CASE ListFails(p) \/ ReadFails(p) \/ CallbackRaises(p)
  <2>1. UNCHANGED <<emitVars, cursor, handled>>
        /\ poll' = [poll EXCEPT ![p] = Between(r.left, r.out)]
    BY <1>3 DEF ListFails, ReadFails, CallbackRaises, LeaveWorker
  <2>2. Between(r.left, r.out).pc = "worker" /\ Between(r.left, r.out).out = {}
    BY <1>1, BetweenRests
  <2> QED BY <2>1, <2>2, ReplicaRests
<1>4. CASE SaveReadFails(p)
  <2>1. UNCHANGED <<emitVars, cursor, handled>> /\ AllLinesRead(p)
    BY <1>4 DEF SaveReadFails
  <2>2. Advanced(p) \in Cursors
    BY <1>1, AdvanceType DEF Advanced, PollStates
  <2>3. CASE GcsStore
    <3>1. poll' = [poll EXCEPT ![p] = NextObject(p, Advanced(p))]
      BY <1>4, <2>3 DEF SaveReadFails
    <3> QED BY <2>1, <2>2, <3>1, AdvancedIsSafe, UnsavedKeeps
  <2>4. CASE ~GcsStore
    <3>1. PICK n \in PollStates : n = poll'[p]
      BY DEF TypeOK
    <3>2. poll' = [poll EXCEPT ![p] = [r EXCEPT !.pc = "put", !.mem = Advanced(p),
                                       !.snap = NoDocument, !.fresh = TRUE]]
      BY <1>4, <2>4 DEF SaveReadFails, TypeOK
    <3>3. n.pc = "put" /\ n.todo = r.todo /\ n.mem = Advanced(p) /\ n.obj = r.obj
          /\ n.out = {} /\ n.text = r.text /\ n.snap = NoDocument
      BY <1>1, <3>1, <3>2 DEF PollStates, TypeOK
    <3>4. \A q \in Replicas \ {p} : poll'[q] = poll[q]
      BY <3>2 DEF TypeOK
    <3>5. \A w \in Workers : SafeCursor(w, n.snap[w])
      BY <3>3, NoCursorIsSafe DEF NoDocument
    <3> QED BY <2>1, <3>1, <3>3, <3>4, <3>5, SavingKeeps
  <2> QED BY <2>3, <2>4
<1>5. CASE SaveFails(p)
  BY <1>5, RefusedKeeps DEF SaveFails
<1>6. CASE Crash(p)
  <2>1. UNCHANGED <<emitVars, cursor, handled>> /\ poll' = [poll EXCEPT ![p] = NotPolling]
    BY <1>6 DEF Crash
  <2>2. NotPolling.pc = "idle" /\ NotPolling.out = {}
    BY DEF NotPolling
  <2> QED BY <2>1, <2>2, ReplicaRests
<1> QED BY <1>2, <1>3, <1>4, <1>5, <1>6 DEF PollFault

-----------------------------------------------------------------------------
LEMMA InitIsSafe == Init => CursorsSafe
<1> SUFFICES ASSUME Init PROVE CursorsSafe
  OBVIOUS
<1>1. \A o \in Objects : archive[o] = <<>> /\ ~Exists(o)
  BY DEF Init, Exists
<1>2. EmitInv /\ PublishedInv /\ HandledInv
  BY <1>1 DEF Init, EmitInv, PublishedInv, HandledInv
<1>3. TypeOK
  BY NotPollingType, NoCursorType, MaxDateAssumption DEF Init, TypeOK, Bodies, Dates
<1>4. \A w \in Workers : SafeCursor(w, cursor[w])
  BY <1>3, NoCursorIsSafe DEF Init
<1>5. \A p \in Replicas : ReplicaInv(poll[p]) /\ poll[p].out = {}
  BY DEF Init, NotPolling, ReplicaInv
<1> QED BY <1>2, <1>4, <1>5 DEF CursorsSafe

LEMMA StepIsSafe ==
  ASSUME FreshRuns, SameDay, Callback, TypeOK, TypeOK', CursorsSafe, [Next]_vars
  PROVE  CursorsSafe'
<1>1. CASE UNCHANGED vars
  <2>1. Grows /\ UNCHANGED pollVars
    BY <1>1 DEF Grows, vars, emitVars, pollVars, TypeOK, Dates
  <2>2. EmitInv' /\ PublishedInv' /\ HandledInv'
    BY <1>1 DEF CursorsSafe, EmitInv, PublishedInv, HandledInv, Wanted, vars, emitVars,
                pollVars, Exists, ObjectOf
  <2> QED BY <2>1, <2>2, OthersKept, SafeGrows, ReplicaGrows DEF CursorsSafe
<1> QED BY <1>1, EmissionKeepsCursorsSafe, PollStepKeepsCursorsSafe,
           PollFaultKeepsCursorsSafe DEF Next

(* The cursors are safe: whatever a cursor claims, in the store, in a      *)
(* replica's memory or in a document about to be written back, has been    *)
(* given to the consumer.                                                  *)
THEOREM CursorsAlwaysSafe ==
  ASSUME FreshRuns, SameDay, Callback
  PROVE  Spec => []CursorsSafe
<1>1. Init => CursorsSafe
  BY InitIsSafe
<1>2. TypeOK /\ TypeOK' /\ CursorsSafe /\ [Next]_vars => CursorsSafe'
  BY StepIsSafe
<1> QED BY <1>1, <1>2, TypeCorrect, PTL DEF Spec

(* At-least-once delivery: no fault, crash or race of replicas makes a     *)
(* matching signal unreachable before the consumer has been given it.      *)
THEOREM AtLeastOnce ==
  ASSUME FreshRuns, SameDay, Callback
  PROVE  Spec => []NothingLost
<1>1. TypeOK /\ CursorsSafe => NothingLost
  <2> SUFFICES ASSUME TypeOK, CursorsSafe, NEW d \in published, Matches(d[2]),
                      d \notin handled
               PROVE  Reachable(d)
    BY DEF NothingLost
  <2>1. d[1] \in Objects /\ d[1].worker \in Workers /\ d = <<d[1], d[2]>>
    BY DEF TypeOK, Deliveries, Objects
  <2>2. PICK i \in DOMAIN archive[d[1]] : archive[d[1]][i] = d[2]
    BY DEF CursorsSafe, PublishedInv
  <2>3. ~Done(d[1])
    BY <2>1, <2>2 DEF Done
  <2>4. Exists(d[1])
    BY <2>2 DEF Exists
  <2>5. ~Covered(cursor[d[1].worker], d[1])
    BY <2>1, <2>3, <2>4 DEF CursorsSafe, SafeCursor
  <2> QED BY <2>2, <2>5 DEF Reachable
<1> QED BY <1>1, TypeCorrect, CursorsAlwaysSafe, PTL

-----------------------------------------------------------------------------
(* The refinement of AtLeastOnceTopic. *)

LEMMA AckedAreTaken ==
  ASSUME TypeOK, CursorsSafe
  PROVE  Acked \subseteq handled
<1> SUFFICES ASSUME NEW d \in Acked PROVE d \in handled
  OBVIOUS
<1>1. d \in published /\ Matches(d[2]) /\ Covered(cursor[d[1].worker], d[1])
      /\ d[1] \in Objects /\ d[1].worker \in Workers /\ d = <<d[1], d[2]>>
  BY DEF Acked, Wanted, TypeOK, Deliveries, Objects
<1>2. PICK i \in DOMAIN archive[d[1]] : archive[d[1]][i] = d[2]
  BY <1>1 DEF CursorsSafe, PublishedInv
<1>3. Done(d[1])
  BY <1>1, <1>2 DEF CursorsSafe, SafeCursor, Exists
<1> QED BY <1>1, <1>2, <1>3 DEF Done

LEMMA TopicUnchanged ==
  ASSUME UNCHANGED <<published, handled, cursor>>
  PROVE  UNCHANGED <<Wanted, handled, Acked>>
BY DEF Wanted, Acked, Covered, Matches

LEMMA StepRefines ==
  ASSUME TypeOK, TypeOK', CursorsSafe, CursorsSafe', Callback, [Next]_vars
  PROVE  [Topic!TopicNext]_(Topic!topicVars)
<1> USE DEF Topic!topicVars
<1>1. ASSUME NEW e \in inflight, UploadArchive(e)
      PROVE  Topic!Offer
  <2>1. UNCHANGED <<handled, cursor>> /\ published \subseteq published'
        /\ \A d \in published' \ published : d[1] = ObjectOf(e)
    BY <1>1 DEF UploadArchive, pollVars
  <2>2. ObjectOf(e) \in Objects /\ ~Exists(ObjectOf(e)) /\ ObjectOf(e).date = today
        /\ ObjectOf(e).worker \in Workers
    BY DEF CursorsSafe, EmitInv, ObjectOf, Objects, TypeOK, Emissions
  <2>3. ~Covered(cursor[ObjectOf(e).worker], ObjectOf(e))
    <3> DEFINE o == ObjectOf(e)
               c == cursor[o.worker]
    <3>1. SafeCursor(o.worker, c) /\ c \in Cursors
      BY <2>2 DEF CursorsSafe, TypeOK
    <3> SUFFICES ASSUME Covered(c, o) PROVE FALSE
      OBVIOUS
    <3>2. c.date = today /\ o.run \in c.runs
      BY <2>2, <3>1 DEF Covered, SafeCursor, Cursors, TypeOK, Dates
    <3>3. o = [worker |-> o.worker, date |-> c.date, run |-> o.run]
      BY <2>2, <3>2 DEF Objects
    <3> QED BY <2>2, <3>1, <3>2, <3>3 DEF SafeCursor
  <2>4. Wanted \subseteq Wanted' /\ Wanted' \subseteq Deliveries
    BY <2>1 DEF Wanted, Matches, TypeOK
  <2>5. Acked' = Acked
    BY <2>1, <2>3, <2>4 DEF Acked, Wanted, Covered, Matches
  <2> QED BY <2>1, <2>4, <2>5 DEF Topic!Offer
<1>2. ASSUME NEW p \in Replicas, Deliver(p)
      PROVE  Topic!Take
  <2>1. UNCHANGED <<published, cursor>> /\ handled \subseteq handled'
    BY <1>2 DEF Deliver, emitVars
  <2>2. Wanted' = Wanted /\ Acked' = Acked
    BY <2>1 DEF Wanted, Acked, Covered, Matches
  <2>3. handled' \subseteq Wanted
    BY <2>2 DEF CursorsSafe, HandledInv
  <2> QED BY <2>1, <2>2, <2>3 DEF Topic!Take
<1>3. ASSUME NEW p \in Replicas, SaveWrites(p)
      PROVE  Topic!Acknowledge
  <2>1. UNCHANGED <<published, handled>>
    BY <1>3 DEF SaveWrites, emitVars
  <2>2. Wanted' = Wanted
    BY <2>1 DEF Wanted, Matches
  <2>3. (Acked \subseteq handled)'
    BY AckedAreTaken, PTL
  <2> QED BY <2>1, <2>2, <2>3 DEF Topic!Acknowledge
<1>4. ASSUME UNCHANGED <<published, handled, cursor>>
      PROVE  [Topic!TopicNext]_(Topic!topicVars)
  BY <1>4, TopicUnchanged
<1>5. ASSUME Emit \/ NextDay
      PROVE  [Topic!TopicNext]_(Topic!topicVars)
  <2>1. CASE \E e \in inflight : UploadArchive(e)
    BY <1>1, <2>1 DEF Topic!TopicNext
  <2>2. CASE ~\E e \in inflight : UploadArchive(e)
    BY <1>4, <1>5, <2>2 DEF Emit, NextDay, EmitSignals, BridgeFailure, Begin,
                            UploadLatest, UploadFails, pollVars
  <2> QED BY <2>1, <2>2
<1>6. ASSUME NEW p \in Replicas, PollStep(p)
      PROVE  [Topic!TopicNext]_(Topic!topicVars)
  <2>1. CASE Deliver(p) \/ SaveWrites(p)
    BY <1>2, <1>3, <2>1 DEF Topic!TopicNext
  <2>2. CASE ReturnDeliveries(p)
    BY <1>4, <2>2 DEF ReturnDeliveries, CursorsSafe, emitVars
  <2>3. CASE ~(Deliver(p) \/ SaveWrites(p) \/ ReturnDeliveries(p))
    BY <1>4, <1>6, <2>3 DEF PollStep, StartPoll, LoadCursor, Visit, ListArchive, ReadObject,
                            SkipLine, SaveReads, SaveConflicts, SaveRefused, emitVars
  <2> QED BY <2>1, <2>2, <2>3
<1>7. ASSUME NEW p \in Replicas, PollFault(p)
      PROVE  [Topic!TopicNext]_(Topic!topicVars)
  BY <1>4, <1>7 DEF PollFault, LoadFails, Visit, ListFails, ReadFails, CallbackRaises,
                    SaveReadFails, SaveFails, SaveRefused, Crash, emitVars
<1>8. ASSUME UNCHANGED vars
      PROVE  [Topic!TopicNext]_(Topic!topicVars)
  BY <1>4, <1>8 DEF vars, emitVars, pollVars
<1> QED BY <1>5, <1>6, <1>7, <1>8 DEF Next

(* The signal bus implements an at-least-once topic: an object is          *)
(* acknowledged only after its matching signals were taken, although the   *)
(* stored cursor may move back.                                            *)
THEOREM BusImplementsTopic ==
  ASSUME FreshRuns, SameDay, Callback
  PROVE  Spec => ImplementsTopic
<1>1. Init => Topic!TopicInit
  BY DEF Init, Topic!TopicInit, Wanted, Acked
<1>2. TypeOK /\ TypeOK' /\ CursorsSafe /\ CursorsSafe' /\ [Next]_vars
        => [Topic!TopicNext]_(Topic!topicVars)
  BY StepRefines
<1> QED BY <1>1, <1>2, TypeCorrect, CursorsAlwaysSafe, PTL
        DEF Spec, ImplementsTopic, Topic!TopicSpec

-----------------------------------------------------------------------------
(* A lone consumer.  What its store cannot be read for, LoadFails and the   *)
(* file's SaveReadFails, starts it from nothing: with these the stored      *)
(* cursor does go back.                                                     *)

Lone == \A p, q \in Replicas : p = q
StoreIsRead == "load" \notin FaultKinds /\ ("saveRead" \in FaultKinds => GcsStore)

(* The cursor a replica works with is no further back than the stored one,  *)
(* and the document it is about to write back is the stored one.            *)
Ahead(c, w) == \A o \in Objects : o.worker = w /\ Covered(cursor[w], o) => Covered(c, o)
Holds(r) ==
  /\ r.pc \in {"list", "object", "line", "put"} => Ahead(r.mem, r.obj.worker)
  /\ r.pc = "put" => r.snap = cursor
AheadInv == \A p \in Replicas : Holds(poll[p])

(* A cursor that has advanced covers what it has covered.                   *)
LEMMA AdvanceCovers ==
  ASSUME NEW c \in Cursors, NEW o \in Objects, NEW q \in Objects, Covered(c, q)
  PROVE  Covered(Advance(c, o), q)
<1>1. /\ c.date \in Nat /\ o.date \in Nat /\ q.date \in Nat
      /\ c = [date |-> c.date, runs |-> c.runs]
  BY MaxDateAssumption DEF Cursors, Objects, Dates
<1>2. CASE o.date > c.date
  <2>1. Advance(c, o) = [date |-> o.date, runs |-> {o.run}]
    BY <1>2 DEF Advance
  <2>2. q.date < o.date
    BY <1>1, <1>2 DEF Covered
  <2>3. QED
    BY <2>1, <2>2 DEF Covered
<1>3. CASE ~(o.date > c.date)
  <2>1. Advance(c, o) = [date |-> c.date, runs |-> c.runs \cup {o.run}]
    BY <1>1, <1>3 DEF Advance
  <2>2. QED
    BY <2>1 DEF Covered
<1>4. QED
  BY <1>2, <1>3

(* It covers the object it has advanced over.                               *)
LEMMA AdvanceCoversIt ==
  ASSUME NEW c \in Cursors, NEW o \in Objects, ~Covered(c, o)
  PROVE  Covered(Advance(c, o), o)
<1>1. /\ c.date \in Nat /\ o.date \in Nat
      /\ c = [date |-> c.date, runs |-> c.runs]
  BY MaxDateAssumption DEF Cursors, Objects, Dates
<1>2. CASE o.date > c.date
  <2>1. Advance(c, o) = [date |-> o.date, runs |-> {o.run}]
    BY <1>2 DEF Advance
  <2>2. QED
    BY <2>1 DEF Covered
<1>3. CASE ~(o.date > c.date)
  <2>1. Advance(c, o) = [date |-> c.date, runs |-> c.runs \cup {o.run}]
    BY <1>1, <1>3 DEF Advance
  <2>2. o.date = c.date
    BY <1>1, <1>3 DEF Covered
  <2>3. QED
    BY <2>1, <2>2 DEF Covered
<1>4. QED
  BY <1>2, <1>3

(* A step of the lone replica that leaves the store alone.                  *)
LEMMA LoneMoves ==
  ASSUME Lone, AheadInv, NEW p \in Replicas, cursor' = cursor, poll'[p].pc \in {"idle", "worker"} \/
         ( /\ poll'[p].pc \in {"list", "object", "line", "put"} => Ahead(poll'[p].mem, poll'[p].obj.worker)
           /\ poll'[p].pc = "put" => poll'[p].snap = cursor )
  PROVE  AheadInv'
<1>1. ASSUME NEW q \in Replicas PROVE Holds(poll[q])'
  <2>1. q = p
    BY DEF Lone
  <2>2. QED
    BY <2>1 DEF Holds, Ahead
<1>2. QED
  BY <1>1 DEF AheadInv

(* The object or the worker at hand is left.                                *)
LEMMA LoneLeaves ==
  ASSUME TypeOK, Lone, AheadInv, NEW p \in Replicas, cursor' = cursor, NEW r,
         poll' = [poll EXCEPT ![p] = r], r.pc \in {"idle", "worker"}
  PROVE  AheadInv'
<1>1. poll'[p] = r
  BY DEF TypeOK
<1>2. QED
  BY <1>1, LoneMoves

(* What the next object's record is.                                        *)
LEMMA NextIs ==
  ASSUME TypeOK, NEW p \in Replicas, NEW c
  PROVE  LET r == NextObject(p, c) IN
         /\ r.pc \in {"worker", "object"} /\ r.out = poll[p].out
         /\ r.pc = "worker" => r.todo = {}
         /\ r.pc = "object" => /\ r.mem = c /\ r.obj.worker = poll[p].obj.worker
                               /\ r.todo = poll[p].todo \ {poll[p].obj}
<1> DEFINE rest == poll[p].todo \ {poll[p].obj}
           b == Between(poll[p].left, poll[p].out)
<1>1. poll[p].obj.worker \in Workers
  BY DEF TypeOK, PollStates, Objects
<1>2. Visiting(poll[p].obj.worker).worker = poll[p].obj.worker
  BY <1>1, VisitingType
<1>3. b.pc = "worker" /\ b.out = poll[p].out /\ b.todo = {}
  BY DEF Between, NotPolling
<1>4. b \in PollStates
  BY BetweenType DEF TypeOK, PollStates
<1>5. CASE rest = {}
  <2>1. NextObject(p, c) = b
    BY <1>5 DEF NextObject
  <2>2. QED
    BY <1>3, <2>1
<1>6. CASE rest # {}
  <2>1. NextObject(p, c) = [b EXCEPT !.pc = "object", !.todo = rest, !.mem = c,
                                     !.obj = Visiting(poll[p].obj.worker)]
    BY <1>6 DEF NextObject
  <2> HIDE DEF rest
  <2>2. /\ NextObject(p, c).pc = "object" /\ NextObject(p, c).mem = c /\ NextObject(p, c).todo = rest
        /\ NextObject(p, c).obj = Visiting(poll[p].obj.worker) /\ NextObject(p, c).out = poll[p].out
    <3> HIDE DEF b
    <3> QED BY <1>3, <1>4, <2>1 DEF PollStates
  <2>3. QED
    BY <1>2, <2>2 DEF rest
<1>7. QED
  BY <1>5, <1>6

(* The object at hand is left for the next one, the cursor advanced.        *)
LEMMA LoneGoesOn ==
  ASSUME TypeOK, Lone, AheadInv, NEW p \in Replicas, cursor' = cursor, NEW c,
         Ahead(c, poll[p].obj.worker), poll' = [poll EXCEPT ![p] = NextObject(p, c)]
  PROVE  AheadInv'
<1> DEFINE r == NextObject(p, c)
<1>1. poll'[p] = r
  BY DEF TypeOK
<1>2. /\ r.pc \in {"worker", "object"}
      /\ r.pc = "object" => r.mem = c /\ r.obj.worker = poll[p].obj.worker
  BY NextIs
<1> HIDE DEF r
<1>3. CASE r.pc = "worker"
  BY <1>1, <1>3, LoneMoves
<1>4. CASE r.pc = "object"
  <2>1. Ahead(poll'[p].mem, poll'[p].obj.worker)
    BY <1>1, <1>2, <1>4
  <2>2. QED
    BY <1>1, <1>4, <2>1, LoneMoves
<1>5. QED
  BY <1>2, <1>3, <1>4


(* A worker is visited with the stored cursor.                              *)
LEMMA VisitIsAhead ==
  ASSUME TypeOK, Lone, AheadInv, NEW p \in Replicas, NEW w \in Workers, LoadCursor(p, w)
  PROVE  AheadInv'
<1> DEFINE b == Between(poll[p].left \ {w}, poll[p].out)
           r == [b EXCEPT !.pc = "list", !.mem = cursor[w], !.obj = Visiting(w)]
<1>1. cursor' = cursor /\ poll' = [poll EXCEPT ![p] = r]
  BY DEF LoadCursor, Visit
<1>2. b \in PollStates
  BY BetweenType DEF TypeOK, PollStates
<1> HIDE DEF b
<1>3. r.pc = "list" /\ r.mem = cursor[w] /\ r.obj.worker = w
  BY <1>2, VisitingType DEF PollStates
<1> HIDE DEF r
<1>4. poll'[p] = r
  BY <1>1 DEF TypeOK
<1>5. Ahead(poll'[p].mem, poll'[p].obj.worker)
  BY <1>3, <1>4 DEF Ahead
<1>6. QED
  BY <1>1, <1>3, <1>4, <1>5, LoneMoves

(* A step within the object at hand leaves its cursor as it is.             *)
LEMMA SameCursor ==
  ASSUME TypeOK, Lone, AheadInv, NEW p \in Replicas, cursor' = cursor,
         poll[p].pc \in {"list", "object", "line"}, poll'[p].pc \in {"object", "line"},
         poll'[p].mem = poll[p].mem, poll'[p].obj.worker = poll[p].obj.worker
  PROVE  AheadInv'
<1>1. Ahead(poll'[p].mem, poll'[p].obj.worker)
  BY DEF AheadInv, Holds
<1>2. QED
  BY <1>1, LoneMoves

(* The cursor that would advance over the object at hand is ahead, too.     *)
LEMMA AdvancedIsAhead ==
  ASSUME TypeOK, AheadInv, NEW p \in Replicas, poll[p].pc = "line"
  PROVE  Ahead(Advanced(p), poll[p].obj.worker)
<1>1. poll[p].mem \in Cursors /\ poll[p].obj \in Objects
  BY DEF TypeOK, PollStates
<1>2. Ahead(poll[p].mem, poll[p].obj.worker)
  BY DEF AheadInv, Holds
<1>3. QED
  BY <1>1, <1>2, AdvanceCovers DEF Ahead, Advanced

(* Objects listed are of the worker visited.                                *)
Listed(r) == \A q \in r.todo : q.worker = r.obj.worker
ListedHere == \A p \in Replicas : Listed(poll[p])

(* Listing, reading and delivering leave the cursor at hand as it is.       *)
LEMMA LoneObject ==
  ASSUME TypeOK, Lone, AheadInv, ListedHere, NEW p \in Replicas,
         ListArchive(p) \/ ReadObject(p) \/ SkipLine(p) \/ Deliver(p)
  PROVE  AheadInv'
<1>1. cursor' = cursor /\ poll[p] \in PollStates
  BY DEF ListArchive, ReadObject, SkipLine, Deliver, TypeOK
<1>2. CASE ListArchive(p)
  <2>1. CASE poll' = [poll EXCEPT ![p] = Between(poll[p].left, poll[p].out)]
    BY <1>1, <2>1, BetweenRests, LoneLeaves
  <2>2. CASE \E found : poll' = [poll EXCEPT ![p].pc = "object", ![p].todo = found]
    <3>1. PICK found : poll' = [poll EXCEPT ![p].pc = "object", ![p].todo = found]
      BY <2>2
    <3>2. /\ poll'[p].pc = "object" /\ poll'[p].mem = poll[p].mem /\ poll'[p].obj = poll[p].obj
          /\ poll[p].pc = "list"
      BY <1>1, <1>2, <3>1 DEF TypeOK, PollStates, ListArchive
    <3>3. QED
      BY <1>1, <3>2, SameCursor
  <2>3. QED
    BY <1>2, <2>1, <2>2 DEF ListArchive, LeaveWorker
<1>3. CASE ReadObject(p)
  <2>1. PICK o \in poll[p].todo :
          poll' = [poll EXCEPT ![p].pc = "line", ![p].obj = o, ![p].text = archive[o], ![p].line = 1]
    BY <1>3 DEF ReadObject
  <2>2. /\ poll'[p].pc = "line" /\ poll'[p].mem = poll[p].mem /\ poll'[p].obj = o /\ poll[p].pc = "object"
    BY <1>1, <1>3, <2>1 DEF TypeOK, PollStates, ReadObject
  <2>3. poll'[p].obj.worker = poll[p].obj.worker
    BY <2>1, <2>2 DEF ListedHere, Listed
  <2>4. QED
    BY <1>1, <2>2, <2>3, SameCursor
<1>4. CASE SkipLine(p) \/ Deliver(p)
  <2>1. /\ poll'[p].pc = "line" /\ poll'[p].mem = poll[p].mem /\ poll'[p].obj = poll[p].obj
        /\ poll[p].pc = "line"
    <3>1. CASE SkipLine(p)
      BY <1>1, <3>1 DEF TypeOK, PollStates, SkipLine, AtLine
    <3>2. CASE Deliver(p)
      BY <1>1, <3>2 DEF TypeOK, PollStates, Deliver, AtLine
    <3>3. QED
      BY <1>4, <3>1, <3>2
  <2>2. QED
    BY <1>1, <2>1, SameCursor
<1>5. QED
  BY <1>2, <1>3, <1>4

(* A save reads the document there is, or is given up.                      *)
LEMMA LoneSaving ==
  ASSUME TypeOK, Lone, StoreIsRead, AheadInv, NEW p \in Replicas,
         SaveReads(p) \/ SaveReadFails(p) \/ SaveConflicts(p) \/ SaveFails(p)
  PROVE  AheadInv'
<1>1. cursor' = cursor /\ poll[p] \in PollStates
  BY DEF SaveReads, SaveReadFails, SaveConflicts, SaveFails, SaveRefused, TypeOK
<1>2. CASE SaveReads(p)
  <2>1. /\ poll' = [poll EXCEPT ![p].pc = "put", ![p].mem = Advanced(p), ![p].snap = cursor, ![p].fresh = TRUE]
        /\ poll[p].pc = "line"
    BY <1>2 DEF SaveReads, AllLinesRead
  <2>2. /\ poll'[p].mem = Advanced(p) /\ poll'[p].obj = poll[p].obj /\ poll'[p].snap = cursor
    BY <1>1, <2>1 DEF TypeOK, PollStates
  <2>3. Ahead(poll'[p].mem, poll'[p].obj.worker)
    BY <2>1, <2>2, AdvancedIsAhead
  <2>4. QED
    BY <1>1, <2>2, <2>3, LoneMoves
<1>3. CASE SaveReadFails(p)
  <2>1. GcsStore /\ poll[p].pc = "line"
    BY <1>3 DEF SaveReadFails, AllLinesRead, Fault, StoreIsRead
  <2>2. poll' = [poll EXCEPT ![p] = NextObject(p, Advanced(p))]
    BY <1>3, <2>1 DEF SaveReadFails
  <2>3. Ahead(Advanced(p), poll[p].obj.worker)
    BY <2>1, AdvancedIsAhead
  <2>4. QED
    BY <1>1, <2>2, <2>3, LoneGoesOn
<1>4. CASE SaveConflicts(p) \/ SaveFails(p)
  <2>1. poll[p].pc = "put" /\ poll' = [poll EXCEPT ![p] = NextObject(p, poll[p].mem)]
    BY <1>4 DEF SaveConflicts, SaveFails, SaveRefused
  <2>2. Ahead(poll[p].mem, poll[p].obj.worker)
    BY <2>1 DEF AheadInv, Holds
  <2>3. QED
    BY <1>1, <2>1, <2>2, LoneGoesOn
<1>5. QED
  BY <1>2, <1>3, <1>4

(* A save writes a cursor no further back than the one it replaces.         *)
LEMMA LoneSaves ==
  ASSUME TypeOK, Lone, AheadInv, NEW p \in Replicas, SaveWrites(p)
  PROVE  /\ AheadInv'
         /\ \A o \in Objects : Covered(cursor[o.worker], o) => Covered(cursor'[o.worker], o)
<1> DEFINE w == poll[p].obj.worker
           r == NextObject(p, poll[p].mem)
<1>1. /\ poll[p].pc = "put" /\ cursor' = [poll[p].snap EXCEPT ![w] = poll[p].mem]
      /\ poll' = [q \in Replicas |-> IF q = p THEN r ELSE [poll[q] EXCEPT !.fresh = FALSE]]
  BY DEF SaveWrites
<1>2. poll[p].snap = cursor /\ Ahead(poll[p].mem, w) /\ w \in Workers /\ cursor \in [Workers -> Cursors]
  BY <1>1 DEF AheadInv, Holds, TypeOK, PollStates, Objects
<1>3. cursor'[w] = poll[p].mem /\ \A v \in Workers \ {w} : cursor'[v] = cursor[v]
  BY <1>1, <1>2
<1>4. \A o \in Objects : Covered(cursor[o.worker], o) => Covered(cursor'[o.worker], o)
  <2> SUFFICES ASSUME NEW o \in Objects, Covered(cursor[o.worker], o) PROVE Covered(cursor'[o.worker], o)
    OBVIOUS
  <2>1. o.worker \in Workers
    BY DEF Objects
  <2>2. CASE o.worker = w
    BY <1>2, <1>3, <2>2 DEF Ahead
  <2>3. CASE o.worker # w
    BY <1>3, <2>1, <2>3
  <2>4. QED
    BY <2>2, <2>3
<1>5. poll'[p] = r
  BY <1>1
<1>6. /\ r.pc \in {"worker", "object"}
      /\ r.pc = "object" => r.mem = poll[p].mem /\ r.obj.worker = w
  BY NextIs
<1> HIDE DEF r, w
<1>7. ASSUME NEW q \in Replicas PROVE Holds(poll[q])'
  <2>1. q = p
    BY DEF Lone
  <2>2. poll'[p].pc = "object" => poll'[p].mem = cursor'[poll'[p].obj.worker]
    BY <1>3, <1>5, <1>6
  <2>3. poll'[p].pc \in {"worker", "object"}
    BY <1>5, <1>6
  <2>4. QED
    BY <2>1, <2>2, <2>3 DEF Holds, Ahead
<1>8. QED
  BY <1>4, <1>7 DEF AheadInv


(* A replica's record, replaced.                                            *)
LEMMA ListedKept ==
  ASSUME TypeOK, ListedHere, NEW p \in Replicas, NEW r, poll' = [poll EXCEPT ![p] = r], Listed(r)
  PROVE  ListedHere'
<1>1. \A q \in Replicas : poll'[q] = IF q = p THEN r ELSE poll[q]
  BY DEF TypeOK
<1>2. QED
  BY <1>1 DEF ListedHere, Listed

(* Nothing is listed between two workers.                                   *)
LEMMA NothingListed ==
  ASSUME TypeOK, ListedHere, NEW p \in Replicas, NEW left, NEW out,
         poll' = [poll EXCEPT ![p] = Between(left, out)]
  PROVE  ListedHere'
<1>1. Between(left, out).todo = {}
  BY DEF Between, NotPolling
<1>2. Listed(Between(left, out))
  BY <1>1 DEF Listed
<1>3. QED
  BY <1>2, ListedKept

(* The next object is of the same listing.                                  *)
LEMMA NextIsListed ==
  ASSUME TypeOK, ListedHere, NEW p \in Replicas, NEW c
  PROVE  Listed(NextObject(p, c))
<1> DEFINE r == NextObject(p, c)
<1>1. /\ r.pc \in {"worker", "object"}
      /\ r.pc = "worker" => r.todo = {}
      /\ r.pc = "object" => r.obj.worker = poll[p].obj.worker /\ r.todo = poll[p].todo \ {poll[p].obj}
  BY NextIs
<1> HIDE DEF r
<1>2. Listed(r)
  BY <1>1 DEF Listed, ListedHere
<1>3. QED
  BY <1>2 DEF r

(* The same objects, or fewer, of the same worker.                          *)
LEMMA SameListing ==
  ASSUME TypeOK, ListedHere, NEW p \in Replicas, NEW r, poll' = [poll EXCEPT ![p] = r],
         r.todo = poll[p].todo, r.obj = poll[p].obj
  PROVE  ListedHere'
<1>1. Listed(r)
  BY DEF Listed, ListedHere
<1>2. QED
  BY <1>1, ListedKept

(* Whatever a poll does, what is listed is of the worker visited.           *)
LEMMA PollStepLists ==
  ASSUME TypeOK, ListedHere, NEW p \in Replicas, PollStep(p)
  PROVE  ListedHere'
<1>1. poll[p] \in PollStates
  BY DEF TypeOK
<1>2. CASE StartPoll(p)
  BY <1>2, NothingListed DEF StartPoll
<1>3. CASE ReturnDeliveries(p)
  <2>1. Listed(NotPolling)
    BY DEF Listed, NotPolling
  <2>2. QED
    BY <1>3, <2>1, ListedKept DEF ReturnDeliveries
<1>4. CASE \E w \in Workers : LoadCursor(p, w)
  <2>1. PICK w \in Workers : LoadCursor(p, w)
    BY <1>4
  <2> DEFINE b == Between(poll[p].left \ {w}, poll[p].out)
             r == [b EXCEPT !.pc = "list", !.mem = cursor[w], !.obj = Visiting(w)]
  <2>2. poll' = [poll EXCEPT ![p] = r]
    BY <2>1 DEF LoadCursor, Visit
  <2>3. b \in PollStates /\ b.todo = {}
    BY <1>1, BetweenType DEF PollStates, Between, NotPolling
  <2> HIDE DEF b
  <2>4. r.todo = {}
    BY <2>3 DEF PollStates
  <2>5. Listed(r)
    BY <2>4 DEF Listed
  <2>6. QED
    BY <2>2, <2>5, ListedKept
<1>5. CASE ListArchive(p)
  <2>1. PICK found : found = ArchiveAfter(poll[p].obj.worker, poll[p].mem)
    OBVIOUS
  <2>2. CASE found = {}
    BY <1>5, <2>1, <2>2, NothingListed DEF ListArchive, LeaveWorker
  <2>3. CASE found # {}
    <3> DEFINE r == [poll[p] EXCEPT !.pc = "object", !.todo = found]
    <3>1. poll' = [poll EXCEPT ![p] = r]
      BY <1>5, <2>1, <2>3 DEF ListArchive
    <3>2. r.todo = found /\ r.obj = poll[p].obj
      BY <1>1 DEF PollStates
    <3>3. \A q \in found : q.worker = poll[p].obj.worker
      BY <2>1 DEF ArchiveAfter
    <3>4. Listed(r)
      BY <3>2, <3>3 DEF Listed
    <3>5. QED
      BY <3>1, <3>4, ListedKept
  <2>4. QED
    BY <2>2, <2>3
<1>6. CASE ReadObject(p)
  <2>1. PICK o \in poll[p].todo :
          poll' = [poll EXCEPT ![p].pc = "line", ![p].obj = o, ![p].text = archive[o], ![p].line = 1]
    BY <1>6 DEF ReadObject
  <2> DEFINE r == [poll[p] EXCEPT !.pc = "line", !.obj = o, !.text = archive[o], !.line = 1]
  <2>2. poll' = [poll EXCEPT ![p] = r]
    BY <2>1
  <2>3. r.todo = poll[p].todo /\ r.obj = o
    BY <1>1 DEF PollStates
  <2>4. \A q \in poll[p].todo : q.worker = o.worker
    BY <2>1 DEF ListedHere, Listed
  <2>5. Listed(r)
    BY <2>3, <2>4 DEF Listed
  <2>6. QED
    BY <2>2, <2>5, ListedKept
<1>7. CASE SkipLine(p) \/ Deliver(p)
  <2>1. \/ poll' = [poll EXCEPT ![p] = [poll[p] EXCEPT !.line = @ + 1]]
        \/ \E d : poll' = [poll EXCEPT ![p] = [poll[p] EXCEPT !.line = @ + 1, !.out = @ \cup {d}]]
    BY <1>7 DEF SkipLine, Deliver
  <2>2. \A d : LET r == [poll[p] EXCEPT !.line = @ + 1, !.out = @ \cup {d}] IN
               r.todo = poll[p].todo /\ r.obj = poll[p].obj
    BY <1>1 DEF PollStates
  <2>3. LET r == [poll[p] EXCEPT !.line = @ + 1] IN r.todo = poll[p].todo /\ r.obj = poll[p].obj
    BY <1>1 DEF PollStates
  <2>4. QED
    BY <2>1, <2>2, <2>3, SameListing
<1>8. CASE SaveReads(p)
  <2> DEFINE r == [poll[p] EXCEPT !.pc = "put", !.mem = Advanced(p), !.snap = cursor, !.fresh = TRUE]
  <2>1. poll' = [poll EXCEPT ![p] = r]
    BY <1>8 DEF SaveReads
  <2>2. r.todo = poll[p].todo /\ r.obj = poll[p].obj
    BY <1>1 DEF PollStates
  <2>3. QED
    BY <2>1, <2>2, SameListing
<1>9. CASE SaveWrites(p)
  <2>1. poll' = [q \in Replicas |->
                   IF q = p THEN NextObject(p, poll[p].mem) ELSE [poll[q] EXCEPT !.fresh = FALSE]]
    BY <1>9 DEF SaveWrites
  <2>2. ASSUME NEW q \in Replicas PROVE Listed(poll'[q])
    <3>1. CASE q = p
      BY <2>1, <3>1, NextIsListed
    <3>2. CASE q # p
      <4>1. poll[q] \in PollStates /\ Listed(poll[q])
        BY DEF TypeOK, ListedHere
      <4>2. poll'[q] = [poll[q] EXCEPT !.fresh = FALSE]
        BY <2>1, <3>2
      <4>3. poll'[q].todo = poll[q].todo /\ poll'[q].obj = poll[q].obj
        BY <4>1, <4>2 DEF PollStates
      <4>4. QED
        BY <4>1, <4>3 DEF Listed
    <3>3. QED
      BY <3>1, <3>2
  <2>3. QED
    BY <2>2 DEF ListedHere, Listed
<1>10. CASE SaveConflicts(p)
  BY <1>10, NextIsListed, ListedKept DEF SaveConflicts, SaveRefused
<1>11. QED
  BY <1>2, <1>3, <1>4, <1>5, <1>6, <1>7, <1>8, <1>9, <1>10 DEF PollStep

(* Nor does a fault list anything else.                                     *)
LEMMA PollFaultLists ==
  ASSUME TypeOK, ListedHere, NEW p \in Replicas, PollFault(p)
  PROVE  ListedHere'
<1>1. poll[p] \in PollStates
  BY DEF TypeOK
<1>2. CASE \E w \in Workers : LoadFails(p, w)
  <2>1. PICK w \in Workers : LoadFails(p, w)
    BY <1>2
  <2> DEFINE b == Between(poll[p].left \ {w}, poll[p].out)
             r == [b EXCEPT !.pc = "list", !.mem = NoCursor, !.obj = Visiting(w)]
  <2>2. poll' = [poll EXCEPT ![p] = r]
    BY <2>1 DEF LoadFails, Visit
  <2>3. b \in PollStates /\ b.todo = {}
    BY <1>1, BetweenType DEF PollStates, Between, NotPolling
  <2> HIDE DEF b
  <2>4. r.todo = {}
    BY <2>3 DEF PollStates
  <2>5. Listed(r)
    BY <2>4 DEF Listed
  <2>6. QED
    BY <2>2, <2>5, ListedKept
<1>3. CASE ListFails(p) \/ ReadFails(p) \/ CallbackRaises(p)
  BY <1>3, NothingListed DEF ListFails, ReadFails, CallbackRaises, LeaveWorker
<1>4. CASE SaveReadFails(p)
  <2> DEFINE r == [poll[p] EXCEPT !.pc = "put", !.mem = Advanced(p), !.snap = NoDocument, !.fresh = TRUE]
  <2>1. poll' = [poll EXCEPT ![p] = r] \/ poll' = [poll EXCEPT ![p] = NextObject(p, Advanced(p))]
    BY <1>4 DEF SaveReadFails
  <2>2. r.todo = poll[p].todo /\ r.obj = poll[p].obj
    BY <1>1 DEF PollStates
  <2> HIDE DEF r
  <2>3. QED
    BY <2>1, <2>2, SameListing, NextIsListed, ListedKept
<1>5. CASE SaveFails(p)
  BY <1>5, NextIsListed, ListedKept DEF SaveFails, SaveRefused
<1>6. CASE Crash(p)
  <2>1. Listed(NotPolling)
    BY DEF Listed, NotPolling
  <2>2. QED
    BY <1>6, <2>1, ListedKept DEF Crash
<1>7. QED
  BY <1>2, <1>3, <1>4, <1>5, <1>6 DEF PollFault

(* It is so in every run of the bus.                                        *)
LEMMA ListedAlways == Spec => []ListedHere
<1>1. Init => ListedHere
  BY DEF Init, ListedHere, Listed, NotPolling
<1>2. TypeOK /\ ListedHere /\ [Next]_vars => ListedHere'
  <2> SUFFICES ASSUME TypeOK, ListedHere, [Next]_vars PROVE ListedHere'
    OBVIOUS
  <2>1. CASE poll' = poll
    BY <2>1 DEF ListedHere
  <2>2. CASE \E p \in Replicas : PollStep(p) \/ PollFault(p)
    BY <2>2, PollStepLists, PollFaultLists
  <2>3. Emit \/ NextDay \/ UNCHANGED vars => poll' = poll
    BY DEF Emit, EmitSignals, BridgeFailure, Begin, UploadLatest, UploadArchive, UploadFails, NextDay,
           vars, pollVars
  <2>4. QED
    BY <2>1, <2>2, <2>3 DEF Next
<1>3. QED
  BY <1>1, <1>2, TypeCorrect, PTL DEF Spec


(* Every step of the bus, when the store can be read.                       *)
LEMMA LoneStep ==
  ASSUME TypeOK, Lone, StoreIsRead, AheadInv, ListedHere, [Next]_vars
  PROVE  /\ AheadInv'
         /\ \A o \in Objects : Covered(cursor[o.worker], o) => Covered(cursor'[o.worker], o)
<1>1. CASE UNCHANGED <<cursor, poll>>
  BY <1>1 DEF AheadInv, Holds, Ahead
<1>2. CASE Emit \/ NextDay \/ UNCHANGED vars
  <2>1. UNCHANGED <<cursor, poll>>
    BY <1>2 DEF Emit, EmitSignals, BridgeFailure, Begin, UploadLatest, UploadArchive, UploadFails, NextDay,
           vars, pollVars
  <2>2. QED
    BY <1>1, <2>1
<1>3. ASSUME NEW p \in Replicas, SaveWrites(p)
      PROVE  /\ AheadInv'
             /\ \A o \in Objects : Covered(cursor[o.worker], o) => Covered(cursor'[o.worker], o)
  BY <1>3, LoneSaves
<1>4. ASSUME NEW p \in Replicas, PollStep(p) \/ PollFault(p), ~SaveWrites(p) PROVE AheadInv' /\ cursor' = cursor
  <2>1. CASE StartPoll(p) \/ ReturnDeliveries(p)
    <3>1. cursor' = cursor /\ \E r : poll' = [poll EXCEPT ![p] = r] /\ r.pc \in {"idle", "worker"}
      BY <2>1, BetweenRests DEF StartPoll, ReturnDeliveries, NotPolling
    <3>2. QED
      BY <3>1, LoneLeaves
  <2>2. CASE ListFails(p) \/ ReadFails(p) \/ CallbackRaises(p) \/ Crash(p)
    <3>1. cursor' = cursor /\ \E r : poll' = [poll EXCEPT ![p] = r] /\ r.pc \in {"idle", "worker"}
      BY <2>2, BetweenRests DEF ListFails, ReadFails, CallbackRaises, Crash, LeaveWorker, NotPolling
    <3>2. QED
      BY <3>1, LoneLeaves
  <2>3. CASE \E w \in Workers : LoadCursor(p, w)
    <3>1. cursor' = cursor
      BY <2>3 DEF LoadCursor, Visit
    <3>2. QED
      BY <2>3, <3>1, VisitIsAhead
  <2>4. CASE \E w \in Workers : LoadFails(p, w)
    BY <2>4 DEF LoadFails, Fault, StoreIsRead
  <2>5. CASE ListArchive(p) \/ ReadObject(p) \/ SkipLine(p) \/ Deliver(p)
    <3>1. cursor' = cursor
      BY <2>5 DEF ListArchive, ReadObject, SkipLine, Deliver
    <3>2. QED
      BY <2>5, <3>1, LoneObject
  <2>6. CASE SaveReads(p) \/ SaveReadFails(p) \/ SaveConflicts(p) \/ SaveFails(p)
    <3>1. cursor' = cursor
      BY <2>6 DEF SaveReads, SaveReadFails, SaveConflicts, SaveFails, SaveRefused
    <3>2. QED
      BY <2>6, <3>1, LoneSaving
  <2>7. QED
    BY <1>4, <2>1, <2>2, <2>3, <2>4, <2>5, <2>6 DEF PollStep, PollFault
<1>5. QED
  BY <1>2, <1>3, <1>4 DEF Next

(* The stored cursor of a lone consumer whose store can be read never       *)
(* forgets an object it has committed, whatever saves fail and however      *)
(* often it dies: with either store, any workers, runs and filters.         *)
THEOREM LoneCursorAdvances ==
  ASSUME Lone, StoreIsRead
  PROVE  Spec => StoredCursorOnlyAdvances
<1>1. Init => AheadInv
  BY DEF Init, AheadInv, Holds, NotPolling
<1>2. TypeOK /\ ListedHere /\ AheadInv /\ [Next]_vars => AheadInv'
  BY LoneStep
<1>3. TypeOK /\ ListedHere /\ AheadInv /\ [Next]_vars =>
        [\A o \in Objects : Covered(cursor[o.worker], o) => Covered(cursor'[o.worker], o)]_vars
  BY LoneStep
<1>4. QED
  BY <1>1, <1>2, <1>3, TypeCorrect, ListedAlways, PTL DEF Spec, StoredCursorOnlyAdvances


-----------------------------------------------------------------------------
(* No duplicate without a fault.  What the lone consumer has been given, or *)
(* poll() has collected for it, is in objects the stored cursor covers, but *)
(* for the lines read of the object at hand; and what is listed is not      *)
(* covered.                                                                 *)

(* No emission carries a line twice.                                        *)
NoTwins == \A body \in Scans : \A i, j \in DOMAIN body : body[i] = body[j] => i = j

Given(r) == handled \cup r.out
Stored(o) == Covered(cursor[o.worker], o)
AtHand(r, o) == r.pc \in {"line", "put"} /\ o = r.obj

OnceReplica(r) ==
  /\ handled \cap r.out = {}
  /\ Callback => r.out = {}
  /\ r.pc = "idle" => r.out = {}
  /\ \A d \in Given(r) : Stored(d[1]) \/ AtHand(r, d[1])
  /\ r.pc \in {"list", "object", "line"} => r.mem = cursor[r.obj.worker]
  /\ \A q \in r.todo : ~Stored(q)
  /\ r.pc \in {"worker", "list"} => r.todo = {}
  /\ r.pc \in {"line", "put"} => r.obj \in r.todo /\ \A q \in r.todo : NotAfter(r.obj, q)
  /\ r.pc = "line" =>
       \A d \in Given(r) : d[1] = r.obj => \E i \in DOMAIN r.text : i < r.line /\ r.text[i] = d[2]
  /\ r.pc = "put" => r.mem = Advance(cursor[r.obj.worker], r.obj) /\ r.snap = cursor /\ r.fresh

OnceInv == redelivered = {} /\ \A p \in Replicas : OnceReplica(poll[p])

(* A later object is not covered by advancing over an earlier one.          *)
LEMMA LaterIsLeft ==
  ASSUME NEW c \in Cursors, NEW o \in Objects, NEW q \in Objects, o.worker = q.worker, o # q,
         ~Covered(c, o), ~Covered(c, q), NotAfter(o, q)
  PROVE  ~Covered(Advance(c, o), q)
<1>1. /\ c.date \in Nat /\ o.date \in Nat /\ q.date \in Nat
      /\ c = [date |-> c.date, runs |-> c.runs]
  BY MaxDateAssumption DEF Cursors, Objects, Dates
<1>2. o.date # q.date \/ o.run # q.run
  <2>1. /\ o = [worker |-> o.worker, date |-> o.date, run |-> o.run]
        /\ q = [worker |-> q.worker, date |-> q.date, run |-> q.run]
    BY DEF Objects
  <2>2. QED
    BY <2>1
<1>3. CASE o.date > c.date
  <2>1. Advance(c, o) = [date |-> o.date, runs |-> {o.run}]
    BY <1>3 DEF Advance
  <2>2. QED
    BY <1>1, <1>2, <2>1 DEF Covered, NotAfter
<1>4. CASE ~(o.date > c.date)
  <2>1. Advance(c, o) = [date |-> c.date, runs |-> c.runs \cup {o.run}]
    BY <1>1, <1>4 DEF Advance
  <2>2. QED
    BY <1>1, <1>2, <1>4, <2>1 DEF Covered, NotAfter
<1>5. QED
  BY <1>3, <1>4

(* The lines of an object are distinct.                                     *)
LEMMA NoTwinInBody ==
  ASSUME NoTwins, NEW body \in Bodies, NEW i \in DOMAIN body, NEW j \in DOMAIN body, body[i] = body[j]
  PROVE  i = j
<1>1. CASE body \in Scans
  BY <1>1 DEF NoTwins
<1>2. CASE body = <<>>
  BY <1>2
<1>3. CASE body = <<Anomaly>>
  BY <1>3
<1>4. QED
  BY <1>1, <1>2, <1>3 DEF Bodies

(* The record of the lone replica is the only one.                          *)
LEMMA OnceMoves ==
  ASSUME Lone, NEW p \in Replicas, OnceReplica(poll[p])', redelivered' = {}
  PROVE  OnceInv'
<1>1. ASSUME NEW q \in Replicas PROVE OnceReplica(poll[q])'
  <2>1. q = p
    BY DEF Lone
  <2>2. QED
    BY <2>1
<1>2. QED
  BY <1>1 DEF OnceInv

(* What is given, what is stored and what is at hand, after a step that     *)
(* leaves the store and what has been handled.                              *)
LEMMA OnceLeaves ==
  ASSUME TypeOK, Lone, OnceInv, NEW p \in Replicas, NEW r, poll' = [poll EXCEPT ![p] = r],
         UNCHANGED <<cursor, handled, redelivered>>,
         r.pc = "worker", r.out = poll[p].out, r.todo = {}, poll[p].pc \in {"idle", "worker", "list"}
  PROVE  OnceInv'
<1>1. poll'[p] = r /\ OnceReplica(poll[p]) /\ redelivered = {}
  BY DEF TypeOK, OnceInv
<1>2. OnceReplica(poll[p])'
  BY <1>1 DEF OnceReplica, Given, Stored, AtHand
<1>3. QED
  BY <1>1, <1>2, OnceMoves


(* A poll starts, returns, and visits a worker with the stored cursor.      *)
LEMMA OnceVisits ==
  ASSUME TypeOK, Lone, OnceInv, NEW p \in Replicas,
         StartPoll(p) \/ ReturnDeliveries(p) \/ \E w \in Workers : LoadCursor(p, w)
  PROVE  OnceInv'
<1>1. poll[p] \in PollStates /\ OnceReplica(poll[p]) /\ redelivered = {}
  BY DEF TypeOK, OnceInv
<1>2. CASE StartPoll(p)
  <2>1. PICK left : poll' = [poll EXCEPT ![p] = Between(left, {})]
    BY <1>2 DEF StartPoll
  <2>2. poll[p].pc = "idle" /\ poll[p].out = {} /\ UNCHANGED <<cursor, handled, redelivered>>
    BY <1>1, <1>2 DEF StartPoll, OnceReplica
  <2>3. Between(left, {}).pc = "worker" /\ Between(left, {}).out = {} /\ Between(left, {}).todo = {}
    BY DEF Between, NotPolling
  <2>4. QED
    BY <2>1, <2>2, <2>3, OnceLeaves
<1>3. CASE ReturnDeliveries(p)
  <2>1. /\ handled' = handled \cup poll[p].out /\ redelivered' = redelivered \cup (handled \cap poll[p].out)
        /\ poll'[p] = NotPolling /\ cursor' = cursor /\ poll[p].pc = "worker"
    BY <1>3 DEF ReturnDeliveries, TypeOK
  <2>2. NotPolling.pc = "idle" /\ NotPolling.out = {} /\ NotPolling.todo = {}
    BY DEF NotPolling
  <2>3. redelivered' = {}
    BY <1>1, <2>1 DEF OnceReplica
  <2>4. handled' \cup poll'[p].out = Given(poll[p])
    BY <2>1, <2>2 DEF Given
  <2>5. \A d \in Given(poll[p]) : Stored(d[1])
    BY <1>1, <2>1 DEF OnceReplica, AtHand
  <2>6. OnceReplica(poll[p])'
    BY <2>1, <2>2, <2>4, <2>5 DEF OnceReplica, Given, Stored, AtHand
  <2>7. QED
    BY <2>3, <2>6, OnceMoves
<1>4. CASE \E w \in Workers : LoadCursor(p, w)
  <2>1. PICK w \in Workers : LoadCursor(p, w)
    BY <1>4
  <2> DEFINE b == Between(poll[p].left \ {w}, poll[p].out)
             r == [b EXCEPT !.pc = "list", !.mem = cursor[w], !.obj = Visiting(w)]
  <2>2. /\ poll' = [poll EXCEPT ![p] = r] /\ UNCHANGED <<cursor, handled, redelivered>> /\ poll[p].pc = "worker"
    BY <2>1 DEF LoadCursor, Visit
  <2>3. b \in PollStates /\ b.todo = {} /\ b.out = poll[p].out
    BY <1>1, BetweenType DEF PollStates, Between, NotPolling
  <2> HIDE DEF b
  <2>4. r.pc = "list" /\ r.mem = cursor[w] /\ r.obj.worker = w /\ r.todo = {} /\ r.out = poll[p].out
    BY <2>3, VisitingType DEF PollStates
  <2> HIDE DEF r
  <2>5. poll'[p] = r
    BY <2>2 DEF TypeOK
  <2>6. OnceReplica(poll[p])'
    BY <1>1, <2>2, <2>4, <2>5 DEF OnceReplica, Given, Stored, AtHand
  <2>7. QED
    BY <1>1, <2>2, <2>6, OnceMoves
<1>5. QED
  BY <1>2, <1>3, <1>4

(* A listing, and its next object: none of it has been given.               *)
LEMMA OnceLists ==
  ASSUME TypeOK, Lone, OnceInv, ListedHere, NEW p \in Replicas, ListArchive(p) \/ ReadObject(p)
  PROVE  OnceInv'
<1>1. /\ poll[p] \in PollStates /\ OnceReplica(poll[p]) /\ redelivered = {}
      /\ UNCHANGED <<cursor, handled, redelivered>>
  BY DEF TypeOK, OnceInv, ListArchive, ReadObject
<1>2. CASE ListArchive(p)
  <2>1. PICK found : found = ArchiveAfter(poll[p].obj.worker, poll[p].mem)
    OBVIOUS
  <2>2. poll[p].pc = "list"
    BY <1>2 DEF ListArchive
  <2>3. CASE found = {}
    <3>1. poll' = [poll EXCEPT ![p] = Between(poll[p].left, poll[p].out)]
      BY <1>2, <2>1, <2>3 DEF ListArchive, LeaveWorker
    <3>2. LET b == Between(poll[p].left, poll[p].out) IN b.pc = "worker" /\ b.out = poll[p].out /\ b.todo = {}
      BY DEF Between, NotPolling
    <3>3. QED
      BY <1>1, <2>2, <3>1, <3>2, OnceLeaves
  <2>4. CASE found # {}
    <3> DEFINE r == [poll[p] EXCEPT !.pc = "object", !.todo = found]
    <3>1. poll' = [poll EXCEPT ![p] = r]
      BY <1>2, <2>1, <2>4 DEF ListArchive
    <3>2. r.todo = found /\ r.obj = poll[p].obj /\ r.pc = "object" /\ r.mem = poll[p].mem /\ r.out = poll[p].out
      BY <1>1 DEF PollStates
    <3> HIDE DEF r
    <3>3. poll'[p] = r
      BY <3>1 DEF TypeOK
    <3>4. poll[p].mem = cursor[poll[p].obj.worker]
      BY <1>1, <2>2 DEF OnceReplica
    <3>5. \A q \in found : ~Stored(q)
      BY <2>1, <3>4 DEF ArchiveAfter, Stored
    <3>6. OnceReplica(poll[p])'
      BY <1>1, <2>2, <3>2, <3>3, <3>5 DEF OnceReplica, Given, Stored, AtHand
    <3>7. QED
      BY <1>1, <3>6, OnceMoves
  <2>5. QED
    BY <2>3, <2>4
<1>3. CASE ReadObject(p)
  <2>1. PICK o \in poll[p].todo :
          /\ \A q \in poll[p].todo : NotAfter(o, q)
          /\ poll' = [poll EXCEPT ![p].pc = "line", ![p].obj = o, ![p].text = archive[o], ![p].line = 1]
    BY <1>3 DEF ReadObject
  <2> DEFINE r == [poll[p] EXCEPT !.pc = "line", !.obj = o, !.text = archive[o], !.line = 1]
  <2>2. poll' = [poll EXCEPT ![p] = r] /\ poll[p].pc = "object"
    BY <1>3, <2>1 DEF ReadObject
  <2>3. /\ r.todo = poll[p].todo /\ r.obj = o /\ r.pc = "line" /\ r.mem = poll[p].mem /\ r.out = poll[p].out
    BY <1>1 DEF PollStates
  <2> HIDE DEF r
  <2>4. poll'[p] = r
    BY <2>2 DEF TypeOK
  <2>5. r.mem = cursor[r.obj.worker]
    <3>1. poll[p].mem = cursor[poll[p].obj.worker]
      BY <1>1, <2>2 DEF OnceReplica
    <3>2. o.worker = poll[p].obj.worker
      BY <2>1 DEF ListedHere, Listed
    <3>3. QED
      BY <2>3, <3>1, <3>2
  <2>6. /\ ~Stored(o) /\ \A d \in Given(poll[p]) : Stored(d[1])
    BY <1>1, <2>1, <2>2 DEF OnceReplica, AtHand
  <2>7. OnceReplica(poll[p])'
    <3>1. \A d \in Given(poll[p]) : d[1] # o
      BY <2>6
    <3>2. Given(poll[p])' = Given(poll[p])
      BY <1>1, <2>3, <2>4 DEF Given
    <3>3. \A d \in Given(poll[p])' : Stored(d[1])'
      BY <1>1, <2>6, <3>2 DEF Stored
    <3>4. \A d \in Given(poll[p])' : d[1] # poll'[p].obj
      BY <2>3, <2>4, <3>1, <3>2
    <3>5. \A q \in poll'[p].todo : ~Stored(q)'
      BY <1>1, <2>3, <2>4 DEF OnceReplica, Stored
    <3>6. /\ poll'[p].pc = "line" /\ poll'[p].out = poll[p].out /\ poll'[p].obj \in poll'[p].todo
          /\ poll'[p].mem = cursor'[poll'[p].obj.worker] /\ \A q \in poll'[p].todo : NotAfter(poll'[p].obj, q)
      BY <1>1, <2>1, <2>3, <2>4, <2>5
    <3>7. handled' \cap poll'[p].out = {} /\ (Callback => poll'[p].out = {})
      BY <1>1, <3>6 DEF OnceReplica
    <3>8. QED
      BY <3>3, <3>4, <3>5, <3>6, <3>7 DEF OnceReplica, AtHand
  <2>8. QED
    BY <1>1, <2>7, OnceMoves
<1>4. QED
  BY <1>2, <1>3

(* A line is passed over.                                                   *)
LEMMA OnceSkips ==
  ASSUME TypeOK, Lone, OnceInv, NEW p \in Replicas, SkipLine(p)
  PROVE  OnceInv'
<1>1. /\ poll[p] \in PollStates /\ OnceReplica(poll[p]) /\ redelivered = {} /\ poll[p].pc = "line"
      /\ UNCHANGED <<cursor, handled, redelivered>>
  BY DEF TypeOK, OnceInv, SkipLine, AtLine
<1> DEFINE r == [poll[p] EXCEPT !.line = @ + 1]
<1>2. poll' = [poll EXCEPT ![p] = r]
  BY DEF SkipLine
<1>3. /\ r.todo = poll[p].todo /\ r.obj = poll[p].obj /\ r.pc = "line" /\ r.mem = poll[p].mem
      /\ r.out = poll[p].out /\ r.text = poll[p].text /\ r.line = poll[p].line + 1
  BY <1>1 DEF PollStates
<1> HIDE DEF r
<1>4. poll'[p] = r
  BY <1>2 DEF TypeOK
<1>5. poll[p].text \in Seq(Signals) /\ poll[p].line \in Nat
  BY <1>1, BodiesAreSequences DEF PollStates
<1>6. \A i \in DOMAIN poll[p].text : i < poll[p].line => i < poll[p].line + 1
  BY <1>5
<1>7. OnceReplica(poll[p])'
  <2>1. \A d \in Given(poll[p])' : d[1] = poll'[p].obj =>
          \E i \in DOMAIN poll'[p].text : i < poll'[p].line /\ poll'[p].text[i] = d[2]
    BY <1>1, <1>3, <1>4, <1>6 DEF OnceReplica, Given
  <2>2. /\ \A d \in Given(poll[p])' : Stored(d[1])' \/ AtHand(poll[p], d[1])'
        /\ \A q \in poll'[p].todo : ~Stored(q)'
    BY <1>1, <1>3, <1>4 DEF OnceReplica, Given, Stored, AtHand
  <2>3. QED
    BY <1>1, <1>3, <1>4, <2>1, <2>2 DEF OnceReplica
<1>8. QED
  BY <1>1, <1>7, OnceMoves


(* A line is delivered, for the first time.                                 *)
LEMMA OnceDelivers ==
  ASSUME TypeOK, Lone, NoTwins, OnceInv, NEW p \in Replicas, Deliver(p)
  PROVE  OnceInv'
<1> DEFINE d == <<poll[p].obj, Line(p)>>
           n == poll[p].line
           text == poll[p].text
<1>1. /\ poll[p] \in PollStates /\ OnceReplica(poll[p]) /\ redelivered = {} /\ poll[p].pc = "line"
      /\ cursor' = cursor
  BY DEF TypeOK, OnceInv, Deliver, AtLine
<1>2. /\ text \in Bodies /\ n \in DOMAIN text /\ text[n] = Line(p) /\ \A i \in DOMAIN text : i \in Nat
  <2>1. text \in Bodies /\ text \in Seq(Signals) /\ n \in Nat \ {0} /\ n <= Len(text)
    BY <1>1, BodiesAreSequences DEF PollStates, Deliver, AtLine
  <2>2. QED
    BY <2>1 DEF Line
<1>3. d[1] = poll[p].obj /\ d[2] = Line(p)
  OBVIOUS
<1> HIDE DEF d
<1>4. d \notin Given(poll[p])
  <2>1. ASSUME d \in Given(poll[p]) PROVE FALSE
    <3>1. PICK i \in DOMAIN text : i < n /\ text[i] = text[n]
      BY <1>1, <1>2, <1>3, <2>1 DEF OnceReplica
    <3>2. i = n
      BY <1>2, <3>1, NoTwinInBody
    <3>3. QED
      BY <1>2, <3>1, <3>2
  <2>2. QED
    BY <2>1
<1>5. /\ handled' \cup poll'[p].out = Given(poll[p]) \cup {d} /\ handled' \cap poll'[p].out = {}
      /\ (Callback => poll'[p].out = {}) /\ redelivered' = {}
      /\ poll'[p].todo = poll[p].todo /\ poll'[p].obj = poll[p].obj /\ poll'[p].pc = "line"
      /\ poll'[p].mem = poll[p].mem /\ poll'[p].text = text /\ poll'[p].line = n + 1
  <2>1. CASE Callback
    <3> DEFINE r == [poll[p] EXCEPT !.line = @ + 1]
    <3>1. /\ handled' = handled \cup {d} /\ redelivered' = redelivered \cup (handled \cap {d})
          /\ poll' = [poll EXCEPT ![p] = r]
      BY <2>1 DEF Deliver, d
    <3>2. /\ r.todo = poll[p].todo /\ r.obj = poll[p].obj /\ r.pc = "line" /\ r.mem = poll[p].mem
          /\ r.out = poll[p].out /\ r.text = text /\ r.line = n + 1
      BY <1>1 DEF PollStates
    <3> HIDE DEF r, n, text
    <3>3. poll'[p] = r
      BY <3>1 DEF TypeOK
    <3>4. poll[p].out = {}
      BY <1>1, <2>1 DEF OnceReplica
    <3>5. QED
      BY <1>1, <1>4, <2>1, <3>1, <3>2, <3>3, <3>4 DEF Given
  <2>2. CASE ~Callback
    <3> DEFINE r == [poll[p] EXCEPT !.line = @ + 1, !.out = @ \cup {d}]
    <3>1. handled' = handled /\ redelivered' = redelivered /\ poll' = [poll EXCEPT ![p] = r]
      BY <2>2 DEF Deliver, d
    <3>2. /\ r.todo = poll[p].todo /\ r.obj = poll[p].obj /\ r.pc = "line" /\ r.mem = poll[p].mem
          /\ r.out = poll[p].out \cup {d} /\ r.text = text /\ r.line = n + 1
      BY <1>1 DEF PollStates
    <3> HIDE DEF r, n, text
    <3>3. poll'[p] = r
      BY <3>1 DEF TypeOK
    <3>4. handled \cap poll[p].out = {}
      BY <1>1 DEF OnceReplica
    <3>5. QED
      BY <1>1, <1>4, <2>2, <3>1, <3>2, <3>3, <3>4 DEF Given
  <2>3. QED
    BY <2>1, <2>2
<1> HIDE DEF n, text
<1>6. OnceReplica(poll[p])'
  <2>1. ASSUME NEW g \in Given(poll[p])', g[1] = poll'[p].obj
        PROVE  \E i \in DOMAIN poll'[p].text : i < poll'[p].line /\ poll'[p].text[i] = g[2]
    <3>1. n \in Nat
      BY <1>2
    <3>2. CASE g = d
      BY <1>2, <1>3, <1>5, <3>1, <3>2
    <3>3. CASE g \in Given(poll[p])
      <4>1. PICK i \in DOMAIN text : i < n /\ text[i] = g[2]
        BY <1>1, <1>5, <2>1, <3>3 DEF OnceReplica, n, text
      <4>2. i \in Nat /\ i < n + 1
        BY <1>2, <3>1, <4>1
      <4>3. QED
        BY <1>5, <4>1, <4>2
    <3>4. QED
      BY <1>5, <2>1, <3>2, <3>3 DEF Given
  <2>2. \A g \in Given(poll[p])' : Stored(g[1])' \/ AtHand(poll[p], g[1])'
    <3>1. \A g \in Given(poll[p]) : Stored(g[1]) \/ AtHand(poll[p], g[1])
      BY <1>1 DEF OnceReplica
    <3>2. Given(poll[p])' = Given(poll[p]) \cup {d}
      BY <1>5 DEF Given
    <3>3. QED
      BY <1>1, <1>3, <1>5, <3>1, <3>2 DEF Stored, AtHand
  <2>3. \A q \in poll'[p].todo : ~Stored(q)'
    BY <1>1, <1>5 DEF OnceReplica, Stored
  <2>4. QED
    BY <1>1, <1>5, <2>1, <2>2, <2>3 DEF OnceReplica
<1>7. QED
  BY <1>5, <1>6, OnceMoves

(* The document is read back, to be written.                                *)
LEMMA OnceReadsBack ==
  ASSUME TypeOK, Lone, OnceInv, NEW p \in Replicas, SaveReads(p)
  PROVE  OnceInv'
<1>1. /\ poll[p] \in PollStates /\ OnceReplica(poll[p]) /\ redelivered = {} /\ poll[p].pc = "line"
      /\ UNCHANGED <<cursor, handled, redelivered>>
  BY DEF TypeOK, OnceInv, SaveReads, AllLinesRead
<1> DEFINE r == [poll[p] EXCEPT !.pc = "put", !.mem = Advanced(p), !.snap = cursor, !.fresh = TRUE]
<1>2. poll' = [poll EXCEPT ![p] = r]
  BY DEF SaveReads
<1>3. /\ r.todo = poll[p].todo /\ r.obj = poll[p].obj /\ r.pc = "put" /\ r.mem = Advanced(p)
      /\ r.out = poll[p].out /\ r.snap = cursor
  BY <1>1 DEF PollStates
<1>4. r.fresh
  BY <1>1 DEF PollStates
<1> HIDE DEF r
<1>5. poll'[p] = r
  BY <1>2 DEF TypeOK
<1>6. r.mem = Advance(cursor[r.obj.worker], r.obj)
  BY <1>1, <1>3 DEF OnceReplica, Advanced
<1>7. OnceReplica(poll[p])'
  <2>1. /\ \A d \in Given(poll[p])' : Stored(d[1])' \/ AtHand(poll[p], d[1])'
        /\ \A q \in poll'[p].todo : ~Stored(q)'
    BY <1>1, <1>3, <1>5 DEF OnceReplica, Given, Stored, AtHand
  <2>2. poll'[p].mem = Advance(cursor'[poll'[p].obj.worker], poll'[p].obj) /\ poll'[p].snap = cursor'
    BY <1>1, <1>3, <1>5, <1>6
  <2>3. poll'[p].fresh
    BY <1>4, <1>5
  <2>4. QED
    BY <1>1, <1>3, <1>5, <2>1, <2>2, <2>3 DEF OnceReplica
<1>8. QED
  BY <1>1, <1>7, OnceMoves

(* The cursor advances over the object given, and over no other.            *)
LEMMA OnceSaves ==
  ASSUME TypeOK, Lone, OnceInv, ListedHere, NEW p \in Replicas, SaveWrites(p)
  PROVE  OnceInv'
<1> DEFINE o == poll[p].obj
           w == o.worker
           r == NextObject(p, poll[p].mem)
<1>1. /\ poll[p] \in PollStates /\ OnceReplica(poll[p]) /\ redelivered = {} /\ poll[p].pc = "put"
      /\ UNCHANGED <<handled, redelivered>>
      /\ cursor' = [poll[p].snap EXCEPT ![w] = poll[p].mem]
      /\ poll' = [q \in Replicas |-> IF q = p THEN r ELSE [poll[q] EXCEPT !.fresh = FALSE]]
  BY DEF TypeOK, OnceInv, SaveWrites
<1>2. poll[p].mem = Advance(cursor[w], o) /\ poll[p].snap = cursor
  BY <1>1 DEF OnceReplica
<1>3. o \in Objects /\ w \in Workers /\ cursor \in [Workers -> Cursors] /\ poll[p].todo \subseteq Objects
  BY <1>1 DEF TypeOK, PollStates, Objects
<1>4. cursor'[w] = Advance(cursor[w], o) /\ \A v \in Workers \ {w} : cursor'[v] = cursor[v]
  BY <1>1, <1>2, <1>3
<1>5. ~Covered(cursor[w], o) /\ o \in poll[p].todo
  BY <1>1 DEF OnceReplica, Stored
<1>6. poll'[p] = r
  BY <1>1
<1>7. /\ r.pc \in {"worker", "object"} /\ r.out = poll[p].out
      /\ r.pc = "worker" => r.todo = {}
  BY NextIs
<1>8. r.pc = "object" => r.mem = poll[p].mem /\ r.obj.worker = w /\ r.todo = poll[p].todo \ {o}
  BY NextIs
<1>9. Covered(cursor'[w], o)
  BY <1>3, <1>4, <1>5, AdvanceCoversIt
<1> HIDE DEF r, w
<1>10. \A q \in Objects : Stored(q) => Stored(q)'
  <2> SUFFICES ASSUME NEW q \in Objects, Stored(q) PROVE Stored(q)'
    OBVIOUS
  <2>1. q.worker \in Workers
    BY DEF Objects
  <2>2. CASE q.worker = w
    BY <1>3, <1>4, <2>2, AdvanceCovers DEF Stored
  <2>3. CASE q.worker # w
    BY <1>4, <2>1, <2>3 DEF Stored
  <2>4. QED
    BY <2>2, <2>3
<1>11. \A d \in Given(poll[p])' : Stored(d[1])'
  <2> SUFFICES ASSUME NEW d \in Given(poll[p]) PROVE Stored(d[1])'
    BY <1>1, <1>6, <1>7 DEF Given
  <2>1. d[1] \in Objects
    BY <1>1 DEF Given, TypeOK, PollStates, Deliveries
  <2>2. Stored(d[1]) \/ d[1] = o
    BY <1>1 DEF OnceReplica, AtHand
  <2>3. QED
    BY <1>9, <1>10, <2>1, <2>2 DEF Stored, w
<1>12. \A q \in poll[p].todo \ {o} : ~Covered(cursor'[q.worker], q)
  <2> SUFFICES ASSUME NEW q \in poll[p].todo, q # o PROVE ~Covered(cursor'[q.worker], q)
    OBVIOUS
  <2>1. q \in Objects /\ q.worker = w
    BY <1>3 DEF ListedHere, Listed, w
  <2>2. ~Covered(cursor[w], q) /\ NotAfter(o, q)
    BY <1>1, <2>1 DEF OnceReplica, Stored
  <2>3. QED
    BY <1>3, <1>4, <1>5, <2>1, <2>2, LaterIsLeft DEF w
<1>13. OnceReplica(poll[p])'
  <2>1. \A q \in poll'[p].todo : ~Stored(q)'
    BY <1>6, <1>7, <1>8, <1>12 DEF Stored
  <2>2. poll'[p].pc = "object" => poll'[p].mem = cursor'[poll'[p].obj.worker]
    BY <1>2, <1>4, <1>6, <1>8
  <2>3. handled' \cap poll'[p].out = {} /\ (Callback => poll'[p].out = {})
    BY <1>1, <1>6, <1>7 DEF OnceReplica
  <2>4. poll'[p].pc \in {"worker", "object"} /\ (poll'[p].pc = "worker" => poll'[p].todo = {})
    BY <1>6, <1>7
  <2>5. QED
    BY <1>11, <2>1, <2>2, <2>3, <2>4 DEF OnceReplica
<1>14. QED
  BY <1>1, <1>13, OnceMoves

(* Every step either is a fault or gives nothing twice.                     *)
LEMMA OnceStep ==
  ASSUME TypeOK, Lone, NoTwins, ListedHere, faults = 0 => OnceInv, [Next]_vars
  PROVE  faults' = 0 => OnceInv'
<1> SUFFICES ASSUME faults' = 0 PROVE OnceInv'
  OBVIOUS
<1>1. faults \in Nat
  BY DEF TypeOK
<1>2. ASSUME NEW kind, Fault(kind) PROVE FALSE
  BY <1>1, <1>2 DEF Fault
<1>3. CASE UNCHANGED <<pollVars, faults>>
  <2>1. OnceInv /\ UNCHANGED <<cursor, poll, handled, redelivered>>
    BY <1>3 DEF pollVars
  <2>2. QED
    BY <2>1 DEF OnceInv, OnceReplica, Given, Stored, AtHand
<1>4. CASE Emit \/ NextDay \/ UNCHANGED vars
  <2>1. UNCHANGED <<pollVars, faults>>
    BY <1>2, <1>4 DEF Emit, EmitSignals, BridgeFailure, Begin, UploadLatest, UploadArchive, UploadFails,
           NextDay, vars
  <2>2. QED
    BY <1>3, <2>1
<1>5. ASSUME NEW p \in Replicas, PollFault(p) PROVE FALSE
  BY <1>2, <1>5 DEF PollFault, LoadFails, ListFails, ReadFails, CallbackRaises, SaveReadFails, SaveFails, Crash
<1>6. ASSUME NEW p \in Replicas, PollStep(p) PROVE OnceInv'
  <2>1. faults = 0
    BY <1>6 DEF PollStep, StartPoll, ReturnDeliveries, LoadCursor, ListArchive, ReadObject, SkipLine, Deliver,
           SaveReads, SaveWrites, SaveConflicts
  <2>2. OnceInv
    BY <2>1
  <2>3. ~SaveConflicts(p)
    BY <2>2 DEF OnceInv, OnceReplica, SaveConflicts, SaveRefused
  <2>4. CASE StartPoll(p) \/ ReturnDeliveries(p) \/ \E w \in Workers : LoadCursor(p, w)
    BY <2>2, <2>4, OnceVisits
  <2>5. CASE ListArchive(p) \/ ReadObject(p)
    BY <2>2, <2>5, OnceLists
  <2>6. CASE SkipLine(p) \/ Deliver(p)
    BY <2>2, <2>6, OnceSkips, OnceDelivers
  <2>7. CASE SaveReads(p) \/ SaveWrites(p)
    BY <2>2, <2>7, OnceReadsBack, OnceSaves
  <2>8. QED
    BY <1>6, <2>3, <2>4, <2>5, <2>6, <2>7 DEF PollStep
<1>7. QED
  BY <1>4, <1>5, <1>6 DEF Next

(* The price of at-least-once is paid for faults only: a lone consumer is   *)
(* given no signal twice before one, with either store, with a callback or  *)
(* without, whatever is emitted while it polls, late or under a name used   *)
(* before.                                                                  *)
THEOREM NoDuplicateWithoutFault ==
  ASSUME Lone, NoTwins
  PROVE  Spec => []OnceUnlessFault
<1>1. Init => (faults = 0 => OnceInv)
  <2> SUFFICES ASSUME Init PROVE OnceInv
    OBVIOUS
  <2>1. \A p \in Replicas : poll[p] = NotPolling
    BY DEF Init
  <2>2. handled = {} /\ redelivered = {}
    BY DEF Init
  <2>3. NotPolling.pc = "idle" /\ NotPolling.out = {} /\ NotPolling.todo = {}
    BY DEF NotPolling
  <2>4. QED
    BY <2>1, <2>2, <2>3 DEF OnceInv, OnceReplica, Given
<1>2. TypeOK /\ ListedHere /\ (faults = 0 => OnceInv) /\ [Next]_vars => (faults = 0 => OnceInv)'
  BY OnceStep
<1>3. (faults = 0 => OnceInv) => OnceUnlessFault
  BY DEF OnceInv, OnceUnlessFault
<1>4. QED
  BY <1>1, <1>2, <1>3, TypeCorrect, ListedAlways, PTL DEF Spec
=============================================================================
