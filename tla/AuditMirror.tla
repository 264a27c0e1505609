---------------------------- MODULE AuditMirror ----------------------------
(***************************************************************************)
(* The audit sink of one process (audit_log.py): its threads append events *)
(* to the day's file through the read-and-replace of obs/atomicio.py and   *)
(* remember them for the mirror, whole objects of which are uploaded every *)
(* flush_every events and as the process exits.  The append holds a lock,  *)
(* nothing else does; a flush goes object by object.                       *)
(***************************************************************************)
EXTENDS Naturals, Sequences, SequencesExt, FiniteSets

CONSTANTS Threads, MainThread,   \* the last to run: its exit flushes
          Objects,               \* the mirror's paths: worker, day and run
          FlushEvery,            \* flush_every
          MaxAudits,             \* bound: events audited
          MaxBroken            \* bound: reads, writes and uploads that raise

ASSUME SinkAssumption == MainThread \in Threads /\ Objects # {}
ASSUME AuditsAssumption == IsFiniteSet(Threads) /\ MaxAudits \in Nat /\ MaxBroken \in Nat

VARIABLES sink,     \* per thread, the call or the flush it is in
          lock,     \* who holds _WRITE_LOCK
          disk,     \* the day's file
          written,  \* history: the lines replaced into the file, in that order
          base,     \* history: how many of them a failed read has dropped from it
          memory,   \* _by_path
          since,    \* _since_flush
          cloud,    \* the objects in the bucket
          process,  \* "up", "exiting", "flushed", "unflushed" or "crashed"
          quiet,    \* no other thread was in the sink once the exit began
          audited, broken

auditVars == <<sink, lock, disk, written, base, memory, since, cloud, process, quiet, audited, broken>>

CallStates == {"idle", "append", "replace", "remember", "count", "flush", "upload"}
Idle == [step |-> "idle", event |-> 0, object |-> CHOOSE o \in Objects : TRUE, read |-> <<>>,
         from |-> 0, count |-> 0, todo |-> {}, paths |-> {}]
Running == process \in {"up", "exiting"}
Paths == {o \in Objects : memory[o] # <<>>}
SinkGoes(t, c) == sink' = [sink EXCEPT ![t] = c]
Step(t, s) == [sink[t] EXCEPT !.step = s]

Call(t, o) ==
  /\ Running /\ sink[t] = Idle /\ audited < MaxAudits
  /\ t = MainThread => process = "up"
  /\ audited' = audited + 1
  /\ SinkGoes(t, [Idle EXCEPT !.step = "append", !.event = audited + 1, !.object = o])
  /\ quiet' = (quiet /\ process = "up")
  /\ UNCHANGED <<lock, disk, written, base, memory, since, cloud, process, broken>>

----------------------------------------------------------------------------
(* atomic_append.  The read is best-effort: one that fails is taken for an *)
(* empty file, and the replace then drops the lines the file had.          *)

\* A bug to find: the read and the replace are not one critical section.
LockAndRead_Unlocked(t) ==
  /\ Running /\ sink[t].step = "append"
  /\ lock' = {t}
  /\ SinkGoes(t, [Step(t, "replace") EXCEPT !.read = disk, !.from = base])
  /\ UNCHANGED <<disk, written, base, memory, since, cloud, process, quiet, audited, broken>>

LockAndRead(t) ==
  /\ Running /\ sink[t].step = "append" /\ lock = {}
  /\ lock' = {t}
  /\ SinkGoes(t, [Step(t, "replace") EXCEPT !.read = disk, !.from = base])
  /\ UNCHANGED <<disk, written, base, memory, since, cloud, process, quiet, audited, broken>>

LockAndMisread(t) ==
  /\ Running /\ sink[t].step = "append" /\ lock = {} /\ broken < MaxBroken
  /\ lock' = {t} /\ broken' = broken + 1
  /\ SinkGoes(t, [Step(t, "replace") EXCEPT !.read = <<>>, !.from = Len(written)])
  /\ UNCHANGED <<disk, written, base, memory, since, cloud, process, quiet, audited>>

Replace(t) ==
  /\ Running /\ sink[t].step = "replace"
  /\ disk' = Append(sink[t].read, sink[t].event) /\ lock' = {}
  /\ written' = Append(written, sink[t].event) /\ base' = sink[t].from
  /\ SinkGoes(t, Step(t, "remember"))
  /\ UNCHANGED <<memory, since, cloud, process, quiet, audited, broken>>

\* The temporary file is removed, the file is as it was, and the sink logs
\* and drops the event.
ReplaceFails(t) ==
  /\ Running /\ sink[t].step = "replace" /\ broken < MaxBroken
  /\ broken' = broken + 1
  /\ lock' = {} /\ SinkGoes(t, Idle)
  /\ UNCHANGED <<disk, written, base, memory, since, cloud, process, quiet, audited>>

----------------------------------------------------------------------------
(* _remember_for_gcs: the event, then a count that is read and written. *)

Remember(t) ==
  /\ Running /\ sink[t].step = "remember"
  /\ memory' = [memory EXCEPT ![sink[t].object] = Append(@, sink[t].event)]
  /\ SinkGoes(t, [Step(t, "count") EXCEPT !.count = since])
  /\ UNCHANGED <<lock, disk, written, base, since, cloud, process, quiet, audited, broken>>

Count(t) ==
  /\ Running /\ sink[t].step = "count"
  /\ since' = sink[t].count + 1
  /\ SinkGoes(t, IF since' >= FlushEvery THEN [Idle EXCEPT !.step = "flush", !.todo = Paths, !.paths = Paths]
             ELSE Idle)
  /\ UNCHANGED <<lock, disk, written, base, memory, cloud, process, quiet, audited, broken>>

----------------------------------------------------------------------------
(* flush *)

\* The body of the next object, unless another thread has added an object
\* under the iteration, which raises and ends the flush.
TakeBody(t) ==
  /\ Running /\ sink[t].step = "flush" /\ sink[t].todo # {} /\ sink[t].paths = Paths
  /\ \E o \in sink[t].todo :
       SinkGoes(t, [Step(t, "upload") EXCEPT !.object = o, !.read = memory[o], !.todo = @ \ {o}])
  /\ UNCHANGED <<lock, disk, written, base, memory, since, cloud, process, quiet, audited, broken>>

Upload(t) ==
  /\ Running /\ sink[t].step = "upload"
  /\ cloud' = [cloud EXCEPT ![sink[t].object] = sink[t].read]
  /\ SinkGoes(t, Step(t, "flush"))
  /\ UNCHANGED <<lock, disk, written, base, memory, since, process, quiet, audited, broken>>

Over(t, how) == process' = IF t = MainThread /\ process = "exiting" THEN how ELSE process

FlushEnds(t) ==
  /\ Running /\ sink[t].step = "flush" /\ sink[t].todo = {} /\ sink[t].paths = Paths
  /\ since' = 0
  /\ SinkGoes(t, Idle) /\ Over(t, "flushed")
  /\ UNCHANGED <<lock, disk, written, base, memory, cloud, quiet, audited, broken>>

\* An upload raises, or the iteration does: what is remembered stays, and so
\* does the count, so that the next event tries again.
FlushFails(t) ==
  /\ Running
  /\ \/ sink[t].step = "upload" /\ broken < MaxBroken /\ broken' = broken + 1
     \/ sink[t].step = "flush" /\ sink[t].paths # Paths /\ UNCHANGED broken
  /\ SinkGoes(t, Idle) /\ Over(t, "unflushed")
  /\ UNCHANGED <<lock, disk, written, base, memory, since, cloud, quiet, audited>>

----------------------------------------------------------------------------
(* The end of the process: atexit's flush while daemon threads still run, *)
(* or a crash at any point, which leaves the file and the bucket.          *)

Exit ==
  /\ process = "up" /\ sink[MainThread] = Idle
  /\ process' = "exiting"
  /\ quiet' = (\A t \in Threads : sink[t] = Idle)
  /\ SinkGoes(MainThread, [Idle EXCEPT !.step = "flush", !.todo = Paths, !.paths = Paths])
  /\ UNCHANGED <<lock, disk, written, base, memory, since, cloud, audited, broken>>

Crash ==
  /\ Running
  /\ process' = "crashed"
  /\ sink' = [t \in Threads |-> Idle] /\ lock' = {}
  /\ memory' = [o \in Objects |-> <<>>] /\ since' = 0
  /\ UNCHANGED <<disk, written, base, cloud, quiet, audited, broken>>

AuditInit ==
  /\ sink = [t \in Threads |-> Idle] /\ lock = {}
  /\ disk = <<>> /\ written = <<>> /\ base = 0
  /\ memory = [o \in Objects |-> <<>>] /\ since = 0 /\ cloud = [o \in Objects |-> <<>>]
  /\ process = "up" /\ quiet = TRUE /\ audited = 0 /\ broken = 0

AuditNext ==
  \/ \E t \in Threads :
       \/ \E o \in Objects : Call(t, o)
       \/ LockAndRead(t) \/ LockAndMisread(t) \/ Replace(t) \/ ReplaceFails(t) \/ Remember(t) \/ Count(t)
       \/ TakeBody(t) \/ Upload(t) \/ FlushEnds(t) \/ FlushFails(t)
  \/ Exit \/ Crash

AuditSpec == AuditInit /\ [][AuditNext]_auditVars

----------------------------------------------------------------------------
AuditTypeOK ==
  /\ \A t \in Threads : sink[t].step \in CallStates /\ sink[t].object \in Objects
  /\ lock \subseteq Threads /\ {disk, written} \subseteq Seq(1 .. MaxAudits) /\ base \in 0 .. MaxAudits
  /\ DOMAIN memory = Objects /\ DOMAIN cloud = Objects /\ since \in 0 .. MaxAudits
  /\ process \in {"up", "exiting", "flushed", "unflushed", "crashed"} /\ quiet \in BOOLEAN
  /\ audited \in 0 .. MaxAudits /\ broken \in 0 .. MaxBroken

\* s is what has been written after the first b lines.
IsSince(s, b) == b + Len(s) = Len(written) /\ \A i \in DOMAIN s : s[i] = written[b + i]

\* The file holds the lines replaced into it, each once and in that order, from
\* the last failed read on (all of them while no read has failed): no thread's
\* line is lost to another's.  What is remembered, or about to be, is among them.
FileKeepsEveryLine ==
  /\ IsSince(disk, base)
  /\ Cardinality(ToSet(written)) = Len(written)
  /\ \A o \in Objects : ToSet(memory[o]) \subseteq ToSet(written)
  /\ \A t \in Threads : sink[t].step = "remember" => sink[t].event \in ToSet(written)

\* An object of the mirror always holds the first events of its run, in
\* order, and none that was not written to the file, whatever became of the
\* process; and a process that ended with a flush nobody raced mirrors them all.
MirrorIsTrue ==
  /\ FileKeepsEveryLine
  /\ \A o \in Objects :
       /\ ToSet(cloud[o]) \subseteq ToSet(written)
       /\ process # "crashed" => IsPrefix(cloud[o], memory[o])
  /\ process = "flushed" /\ quiet => cloud = memory
=============================================================================
