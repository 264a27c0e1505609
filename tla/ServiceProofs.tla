--------------------------- MODULE ServiceProofs ---------------------------
(***************************************************************************)
(* What the services of the process guarantee, for every number of         *)
(* processes, declarations and tokens: a token is refreshed only when none *)
(* stored is valid, and none is ever replaced by an older one; and for     *)
(* every number of threads, objects and events, the audit's mirror holds   *)
(* the first events of its file, and all of them after a clean exit; and   *)
(* however run sessions, buffers and isolated stretches nest, an object    *)
(* the telemetry uploads is one run, and the whole of it.                  *)
(***************************************************************************)
EXTENDS TokenRefresh, AuditMirror, RunTelemetry, FiniteSetTheorems, SequenceTheorems, TLAPS

----------------------------------------------------------------------------
(* Refreshes only when due.  The lock makes the processes past it one:     *)
(* it alone has reread the store, it alone issues and saves, and what it   *)
(* saves is the newest token there is.                                     *)

Calls == [step : ResolverSteps, spec : Specs, serial : Nat, outcome : Outcomes]

CallsTyped == call \in [Resolvers -> Calls] /\ issued \in Nat /\ lapsed \in Nat

\* Who is past the lock holds it, alone.
LockIsHeld ==
  /\ \A r \in Resolvers : call[r].step \in {"reload", "refresh", "save"} <=> r \in holder
  /\ \A r, s \in holder : r = s
  /\ holder \subseteq Resolvers

\* The store holds one token at most, none newer than the last one issued.
StoreIsOne ==
  /\ \A t, u \in stored : t = u
  /\ \A t \in stored : t.serial \in Nat /\ t.serial <= issued

\* Who refreshes found nothing valid; who saves holds the newest token.
RefreshIsDue ==
  \A r \in Resolvers :
    /\ call[r].step = "refresh" => \A t \in stored : ~Valid(t)
    /\ call[r].step = "save" => call[r].serial = issued

TokenInv == CallsTyped /\ LockIsHeld /\ StoreIsOne /\ RefreshIsDue

\* A process between calls is typed.
LEMMA NoCallTyped == NoCall \in Calls
  BY SpecsAssumption DEF NoCall, Calls, ResolverSteps, Outcomes

\* The invariant holds before any call.
LEMMA TokenInvInit == TokenInit => TokenInv
<1> SUFFICES ASSUME TokenInit PROVE TokenInv
  OBVIOUS
<1>1. CallsTyped
  BY NoCallTyped DEF TokenInit, CallsTyped
<1>2. \A r \in Resolvers : call[r].step = "idle"
  BY DEF TokenInit, NoCall
<1>3. LockIsHeld /\ RefreshIsDue
  BY <1>2 DEF TokenInit, LockIsHeld, RefreshIsDue
<1>4. StoreIsOne
  BY DEF TokenInit, StoreIsOne
<1> QED BY <1>1, <1>3, <1>4 DEF TokenInv

\* A process outside the lock moves to another step outside it, or ends.
LEMMA CallMoves ==
  ASSUME TokenInv, NEW r \in Resolvers, NEW c \in Calls, call' = [call EXCEPT ![r] = c],
         c.step \in {"idle", "load", "lock"}, holder' = holder \ {r},
         UNCHANGED <<stored, issued, lapsed>>
  PROVE  TokenInv'
<1>1. CallsTyped'
  BY DEF TokenInv, CallsTyped
<1>2. \A s \in Resolvers : call'[s] = IF s = r THEN c ELSE call[s]
  BY DEF TokenInv, CallsTyped
<1>3. LockIsHeld'
  BY <1>2 DEF TokenInv, LockIsHeld
<1>4. StoreIsOne'
  BY DEF TokenInv, StoreIsOne
<1>5. RefreshIsDue'
  BY <1>2 DEF TokenInv, RefreshIsDue, Valid
<1> QED BY <1>1, <1>3, <1>4, <1>5 DEF TokenInv

\* A call that ends, or dies, gives up what it held.
LEMMA CallEnds ==
  ASSUME TokenInv, NEW r \in Resolvers, NEW o \in Outcomes, Ends(r, o),
         holder' = holder \ {r}, UNCHANGED <<stored, issued, lapsed>>
  PROVE  TokenInv'
<1> DEFINE c == [call[r] EXCEPT !.step = "idle", !.outcome = o]
<1>1. c \in Calls /\ c.step = "idle"
  BY DEF ResolverSteps, TokenInv, CallsTyped, Calls
<1>2. call' = [call EXCEPT ![r] = c]
  BY DEF Ends
<1> QED BY <1>1, <1>2, CallMoves

\* Before the lock, nothing is held.
LEMMA NotHeld ==
  ASSUME TokenInv, NEW r \in Resolvers, call[r].step \in {"idle", "load", "lock"}
  PROVE  holder = holder \ {r}
  BY DEF TokenInv, LockIsHeld

\* The steps before the lock, and those that end a call.
LEMMA OutsideTheLock ==
  ASSUME TokenInv, NEW r \in Resolvers,
         Given(r) \/ UseStored(r) \/ NoStored(r) \/ LockTimesOut(r) \/ RefreshFails(r) \/ SaveFails(r)
  PROVE  TokenInv'
<1>1. CASE Given(r)
  BY <1>1, CallEnds, NotHeld DEF Given, At, Outcomes
<1>2. CASE UseStored(r)
  <2>1. PICK t \in stored :
          \/ /\ Valid(t)
             /\ call' = [call EXCEPT ![r].step = "idle", ![r].outcome = "token", ![r].serial = t.serial]
          \/ Ends(r, "unavailable")
          \/ Goes(r, "lock")
    BY <1>2 DEF UseStored, Grantee
  <2>2. t.serial \in Nat /\ holder' = holder \ {r} /\ UNCHANGED <<stored, issued, lapsed>>
    BY <1>2, <2>1, NotHeld DEF UseStored, At, TokenInv, StoreIsOne
  <2> DEFINE used == [call[r] EXCEPT !.step = "idle", !.outcome = "token", !.serial = t.serial]
             waits == [call[r] EXCEPT !.step = "lock"]
  <2>3. used \in Calls /\ used.step = "idle" /\ waits \in Calls /\ waits.step = "lock"
    BY <2>2 DEF ResolverSteps, Outcomes, TokenInv, CallsTyped, Calls
  <2>4. CASE call' = [call EXCEPT ![r].step = "idle", ![r].outcome = "token", ![r].serial = t.serial]
    <3>1. call' = [call EXCEPT ![r] = used]
      BY <2>4
    <3> QED BY <2>2, <2>3, <3>1, CallMoves
  <2>5. CASE Goes(r, "lock")
    <3>1. call' = [call EXCEPT ![r] = waits]
      BY <2>5 DEF Goes
    <3> QED BY <2>2, <2>3, <3>1, CallMoves
  <2>6. CASE Ends(r, "unavailable")
    BY <2>2, <2>6, CallEnds DEF Outcomes
  <2> QED BY <2>1, <2>4, <2>5, <2>6
<1>3. CASE NoStored(r)
  <2>1. \E o \in Outcomes : Ends(r, o)
    BY <1>3 DEF NoStored, Outcomes
  <2> QED BY <1>3, <2>1, CallEnds, NotHeld DEF NoStored, At
<1>4. CASE LockTimesOut(r)
  BY <1>4, CallEnds, NotHeld DEF LockTimesOut, At, Outcomes
<1>5. CASE RefreshFails(r)
  BY <1>5, CallEnds DEF RefreshFails, Outcomes
<1>6. CASE SaveFails(r)
  BY <1>6, CallEnds DEF SaveFails, Outcomes
<1> QED BY <1>1, <1>2, <1>3, <1>4, <1>5, <1>6

\* A step taken with the lock, or to it.
LEMMA CallChanges ==
  ASSUME TokenInv, NEW r \in Resolvers, NEW c \in Calls, call' = [call EXCEPT ![r] = c]
  PROVE  \A s \in Resolvers : call'[s] \in Calls /\ call'[s] = IF s = r THEN c ELSE call[s]
  BY DEF TokenInv, CallsTyped

\* Who takes the lock file is alone past it.
LEMMA TakesLock ==
  ASSUME TokenInv, NEW r \in Resolvers, TakeLock(r)
  PROVE  TokenInv'
<1> DEFINE c == [call[r] EXCEPT !.step = "reload"]
<1>1. c \in Calls /\ c.step = "reload"
  BY DEF TokenInv, CallsTyped, Calls, ResolverSteps
<1>2. call' = [call EXCEPT ![r] = c]
  BY DEF TakeLock, Goes
<1>3. \A s \in Resolvers : call'[s] = IF s = r THEN c ELSE call[s]
  BY <1>1, <1>2, CallChanges
<1>4. CallsTyped'
  BY <1>1, <1>2 DEF TakeLock, TokenInv, CallsTyped
<1>5. LockIsHeld'
  BY <1>1, <1>3 DEF TakeLock, TokenInv, LockIsHeld
<1>6. StoreIsOne' /\ RefreshIsDue'
  BY <1>1, <1>3 DEF TakeLock, TokenInv, StoreIsOne, RefreshIsDue, Valid
<1> QED BY <1>4, <1>5, <1>6 DEF TokenInv

\* Under the lock, a valid token ends the call and any other is refreshed.
LEMMA Reloads ==
  ASSUME TokenInv, NEW r \in Resolvers, Reload(r)
  PROVE  TokenInv'
<1>1. CASE \E t \in stored : Valid(t)
  <2>1. PICK t \in stored :
          call' = [call EXCEPT ![r].step = "idle", ![r].outcome = "token", ![r].serial = t.serial]
    BY <1>1 DEF Reload
  <2> DEFINE c == [call[r] EXCEPT !.step = "idle", !.outcome = "token", !.serial = t.serial]
  <2>2. c \in Calls /\ c.step = "idle"
    BY DEF TokenInv, CallsTyped, StoreIsOne, Calls, ResolverSteps, Outcomes
  <2>3. call' = [call EXCEPT ![r] = c]
    BY <2>1
  <2> QED BY <1>1, <2>2, <2>3, CallMoves DEF Reload
<1>2. CASE \A t \in stored : ~Valid(t)
  <2> DEFINE c == [call[r] EXCEPT !.step = "refresh"]
  <2>1. c \in Calls /\ c.step = "refresh"
    BY DEF TokenInv, CallsTyped, Calls, ResolverSteps
  <2>2. call' = [call EXCEPT ![r] = c] /\ UNCHANGED <<stored, holder, issued, lapsed>>
    BY <1>2 DEF Reload, Goes
  <2>3. \A s \in Resolvers : call'[s] = IF s = r THEN c ELSE call[s]
    BY <2>1, <2>2, CallChanges
  <2>4. CallsTyped'
    BY <2>1, <2>2 DEF TokenInv, CallsTyped
  <2>5. LockIsHeld'
    BY <2>1, <2>2, <2>3 DEF TokenInv, LockIsHeld, Reload, At
  <2>6. StoreIsOne' /\ RefreshIsDue'
    BY <1>2, <2>1, <2>2, <2>3 DEF TokenInv, StoreIsOne, RefreshIsDue, Valid
  <2> QED BY <2>4, <2>5, <2>6 DEF TokenInv
<1> QED BY <1>1, <1>2

\* What is issued under the lock is the newest token there is.
LEMMA RefreshesToken ==
  ASSUME TokenInv, NEW r \in Resolvers, RefreshToken(r)
  PROVE  TokenInv'
<1> DEFINE c == [call[r] EXCEPT !.step = "save", !.serial = issued + 1]
<1>1. c \in Calls /\ c.step = "save" /\ c.serial = issued + 1
  <2>1. call[r] \in Calls /\ issued + 1 \in Nat
    BY DEF TokenInv, CallsTyped
  <2> QED BY <2>1 DEF Calls, ResolverSteps
<1>2. call' = [call EXCEPT ![r] = c] /\ issued' = issued + 1 /\ UNCHANGED <<stored, holder, lapsed>>
  BY DEF RefreshToken
<1>3. \A s \in Resolvers : call'[s] = IF s = r THEN c ELSE call[s]
  BY <1>1, <1>2, CallChanges
<1>4. CallsTyped'
  BY <1>1, <1>2 DEF TokenInv, CallsTyped
<1>5. r \in holder /\ \A s \in Resolvers : call[s].step \in {"refresh", "save"} => s = r
  BY DEF TokenInv, LockIsHeld, RefreshToken, At
<1>6. LockIsHeld'
  BY <1>1, <1>2, <1>3, <1>5 DEF TokenInv, LockIsHeld
<1>7. StoreIsOne'
  BY <1>2 DEF TokenInv, CallsTyped, StoreIsOne
<1>8. RefreshIsDue'
  BY <1>1, <1>2, <1>3, <1>5 DEF TokenInv, RefreshIsDue, Valid
<1> QED BY <1>4, <1>6, <1>7, <1>8 DEF TokenInv

\* What is saved is the newest token, and the store's only one.
LEMMA Saves ==
  ASSUME TokenInv, NEW r \in Resolvers, Save(r)
  PROVE  TokenInv'
<1> DEFINE c == [call[r] EXCEPT !.step = "idle", !.outcome = "token"]
           token == [serial |-> call[r].serial, scopes |-> call[r].spec.scopes, renewable |-> TRUE]
<1>1. c \in Calls /\ c.step = "idle" /\ token.serial = issued
  BY DEF TokenInv, CallsTyped, Calls, ResolverSteps, Outcomes, RefreshIsDue, Save, At
<1>2. call' = [call EXCEPT ![r] = c] /\ stored' = {token} /\ holder' = holder \ {r}
      /\ UNCHANGED <<issued, lapsed>>
  BY DEF Save, Ends
<1>3. \A s \in Resolvers : call'[s] = IF s = r THEN c ELSE call[s]
  BY <1>1, <1>2, CallChanges
<1>4. CallsTyped'
  BY <1>1, <1>2 DEF TokenInv, CallsTyped
<1>5. \A s \in Resolvers : call[s].step \in {"refresh", "save"} => s = r
  BY DEF TokenInv, LockIsHeld, Save, At
<1>6. LockIsHeld'
  BY <1>1, <1>2, <1>3 DEF TokenInv, LockIsHeld
<1>7. StoreIsOne'
  BY <1>1, <1>2 DEF TokenInv, CallsTyped, StoreIsOne
<1>8. RefreshIsDue'
  BY <1>1, <1>2, <1>3, <1>5 DEF TokenInv, RefreshIsDue
<1> QED BY <1>4, <1>6, <1>7, <1>8 DEF TokenInv

\* Whoever is left behind by a death has not been saving.
LEMMA Died ==
  ASSUME TokenInv, NEW r \in Resolvers, Dies(r)
  PROVE  TokenInv'
<1>1. NoCall \in Calls /\ NoCall.step = "idle"
  BY NoCallTyped DEF NoCall
<1> QED BY <1>1, CallMoves DEF Dies

\* A call begins outside the lock.
LEMMA Begins ==
  ASSUME TokenInv, NEW r \in Resolvers, NEW s \in Specs, Begin(r, s)
  PROVE  TokenInv'
<1> DEFINE c == [NoCall EXCEPT !.step = "load", !.spec = s]
<1>1. c \in Calls /\ c.step = "load"
  BY NoCallTyped DEF Calls, ResolverSteps
<1> QED BY <1>1, CallMoves, NotHeld DEF Begin, At

\* Expiry makes no token valid.
LEMMA Expires ==
  ASSUME TokenInv, Expire
  PROVE  TokenInv'
<1>1. CallsTyped' /\ LockIsHeld' /\ StoreIsOne'
  BY DEF TokenInv, CallsTyped, LockIsHeld, StoreIsOne, Expire
<1>2. RefreshIsDue'
  BY DEF TokenInv, CallsTyped, StoreIsOne, RefreshIsDue, Valid, Expire
<1> QED BY <1>1, <1>2 DEF TokenInv

\* Every step keeps the invariant.
LEMMA TokenInvStep == TokenInv /\ [TokenNext]_tokenVars => TokenInv'
<1> SUFFICES ASSUME TokenInv, [TokenNext]_tokenVars PROVE TokenInv'
  OBVIOUS
<1>1. CASE Expire
  BY <1>1, Expires
<1>2. ASSUME NEW r \in Resolvers, ResolverStep(r) PROVE TokenInv'
  BY <1>2, OutsideTheLock, TakesLock, Reloads, RefreshesToken, Saves DEF ResolverStep
<1>3. ASSUME NEW r \in Resolvers, Dies(r) PROVE TokenInv'
  BY <1>3, Died
<1>4. ASSUME NEW r \in Resolvers, NEW s \in Specs, Begin(r, s) PROVE TokenInv'
  BY <1>4, Begins
<1>5. CASE UNCHANGED tokenVars
  BY <1>5 DEF tokenVars, TokenInv, CallsTyped, LockIsHeld, StoreIsOne, RefreshIsDue, Valid
<1> QED BY <1>1, <1>2, <1>3, <1>4, <1>5 DEF TokenNext

\* What one step does to the tokens.
LEMMA RefreshStep ==
  TokenInv /\ [TokenNext]_tokenVars =>
    /\ issued' > issued => \A t \in stored : ~Valid(t)
    /\ \A t \in stored, u \in stored' : u.serial >= t.serial
<1> SUFFICES ASSUME TokenInv, [TokenNext]_tokenVars
             PROVE  /\ issued' > issued => \A t \in stored : ~Valid(t)
                    /\ \A t \in stored, u \in stored' : u.serial >= t.serial
  OBVIOUS
<1>1. ASSUME NEW r \in Resolvers, RefreshToken(r)
      PROVE  stored' = stored /\ \A t \in stored : ~Valid(t)
  BY <1>1 DEF RefreshToken, At, TokenInv, RefreshIsDue
<1>2. ASSUME NEW r \in Resolvers, Save(r)
      PROVE  issued' = issued /\ \A t \in stored, u \in stored' : u.serial >= t.serial
  BY <1>2 DEF Save, At, TokenInv, CallsTyped, StoreIsOne, RefreshIsDue
<1>3. \/ \E r \in Resolvers : RefreshToken(r) \/ Save(r)
      \/ UNCHANGED <<stored, issued>>
  BY DEF TokenNext, tokenVars, ResolverStep, Given, UseStored, NoStored, TakeLock, LockTimesOut,
         Reload, RefreshFails, SaveFails, Dies, Begin, Expire
<1>4. \A t \in stored, u \in stored : u.serial >= t.serial
  BY DEF TokenInv, StoreIsOne
<1>5. ~(issued > issued)
  BY DEF TokenInv, CallsTyped
<1> QED BY <1>1, <1>2, <1>3, <1>4, <1>5

\* A token is refreshed only when the store holds none that is valid, however
\* many processes ask, time out or die, and no save puts an older token over
\* a newer one (refresh.py).
THEOREM RefreshesOnlyWhenDue == TokenSpec => RefreshedOnlyWhenDue
<1>1. TokenSpec => []TokenInv
  BY TokenInvInit, TokenInvStep, PTL DEF TokenSpec
<1> QED BY <1>1, RefreshStep, PTL DEF TokenSpec, RefreshedOnlyWhenDue

----------------------------------------------------------------------------
(* The audit file and its mirror.  Events are numbered as they are audited; *)
(* who replaces the file has read it as it is, or nothing of it (and then   *)
(* says after how many lines); and what is uploaded is what                 *)
(* was remembered, as far as it went when the body was taken.               *)

SinkCalls ==
  [step : CallStates, event : Nat, object : Objects, read : Seq(Nat), from : Nat, count : Nat,
   todo : SUBSET Objects, paths : SUBSET Objects]

SinkTyped ==
  /\ sink \in [Threads -> SinkCalls] /\ since \in Nat /\ audited \in Nat
  /\ disk \in Seq(Nat) /\ written \in Seq(Nat) /\ base \in Nat
  /\ memory \in [Objects -> Seq(Nat)] /\ cloud \in [Objects -> Seq(Nat)]

\* One sequence begins the other; an event has been written; a thread has one to write.
IsStart(s, t) == Len(s) <= Len(t) /\ \A i \in 1 .. Len(s) : s[i] = t[i]
InFile(e) == \E i \in DOMAIN written : written[i] = e
Writing(t) == sink[t].step \in {"append", "replace"}

\* An event still to be written has not been written, and one thread's.
EventsAreNew ==
  /\ \A i \in DOMAIN written : written[i] <= audited
  /\ \A t \in Threads : Writing(t) => sink[t].event <= audited /\ ~InFile(sink[t].event)
  /\ \A t, u \in Threads : Writing(t) /\ Writing(u) /\ t # u => sink[t].event # sink[u].event

\* No line is written twice, the file holds those since its last failed read, and
\* who is to replace it has read those, or those since a read that has just failed.
FileIsOne ==
  /\ \A i, j \in DOMAIN written : written[i] = written[j] => i = j
  /\ IsSince(disk, base)
  /\ \A t \in Threads : sink[t].step = "replace" => lock = {t} /\ IsSince(sink[t].read, sink[t].from)

\* What is remembered or mirrored has been written to the file.
RememberedIsKept ==
  /\ \A o \in Objects : \A i \in DOMAIN memory[o] : InFile(memory[o][i])
  /\ \A o \in Objects : \A i \in DOMAIN cloud[o] : InFile(cloud[o][i])
  /\ \A t \in Threads : sink[t].step = "remember" => InFile(sink[t].event)

\* What is mirrored, or about to be, begins what is remembered.
MirrorFollows ==
  /\ process # "crashed" => \A o \in Objects : IsStart(cloud[o], memory[o])
  /\ \A t \in Threads : sink[t].step = "upload" => IsStart(sink[t].read, memory[sink[t].object])

\* At an exit nobody races, what is left to upload is what the flush has left.
Uploaded(o) ==
  o \notin sink[MainThread].todo /\ ~(sink[MainThread].step = "upload" /\ sink[MainThread].object = o)
  => cloud[o] = memory[o]

ExitFlushes ==
  /\ process = "exiting" /\ quiet =>
       /\ \A t \in Threads \ {MainThread} : sink[t].step = "idle"
       /\ sink[MainThread].step \in {"flush", "upload"}
       /\ sink[MainThread].step = "upload" =>
            sink[MainThread].read = memory[sink[MainThread].object]
       /\ \A o \in Objects : Uploaded(o)
  /\ process = "flushed" /\ quiet => cloud = memory

AuditInv ==
  SinkTyped /\ EventsAreNew /\ FileIsOne /\ RememberedIsKept /\ MirrorFollows /\ ExitFlushes

----------------------------------------------------------------------------
\* A call of the sink, between events.
LEMMA IdleTyped ==
  Idle \in SinkCalls /\ Idle.step = "idle" /\ Idle.event = 0
<1>1. (CHOOSE o \in Objects : TRUE) \in Objects
  BY SinkAssumption
<1>2. <<>> \in Seq(Nat) /\ {} \in SUBSET Objects
  BY EmptySeq
<1> QED BY <1>1, <1>2 DEF Idle, SinkCalls, CallStates

\* One thread's call goes on, the others' stay.
LEMMA OneCallGoes ==
  ASSUME SinkTyped, NEW t \in Threads, NEW c \in SinkCalls, SinkGoes(t, c)
  PROVE  /\ sink' \in [Threads -> SinkCalls] /\ sink'[t] = c
         /\ \A u \in Threads : u # t => sink'[u] = sink[u]
  BY DEF SinkTyped, SinkGoes

\* Beginnings of the file's lines, as elements.
LEMMA PrefixIsBeginning ==
  ASSUME NEW s \in Seq(Nat), NEW t \in Seq(Nat)
  PROVE  IsPrefix(s, t) <=> IsStart(s, t)
<1> DEFINE n == Len(s)
<1>1. n \in Nat /\ Len(t) \in Nat
  BY LenProperties
<1>2. SUFFICES ASSUME n <= Len(t)
               PROVE  SubSeq(s, 1, n) = SubSeq(t, 1, n) <=> \A i \in 1 .. n : s[i] = t[i]
  BY <1>1 DEF IsPrefix, IsStart
<1>3. /\ \A i \in 1 .. n : s[i] \in Nat /\ t[i] \in Nat
  BY <1>1, <1>2, ElementOfSeq
<1>4. /\ SubSeq(s, 1, n) \in Seq(Nat) /\ Len(SubSeq(s, 1, n)) = n
      /\ \A i \in 1 .. n : SubSeq(s, 1, n)[i] = s[i]
  BY <1>1, <1>3, SubSeqProperties
<1>5. /\ SubSeq(t, 1, n) \in Seq(Nat) /\ Len(SubSeq(t, 1, n)) = n
      /\ \A i \in 1 .. n : SubSeq(t, 1, n)[i] = t[i]
  BY <1>1, <1>3, SubSeqProperties
<1> QED BY <1>1, <1>4, <1>5, SeqEqual

\* What begins a sequence begins what is appended to it.
LEMMA AppendBegins ==
  ASSUME NEW s \in Seq(Nat), NEW t \in Seq(Nat), NEW e \in Nat, IsStart(s, t)
  PROVE  IsStart(s, Append(t, e))
  BY AppendProperties, LenProperties DEF IsStart

\* Different lines are counted once each.
LEMMA LinesCounted ==
  ASSUME NEW s \in Seq(Nat), \A i, j \in DOMAIN s : s[i] = s[j] => i = j
  PROVE  Cardinality(ToSet(s)) = Len(s)
<1> DEFINE f == [i \in 1 .. Len(s) |-> s[i]]
<1>1. Len(s) \in Nat /\ DOMAIN s = 1 .. Len(s)
  BY LenProperties
<1>2. f \in Bijection(1 .. Len(s), ToSet(s))
  <2>1. f \in [1 .. Len(s) -> ToSet(s)]
    BY <1>1 DEF ToSet
  <2>2. \A i, j \in 1 .. Len(s) : f[i] = f[j] => i = j
    BY <1>1
  <2>3. \A e \in ToSet(s) : \E i \in 1 .. Len(s) : f[i] = e
    BY <1>1 DEF ToSet
  <2> QED BY <2>1, <2>2, <2>3 DEF Bijection, Injection, IsInjective, Surjection
<1> HIDE DEF f
<1>3. ExistsBijection(1 .. Len(s), ToSet(s))
  BY <1>2 DEF ExistsBijection
<1> QED BY <1>1, <1>3, FS_CountingElements

\* The invariant says of the mirror what is to be shown.
LEMMA InvImplies == AuditInv => MirrorIsTrue
<1> SUFFICES ASSUME AuditInv PROVE MirrorIsTrue
  OBVIOUS
<1>1. written \in Seq(Nat) /\ \A o \in Objects : memory[o] \in Seq(Nat) /\ cloud[o] \in Seq(Nat)
  BY DEF AuditInv, SinkTyped
<1>2. Cardinality(ToSet(written)) = Len(written)
  BY <1>1, LinesCounted DEF AuditInv, FileIsOne
<1>3. FileKeepsEveryLine
  BY <1>2 DEF FileKeepsEveryLine, AuditInv, FileIsOne, RememberedIsKept, InFile, ToSet
<1>4. \A o \in Objects : ToSet(cloud[o]) \subseteq ToSet(written)
  BY DEF AuditInv, RememberedIsKept, InFile, ToSet
<1>5. process # "crashed" => \A o \in Objects : IsPrefix(cloud[o], memory[o])
  BY <1>1, PrefixIsBeginning DEF AuditInv, MirrorFollows
<1> QED BY <1>3, <1>4, <1>5 DEF MirrorIsTrue, AuditInv, ExitFlushes

----------------------------------------------------------------------------
\* A call is audited: its event is a new one.
LEMMA CallKeeps ==
  ASSUME AuditInv, NEW t \in Threads, NEW o \in Objects, Call(t, o)
  PROVE  AuditInv'
<1> DEFINE c == [Idle EXCEPT !.step = "append", !.event = audited + 1, !.object = o]
<1>1. SinkTyped /\ audited \in Nat
  BY DEF AuditInv, SinkTyped
<1>2. c \in SinkCalls /\ c.step = "append" /\ c.event = audited + 1
  <2>1. "append" \in CallStates /\ audited + 1 \in Nat
    BY <1>1 DEF CallStates
  <2>2. PICK r \in SinkCalls : r = Idle
    BY IdleTyped
  <2>3. c = [r EXCEPT !.step = "append", !.event = audited + 1, !.object = o]
    BY <2>2
  <2> HIDE DEF c
  <2> QED BY <1>1, <2>1, <2>3 DEF SinkCalls
<1>3. SinkGoes(t, c) /\ audited' = audited + 1 /\ UNCHANGED <<lock, disk, written, base, memory, since, cloud, process>>
      /\ (t = MainThread => process = "up") /\ (quiet' => (quiet /\ process = "up"))
      /\ process \in {"up", "exiting"}
  BY DEF Call, Running
<1> HIDE DEF c
<1>4. /\ sink' \in [Threads -> SinkCalls] /\ sink'[t] = c
      /\ \A u \in Threads : u # t => sink'[u] = sink[u]
  BY <1>1, <1>2, <1>3, OneCallGoes
<1>5. SinkTyped'
  BY <1>1, <1>3, <1>4 DEF SinkTyped
<1>6. EventsAreNew'
  <2>1. \A i \in DOMAIN written : written[i] \in Nat /\ written[i] <= audited
    BY <1>1, LenProperties DEF SinkTyped, AuditInv, EventsAreNew
  <2>2. \A u \in Threads : Writing(u) => sink[u].event \in Nat /\ sink[u].event <= audited
                                          /\ ~InFile(sink[u].event)
    BY <1>1 DEF SinkTyped, SinkCalls, AuditInv, EventsAreNew
  <2>3. \A i \in DOMAIN written : written[i] # audited + 1
    BY <1>1, <2>1
  <2>4. \A u \in Threads : Writing(u) => sink[u].event # audited + 1
    BY <1>1, <2>2
  <2>5. \A i \in DOMAIN written' : written'[i] <= audited'
    BY <1>1, <1>3, <2>1
  <2>6. \A u \in Threads : Writing(u)' => sink'[u].event <= audited'
                                          /\ \A i \in DOMAIN written' : written'[i] # sink'[u].event
    BY <1>1, <1>2, <1>3, <1>4, <2>2, <2>3 DEF Writing, InFile
  <2>7. \A u, v \in Threads : Writing(u)' /\ Writing(v)' /\ u # v => sink'[u].event # sink'[v].event
    BY <1>2, <1>4, <2>4 DEF AuditInv, EventsAreNew, Writing
  <2> QED BY <2>5, <2>6, <2>7 DEF EventsAreNew, InFile
<1>7. FileIsOne' /\ RememberedIsKept' /\ MirrorFollows'
  BY <1>2, <1>3, <1>4 DEF AuditInv, FileIsOne, IsSince, RememberedIsKept, InFile, MirrorFollows
<1>8. ExitFlushes'
  BY <1>3 DEF ExitFlushes
<1> QED BY <1>5, <1>6, <1>7, <1>8 DEF AuditInv

----------------------------------------------------------------------------
\* A thread in the middle of an event is not at an exit nobody races.
LEMMA NotAtExit ==
  ASSUME AuditInv, NEW t \in Threads, sink[t].step \notin {"idle", "flush", "upload"}
  PROVE  ~(process = "exiting" /\ quiet)
  BY DEF AuditInv, ExitFlushes

\* At one, only the main thread is in a flush.
LEMMA MainFlushes ==
  ASSUME AuditInv, NEW t \in Threads, sink[t].step # "idle", process = "exiting", quiet
  PROVE  t = MainThread
  BY DEF AuditInv, ExitFlushes

\* The file as it is and no new event: what is being written stays new.
LEMMA EventsStayNew ==
  ASSUME AuditInv, NEW t \in Threads, NEW c \in SinkCalls, SinkGoes(t, c),
         UNCHANGED <<disk, written, base, audited>>,
         c.step \in {"append", "replace"} => Writing(t) /\ c.event = sink[t].event
  PROVE  EventsAreNew'
<1>1. /\ sink'[t] = c
      /\ \A u \in Threads : u # t => sink'[u] = sink[u]
  BY OneCallGoes DEF AuditInv
<1>2. \A u \in Threads : Writing(u)' => Writing(u) /\ sink'[u].event = sink[u].event
  BY <1>1 DEF Writing
<1> QED BY <1>2 DEF AuditInv, EventsAreNew, InFile

\* Who has the lock gives it up, or nobody takes it: the file is one.
LEMMA FileStaysOne ==
  ASSUME AuditInv, NEW t \in Threads, NEW c \in SinkCalls, SinkGoes(t, c),
         UNCHANGED <<disk, written, base>>, c.step # "replace", lock' = lock \/ sink[t].step = "replace"
  PROVE  FileIsOne'
<1>1. /\ sink'[t] = c
      /\ \A u \in Threads : u # t => sink'[u] = sink[u]
  BY OneCallGoes DEF AuditInv
<1>2. ASSUME NEW u \in Threads, sink'[u].step = "replace"
      PROVE  lock' = {u} /\ IsSince(sink[u].read, sink[u].from)'
  <2>1. u # t /\ sink[u].step = "replace" /\ lock = {u} /\ IsSince(sink[u].read, sink[u].from)
        /\ sink'[u] = sink[u]
    BY <1>1, <1>2 DEF AuditInv, FileIsOne
  <2>2. sink[t].step # "replace"
    BY <2>1 DEF AuditInv, FileIsOne
  <2> QED BY <2>1, <2>2 DEF IsSince
<1>3. IsSince(disk, base)'
  BY DEF AuditInv, FileIsOne, IsSince
<1> QED BY <1>2, <1>3 DEF AuditInv, FileIsOne

\* Nothing is remembered, uploaded or lost.
LEMMA RememberedStays ==
  ASSUME AuditInv, NEW t \in Threads, NEW c \in SinkCalls, SinkGoes(t, c),
         UNCHANGED <<disk, written, base, memory, cloud>>, c.step # "remember"
  PROVE  RememberedIsKept'
<1>1. /\ sink'[t] = c
      /\ \A u \in Threads : u # t => sink'[u] = sink[u]
  BY OneCallGoes DEF AuditInv
<1> QED BY <1>1 DEF AuditInv, RememberedIsKept, InFile

\* The mirror as it is, and the body taken from what is remembered, if any.
LEMMA MirrorStays ==
  ASSUME AuditInv, NEW t \in Threads, NEW c \in SinkCalls, SinkGoes(t, c),
         UNCHANGED <<memory, cloud>>, Running,
         c.step = "upload" => IsStart(c.read, memory[c.object])
  PROVE  MirrorFollows'
<1>1. /\ sink'[t] = c
      /\ \A u \in Threads : u # t => sink'[u] = sink[u]
  BY OneCallGoes DEF AuditInv
<1> QED BY <1>1 DEF AuditInv, MirrorFollows, Running, IsStart

\* The lock is taken, and what is read under it is what the file holds, or
\* nothing, after all that has been written.
LEMMA ReadKeeps ==
  ASSUME AuditInv, NEW t \in Threads, NEW c \in SinkCalls,
         c.step = "replace", c.event = sink[t].event, IsSince(c.read, c.from),
         sink[t].step = "append", SinkGoes(t, c), lock = {}, lock' = {t}, Running,
         UNCHANGED <<disk, written, base, memory, since, cloud, process, quiet, audited>>
  PROVE  AuditInv'
<1>1. SinkTyped
  BY DEF AuditInv
<1>2. c.step = "replace" /\ c.event = sink[t].event
  OBVIOUS
<1>3. /\ sink[t].step = "append" /\ SinkGoes(t, c) /\ lock = {} /\ lock' = {t} /\ Running
      /\ UNCHANGED <<disk, written, base, memory, since, cloud, process, quiet, audited>>
  OBVIOUS
<1>4. /\ sink' \in [Threads -> SinkCalls] /\ sink'[t] = c
      /\ \A u \in Threads : u # t => sink'[u] = sink[u]
  BY <1>1, <1>2, <1>3, OneCallGoes
<1>5. SinkTyped'
  BY <1>1, <1>3, <1>4 DEF SinkTyped
<1>6. EventsAreNew'
  BY <1>2, <1>3, EventsStayNew DEF Writing
<1>7. FileIsOne'
  <2>1. \A u \in Threads : sink'[u].step = "replace" => u = t
    BY <1>3, <1>4 DEF AuditInv, FileIsOne
  <2>2. IsSince(sink[t].read, sink[t].from)'
    BY <1>3, <1>4 DEF IsSince
  <2>3. IsSince(disk, base)'
    BY <1>3 DEF AuditInv, FileIsOne, IsSince
  <2> QED BY <1>3, <2>1, <2>2, <2>3 DEF AuditInv, FileIsOne
<1>8. RememberedIsKept' /\ MirrorFollows'
  BY <1>2, <1>3, RememberedStays, MirrorStays
<1>9. ExitFlushes'
  BY <1>3, NotAtExit DEF Running, ExitFlushes
<1> QED BY <1>5, <1>6, <1>7, <1>8, <1>9 DEF AuditInv

LEMMA LockAndReadKeeps ==
  ASSUME AuditInv, NEW t \in Threads, LockAndRead(t)
  PROVE  AuditInv'
<1> DEFINE c == [Step(t, "replace") EXCEPT !.read = disk, !.from = base]
<1>1. sink[t] \in SinkCalls /\ disk \in Seq(Nat) /\ base \in Nat
  BY DEF AuditInv, SinkTyped
<1>2. c \in SinkCalls /\ c.step = "replace" /\ c.event = sink[t].event /\ c.read = disk /\ c.from = base
  BY <1>1 DEF Step, SinkCalls, CallStates
<1>3. /\ sink[t].step = "append" /\ SinkGoes(t, c) /\ lock = {} /\ lock' = {t} /\ Running
      /\ UNCHANGED <<disk, written, base, memory, since, cloud, process, quiet, audited>>
  BY DEF LockAndRead
<1> HIDE DEF c
<1>4. IsSince(c.read, c.from)
  BY <1>2 DEF AuditInv, FileIsOne
<1> QED BY <1>2, <1>3, <1>4, ReadKeeps

LEMMA LockAndMisreadKeeps ==
  ASSUME AuditInv, NEW t \in Threads, LockAndMisread(t)
  PROVE  AuditInv'
<1> DEFINE c == [Step(t, "replace") EXCEPT !.read = <<>>, !.from = Len(written)]
<1>1. sink[t] \in SinkCalls /\ Len(written) \in Nat /\ <<>> \in Seq(Nat) /\ Len(<<>>) = 0
      /\ DOMAIN <<>> = {}
  BY EmptySeq, LenProperties DEF AuditInv, SinkTyped
<1>2. /\ c \in SinkCalls /\ c.step = "replace" /\ c.event = sink[t].event
      /\ c.read = <<>> /\ c.from = Len(written)
  BY <1>1 DEF Step, SinkCalls, CallStates
<1>3. /\ sink[t].step = "append" /\ SinkGoes(t, c) /\ lock = {} /\ lock' = {t} /\ Running
      /\ UNCHANGED <<disk, written, base, memory, since, cloud, process, quiet, audited>>
  BY DEF LockAndMisread
<1> HIDE DEF c
<1>4. IsSince(c.read, c.from)
  BY <1>1, <1>2 DEF IsSince
<1> QED BY <1>2, <1>3, <1>4, ReadKeeps

\* What begins after b lines goes on with the next line written.
LEMMA SinceGoesOn ==
  ASSUME written \in Seq(Nat), NEW s \in Seq(Nat), NEW b \in Nat, NEW e \in Nat, IsSince(s, b),
         written' = Append(written, e), disk' = Append(s, e), base' = b
  PROVE  IsSince(disk, base)' /\ disk' \in Seq(Nat)
<1>1. Len(s) \in Nat /\ Len(written) \in Nat /\ DOMAIN s = 1 .. Len(s) /\ b + Len(s) = Len(written)
  BY LenProperties DEF IsSince
<1>2. /\ disk' \in Seq(Nat) /\ Len(disk') = Len(s) + 1 /\ disk'[Len(s) + 1] = e
      /\ \A i \in 1 .. Len(s) : disk'[i] = s[i]
  BY AppendProperties
<1>3. /\ Len(written') = Len(written) + 1 /\ written'[Len(written) + 1] = e
      /\ \A i \in 1 .. Len(written) : written'[i] = written[i]
  BY AppendProperties
<1>4. DOMAIN disk' = 1 .. Len(s) + 1
  BY <1>2, LenProperties
<1>5. ASSUME NEW i \in 1 .. Len(s) + 1 PROVE disk'[i] = written'[b + i]
  <2>1. CASE i = Len(s) + 1
    <3>1. b + i = Len(written) + 1
      BY <1>1, <2>1
    <3> QED BY <1>2, <1>3, <2>1, <3>1
  <2>2. CASE i \in 1 .. Len(s)
    <3>1. b + i \in 1 .. Len(written)
      BY <1>1, <2>2
    <3>2. s[i] = written[b + i]
      BY <1>1, <2>2 DEF IsSince
    <3> QED BY <1>2, <1>3, <2>2, <3>1, <3>2
  <2> QED BY <1>1, <1>5, <2>1, <2>2
<1>6. base' + Len(disk') = Len(written')
  BY <1>1, <1>2, <1>3
<1> QED BY <1>2, <1>4, <1>5, <1>6 DEF IsSince

\* The file is replaced by what was read under the lock and the event.
LEMMA ReplaceKeeps ==
  ASSUME AuditInv, NEW t \in Threads, Replace(t)
  PROVE  AuditInv'
<1> DEFINE c == Step(t, "remember")
           e == sink[t].event
<1>1. SinkTyped /\ sink[t] \in SinkCalls /\ written \in Seq(Nat) /\ e \in Nat /\ audited \in Nat
  BY DEF AuditInv, SinkTyped, SinkCalls
<1>2. c \in SinkCalls /\ c.step = "remember" /\ c.event = e
  BY <1>1 DEF Step, SinkCalls, CallStates
<1>3. /\ sink[t].step = "replace" /\ SinkGoes(t, c) /\ lock' = {} /\ Running
      /\ written' = Append(written, e) /\ disk' = Append(sink[t].read, e) /\ base' = sink[t].from
      /\ UNCHANGED <<memory, since, cloud, process, quiet, audited>>
  BY DEF Replace
<1>4. lock = {t} /\ IsSince(sink[t].read, sink[t].from) /\ Writing(t) /\ e <= audited /\ ~InFile(e)
  BY <1>3 DEF AuditInv, FileIsOne, EventsAreNew, Writing
<1> HIDE DEF c, e
<1>5. /\ sink' \in [Threads -> SinkCalls] /\ sink'[t] = c
      /\ \A u \in Threads : u # t => sink'[u] = sink[u]
  BY <1>1, <1>2, <1>3, OneCallGoes
<1>6. /\ written' \in Seq(Nat) /\ DOMAIN written = 1 .. Len(written) /\ DOMAIN written' = 1 .. Len(written) + 1
      /\ Len(written) \in Nat /\ written'[Len(written) + 1] = e
      /\ \A i \in 1 .. Len(written) : written'[i] = written[i]
  BY <1>1, <1>3, <1>4, AppendProperties, LenProperties
<1>a. IsSince(disk, base)' /\ disk' \in Seq(Nat) /\ base' \in Nat
  <2>1. sink[t].read \in Seq(Nat) /\ sink[t].from \in Nat
    BY <1>1 DEF SinkCalls
  <2> QED BY <1>1, <1>3, <1>4, <2>1, SinceGoesOn
<1>7. SinkTyped'
  BY <1>1, <1>3, <1>5, <1>6, <1>a DEF SinkTyped
<1>8. \A i \in DOMAIN written' : written'[i] = e \/ (i \in DOMAIN written /\ written'[i] = written[i])
  BY <1>6
<1>9. EventsAreNew'
  <2>1. \A i \in DOMAIN written' : written'[i] <= audited'
    BY <1>3, <1>4, <1>8 DEF AuditInv, EventsAreNew
  <2>2. ASSUME NEW u \in Threads, Writing(u)'
        PROVE  u # t /\ Writing(u) /\ sink'[u].event = sink[u].event
    BY <1>2, <1>5, <2>2 DEF Writing
  <2>3. ASSUME NEW u \in Threads, Writing(u)'
        PROVE  sink'[u].event <= audited' /\ \A i \in DOMAIN written' : written'[i] # sink'[u].event
    <3>1. sink[u].event # e
      BY <1>4, <2>2, <2>3 DEF AuditInv, EventsAreNew, e
    <3>2. sink[u].event <= audited /\ ~InFile(sink[u].event)
      BY <2>2, <2>3 DEF AuditInv, EventsAreNew
    <3> QED BY <1>3, <1>8, <2>2, <2>3, <3>1, <3>2 DEF InFile
  <2>4. \A u, v \in Threads : Writing(u)' /\ Writing(v)' /\ u # v => sink'[u].event # sink'[v].event
    BY <2>2 DEF AuditInv, EventsAreNew
  <2> QED BY <2>1, <2>3, <2>4 DEF EventsAreNew, InFile
<1>10. FileIsOne'
  <2>1. ASSUME NEW i \in DOMAIN written', NEW j \in DOMAIN written', written'[i] = written'[j]
        PROVE  i = j
    <3>1. i = Len(written) + 1 \/ (i \in DOMAIN written /\ written'[i] = written[i] /\ written[i] # e)
      BY <1>4, <1>6 DEF InFile
    <3>2. j = Len(written) + 1 \/ (j \in DOMAIN written /\ written'[j] = written[j] /\ written[j] # e)
      BY <1>4, <1>6 DEF InFile
    <3> QED BY <1>6, <2>1, <3>1, <3>2 DEF AuditInv, FileIsOne
  <2>2. \A u \in Threads : sink'[u].step # "replace"
    BY <1>2, <1>4, <1>5 DEF AuditInv, FileIsOne
  <2> QED BY <1>a, <2>1, <2>2 DEF FileIsOne
<1>11. RememberedIsKept'
  <2>1. \A i \in DOMAIN written : \E j \in DOMAIN written' : written'[j] = written[i]
    BY <1>6
  <2>2. \E j \in DOMAIN written' : written'[j] = e
    BY <1>6
  <2>3. \A o \in Objects : \A i \in DOMAIN memory'[o] : \E j \in DOMAIN written' : written'[j] = memory'[o][i]
    BY <1>3, <2>1 DEF AuditInv, RememberedIsKept, InFile
  <2>4. \A o \in Objects : \A i \in DOMAIN cloud'[o] : \E j \in DOMAIN written' : written'[j] = cloud'[o][i]
    BY <1>3, <2>1 DEF AuditInv, RememberedIsKept, InFile
  <2>5. \A u \in Threads : sink'[u].step = "remember" => \E j \in DOMAIN written' : written'[j] = sink'[u].event
    BY <1>2, <1>5, <2>1, <2>2 DEF AuditInv, RememberedIsKept, InFile
  <2> QED BY <2>3, <2>4, <2>5 DEF RememberedIsKept, InFile
<1>12. MirrorFollows'
  BY <1>2, <1>3, MirrorStays
<1>13. ExitFlushes'
  BY <1>3, NotAtExit DEF Running, ExitFlushes
<1> QED BY <1>7, <1>9, <1>10, <1>11, <1>12, <1>13 DEF AuditInv

\* The replacement fails: the event is dropped and the lock given up.
LEMMA ReplaceFailsKeeps ==
  ASSUME AuditInv, NEW t \in Threads, ReplaceFails(t)
  PROVE  AuditInv'
<1>1. /\ sink[t].step = "replace" /\ SinkGoes(t, Idle) /\ Running
      /\ UNCHANGED <<disk, written, base, memory, since, cloud, process, quiet, audited>>
  BY DEF ReplaceFails
<1>2. Idle \in SinkCalls /\ Idle.step = "idle"
  BY IdleTyped
<1>3. sink' \in [Threads -> SinkCalls]
  BY <1>1, <1>2, OneCallGoes DEF AuditInv
<1>4. SinkTyped'
  BY <1>1, <1>3 DEF AuditInv, SinkTyped
<1>5. EventsAreNew' /\ FileIsOne' /\ RememberedIsKept' /\ MirrorFollows'
  BY <1>1, <1>2, EventsStayNew, FileStaysOne, RememberedStays, MirrorStays
<1>6. ExitFlushes'
  BY <1>1, NotAtExit DEF Running, ExitFlushes
<1> QED BY <1>4, <1>5, <1>6 DEF AuditInv

\* The event is remembered for the mirror, at the end of its object.
LEMMA RememberKeeps ==
  ASSUME AuditInv, NEW t \in Threads, Remember(t)
  PROVE  AuditInv'
<1> DEFINE c == [Step(t, "count") EXCEPT !.count = since]
           p == sink[t].object
           e == sink[t].event
<1>1. SinkTyped /\ sink[t] \in SinkCalls /\ since \in Nat /\ p \in Objects /\ e \in Nat
      /\ memory \in [Objects -> Seq(Nat)] /\ cloud \in [Objects -> Seq(Nat)]
  BY DEF AuditInv, SinkTyped, SinkCalls
<1>2. c \in SinkCalls /\ c.step = "count"
  BY <1>1 DEF Step, SinkCalls, CallStates
<1>3. /\ sink[t].step = "remember" /\ SinkGoes(t, c) /\ Running
      /\ memory' = [memory EXCEPT ![p] = Append(memory[p], e)]
      /\ UNCHANGED <<lock, disk, written, base, since, cloud, process, quiet, audited>>
  BY DEF Remember
<1>4. InFile(e)
  BY <1>3 DEF AuditInv, RememberedIsKept
<1> HIDE DEF c, e, p
<1>5. /\ sink' \in [Threads -> SinkCalls] /\ sink'[t] = c
      /\ \A u \in Threads : u # t => sink'[u] = sink[u]
  BY <1>1, <1>2, <1>3, OneCallGoes
<1>6. /\ Append(memory[p], e) \in Seq(Nat)
      /\ DOMAIN memory[p] = 1 .. Len(memory[p]) /\ Len(memory[p]) \in Nat
      /\ DOMAIN Append(memory[p], e) = 1 .. Len(memory[p]) + 1
      /\ Append(memory[p], e)[Len(memory[p]) + 1] = e
      /\ \A i \in 1 .. Len(memory[p]) : Append(memory[p], e)[i] = memory[p][i]
  BY <1>1, AppendProperties, LenProperties
<1>7. /\ memory' \in [Objects -> Seq(Nat)] /\ memory'[p] = Append(memory[p], e)
      /\ \A o \in Objects : o # p => memory'[o] = memory[o]
  BY <1>1, <1>3, <1>6
<1>8. SinkTyped'
  BY <1>1, <1>3, <1>5, <1>7 DEF SinkTyped
<1>9. EventsAreNew' /\ FileIsOne'
  BY <1>2, <1>3, EventsStayNew, FileStaysOne
<1>10. RememberedIsKept'
  <2>1. \A i \in DOMAIN memory'[p] : InFile(memory'[p][i])
    BY <1>1, <1>4, <1>6, <1>7 DEF AuditInv, RememberedIsKept
  <2>2. \A o \in Objects : \A i \in DOMAIN memory'[o] : InFile(memory'[o][i])
    BY <1>7, <2>1 DEF AuditInv, RememberedIsKept
  <2>3. \A u \in Threads : sink'[u].step = "remember" => InFile(sink'[u].event)
    BY <1>2, <1>5 DEF AuditInv, RememberedIsKept
  <2> QED BY <1>3, <2>2, <2>3 DEF AuditInv, RememberedIsKept, InFile
<1>11. MirrorFollows'
  <2>1. ASSUME NEW o \in Objects, NEW s \in Seq(Nat), IsStart(s, memory[o])
        PROVE  IsStart(s, memory'[o])
    BY <1>1, <1>7, <2>1, AppendBegins
  <2>2. \A o \in Objects : IsStart(cloud[o], memory'[o])
    BY <1>1, <1>3, <2>1 DEF AuditInv, MirrorFollows, Running
  <2>3. ASSUME NEW u \in Threads, sink'[u].step = "upload"
        PROVE  IsStart(sink'[u].read, memory'[sink'[u].object])
    <3>1. sink'[u] = sink[u] /\ sink[u] \in SinkCalls
      BY <1>1, <1>2, <1>5, <2>3 DEF SinkTyped
    <3>2. sink[u].object \in Objects /\ sink[u].read \in Seq(Nat)
      BY <3>1 DEF SinkCalls
    <3>3. IsStart(sink[u].read, memory[sink[u].object])
      BY <2>3, <3>1 DEF AuditInv, MirrorFollows
    <3> QED BY <2>1, <3>1, <3>2, <3>3
  <2> QED BY <1>3, <2>2, <2>3 DEF MirrorFollows, IsStart
<1>12. ExitFlushes'
  BY <1>3, NotAtExit DEF Running, ExitFlushes
<1> QED BY <1>8, <1>9, <1>10, <1>11, <1>12 DEF AuditInv

\* A flush that begins: every object is to do.
LEMMA FlushTyped ==
  /\ [Idle EXCEPT !.step = "flush", !.todo = Paths, !.paths = Paths] \in SinkCalls
  /\ [Idle EXCEPT !.step = "flush", !.todo = Paths, !.paths = Paths].step = "flush"
  /\ [Idle EXCEPT !.step = "flush", !.todo = Paths, !.paths = Paths].todo = Paths
<1>1. "flush" \in CallStates /\ Paths \in SUBSET Objects
  BY DEF CallStates, Paths
<1>2. PICK r \in SinkCalls : r = Idle
  BY IdleTyped
<1> QED BY <1>1, <1>2 DEF SinkCalls

\* The count is written: a flush, or the end of the call.
LEMMA CountKeeps ==
  ASSUME AuditInv, NEW t \in Threads, Count(t)
  PROVE  AuditInv'
<1> DEFINE c == IF since' >= FlushEvery
                  THEN [Idle EXCEPT !.step = "flush", !.todo = Paths, !.paths = Paths] ELSE Idle
<1>1. SinkTyped /\ sink[t].count \in Nat
  BY DEF AuditInv, SinkTyped, SinkCalls
<1>2. c \in SinkCalls /\ c.step \in {"idle", "flush"}
  BY IdleTyped, FlushTyped
<1>3. /\ sink[t].step = "count" /\ SinkGoes(t, c) /\ Running /\ since' \in Nat
      /\ UNCHANGED <<lock, disk, written, base, memory, cloud, process, quiet, audited>>
  BY <1>1 DEF Count
<1> HIDE DEF c
<1>4. sink' \in [Threads -> SinkCalls]
  BY <1>1, <1>2, <1>3, OneCallGoes
<1>5. SinkTyped'
  BY <1>1, <1>3, <1>4 DEF SinkTyped
<1>6. EventsAreNew' /\ FileIsOne' /\ RememberedIsKept' /\ MirrorFollows'
  BY <1>2, <1>3, EventsStayNew, FileStaysOne, RememberedStays, MirrorStays
<1>7. ExitFlushes'
  BY <1>3, NotAtExit DEF Running, ExitFlushes
<1> QED BY <1>5, <1>6, <1>7 DEF AuditInv

\* The body of an object is what is remembered of it.
LEMMA TakeBodyKeeps ==
  ASSUME AuditInv, NEW t \in Threads, TakeBody(t)
  PROVE  AuditInv'
<1>1. PICK p \in sink[t].todo :
        SinkGoes(t, [Step(t, "upload") EXCEPT !.object = p, !.read = memory[p], !.todo = @ \ {p}])
  BY DEF TakeBody
<1> DEFINE c == [Step(t, "upload") EXCEPT !.object = p, !.read = memory[p], !.todo = @ \ {p}]
<1>2. SinkTyped /\ sink[t] \in SinkCalls /\ p \in Objects /\ memory[p] \in Seq(Nat)
      /\ sink[t].todo \in SUBSET Objects
  BY DEF AuditInv, SinkTyped, SinkCalls
<1>3. c \in SinkCalls /\ c.step = "upload" /\ c.object = p /\ c.read = memory[p]
      /\ c.todo = sink[t].todo \ {p}
  BY <1>2 DEF Step, SinkCalls, CallStates
<1>4. /\ sink[t].step = "flush" /\ SinkGoes(t, c) /\ Running
      /\ UNCHANGED <<lock, disk, written, base, memory, since, cloud, process, quiet, audited>>
  BY <1>1 DEF TakeBody
<1> HIDE DEF c
<1>5. /\ sink' \in [Threads -> SinkCalls] /\ sink'[t] = c
      /\ \A u \in Threads : u # t => sink'[u] = sink[u]
  BY <1>2, <1>3, <1>4, OneCallGoes
<1>6. SinkTyped'
  BY <1>2, <1>4, <1>5 DEF SinkTyped
<1>7. IsStart(memory[p], memory[p])
  BY <1>2, LenProperties DEF IsStart
<1>8. EventsAreNew' /\ FileIsOne' /\ RememberedIsKept' /\ MirrorFollows'
  BY <1>3, <1>4, <1>7, EventsStayNew, FileStaysOne, RememberedStays, MirrorStays
<1>9. ExitFlushes'
  <2>1. process' # "flushed"
    BY <1>4 DEF Running
  <2>2. SUFFICES ASSUME process = "exiting", quiet
                 PROVE  /\ \A u \in Threads \ {MainThread} : sink'[u].step = "idle"
                        /\ c.step \in {"flush", "upload"} /\ c.read = memory[c.object]
                        /\ \A o \in Objects : o \notin c.todo /\ ~(c.step = "upload" /\ c.object = o)
                                              => cloud[o] = memory[o]
                        /\ t = MainThread
    BY <1>4, <1>5, <2>1 DEF ExitFlushes, Uploaded
  <2>3. t = MainThread
    BY <1>4, <2>2, MainFlushes
  <2>4. \A o \in Objects : o \notin sink[t].todo => cloud[o] = memory[o]
    BY <1>4, <2>2, <2>3 DEF AuditInv, ExitFlushes, Uploaded
  <2>5. \A u \in Threads \ {MainThread} : sink'[u].step = "idle"
    BY <1>5, <2>2, <2>3 DEF AuditInv, ExitFlushes
  <2> QED BY <1>3, <2>3, <2>4, <2>5
<1> QED BY <1>6, <1>8, <1>9 DEF AuditInv

\* The body is uploaded over the object.
LEMMA UploadKeeps ==
  ASSUME AuditInv, NEW t \in Threads, Upload(t)
  PROVE  AuditInv'
<1> DEFINE c == Step(t, "flush")
           p == sink[t].object
           b == sink[t].read
<1>1. SinkTyped /\ sink[t] \in SinkCalls /\ p \in Objects /\ b \in Seq(Nat)
      /\ memory \in [Objects -> Seq(Nat)] /\ cloud \in [Objects -> Seq(Nat)]
  BY DEF AuditInv, SinkTyped, SinkCalls
<1>2. c \in SinkCalls /\ c.step = "flush" /\ c.todo = sink[t].todo
  BY <1>1 DEF Step, SinkCalls, CallStates
<1>3. /\ sink[t].step = "upload" /\ SinkGoes(t, c) /\ Running
      /\ cloud' = [cloud EXCEPT ![p] = b]
      /\ UNCHANGED <<lock, disk, written, base, memory, since, process, quiet, audited>>
  BY DEF Upload
<1>4. IsStart(b, memory[p])
  BY <1>3 DEF AuditInv, MirrorFollows
<1>5. process = "exiting" /\ quiet => t = MainThread /\ b = memory[p]
  BY <1>3, MainFlushes DEF AuditInv, ExitFlushes
<1> HIDE DEF c, p, b
<1>6. /\ sink' \in [Threads -> SinkCalls] /\ sink'[t] = c
      /\ \A u \in Threads : u # t => sink'[u] = sink[u]
  BY <1>1, <1>2, <1>3, OneCallGoes
<1>7. /\ cloud' \in [Objects -> Seq(Nat)] /\ cloud'[p] = b
      /\ \A o \in Objects : o # p => cloud'[o] = cloud[o]
  BY <1>1, <1>3
<1>8. SinkTyped'
  BY <1>1, <1>3, <1>6, <1>7 DEF SinkTyped
<1>9. EventsAreNew' /\ FileIsOne'
  BY <1>2, <1>3, EventsStayNew, FileStaysOne
<1>10. RememberedIsKept'
  <2>1. \A i \in DOMAIN b : i \in DOMAIN memory[p] /\ b[i] = memory[p][i]
    <3>1. /\ Len(b) \in Nat /\ Len(memory[p]) \in Nat /\ memory[p] \in Seq(Nat)
          /\ DOMAIN b = 1 .. Len(b) /\ DOMAIN memory[p] = 1 .. Len(memory[p])
      BY <1>1, LenProperties
    <3> QED BY <1>4, <3>1 DEF IsStart
  <2>2. \A i \in DOMAIN b : InFile(b[i])
    BY <1>1, <2>1 DEF AuditInv, RememberedIsKept
  <2>3. \A o \in Objects : \A i \in DOMAIN cloud'[o] : InFile(cloud'[o][i])
    BY <1>7, <2>2 DEF AuditInv, RememberedIsKept
  <2>4. \A u \in Threads : sink'[u].step = "remember" => InFile(sink'[u].event)
    BY <1>2, <1>6 DEF AuditInv, RememberedIsKept
  <2> QED BY <1>3, <2>3, <2>4 DEF AuditInv, RememberedIsKept, InFile
<1>11. MirrorFollows'
  <2>1. \A o \in Objects : IsStart(cloud'[o], memory[o])
    BY <1>3, <1>4, <1>7 DEF AuditInv, MirrorFollows, Running
  <2>2. \A u \in Threads : sink'[u].step = "upload" => IsStart(sink'[u].read, memory[sink'[u].object])
    BY <1>2, <1>6 DEF AuditInv, MirrorFollows
  <2> QED BY <1>3, <2>1, <2>2 DEF MirrorFollows, IsStart
<1>12. ExitFlushes'
  <2>1. process' # "flushed"
    BY <1>3 DEF Running
  <2>2. SUFFICES ASSUME process = "exiting", quiet
                 PROVE  /\ \A u \in Threads \ {MainThread} : sink'[u].step = "idle"
                        /\ \A o \in Objects : o \notin c.todo => cloud'[o] = memory[o]
                        /\ t = MainThread
    BY <1>2, <1>3, <1>6, <2>1 DEF ExitFlushes, Uploaded
  <2>3. t = MainThread /\ b = memory[p]
    BY <1>5, <2>2
  <2>4. \A o \in Objects : o \notin sink[t].todo /\ o # p => cloud[o] = memory[o]
    BY <1>3, <2>2, <2>3 DEF AuditInv, ExitFlushes, Uploaded, p
  <2>5. \A u \in Threads \ {MainThread} : sink'[u].step = "idle"
    BY <1>6, <2>2, <2>3 DEF AuditInv, ExitFlushes
  <2> QED BY <1>2, <1>7, <2>3, <2>4, <2>5
<1> QED BY <1>8, <1>9, <1>10, <1>11, <1>12 DEF AuditInv

\* A flush that ends has uploaded what its process remembers, if nobody raced it.
LEMMA FlushEndsKeeps ==
  ASSUME AuditInv, NEW t \in Threads, FlushEnds(t)
  PROVE  AuditInv'
<1>1. /\ sink[t].step = "flush" /\ sink[t].todo = {} /\ SinkGoes(t, Idle) /\ Running /\ since' \in Nat
      /\ process' = IF t = MainThread /\ process = "exiting" THEN "flushed" ELSE process
      /\ UNCHANGED <<lock, disk, written, base, memory, cloud, quiet, audited>>
  BY DEF FlushEnds, Over
<1>2. Idle \in SinkCalls /\ Idle.step = "idle"
  BY IdleTyped
<1>3. sink' \in [Threads -> SinkCalls]
  BY <1>1, <1>2, OneCallGoes DEF AuditInv
<1>4. SinkTyped'
  BY <1>1, <1>3 DEF AuditInv, SinkTyped
<1>5. EventsAreNew' /\ FileIsOne' /\ RememberedIsKept' /\ MirrorFollows'
  BY <1>1, <1>2, EventsStayNew, FileStaysOne, RememberedStays, MirrorStays
<1>6. ExitFlushes'
  <2>1. process = "exiting" /\ quiet => t = MainThread
    BY <1>1, MainFlushes
  <2>2. process = "exiting" /\ quiet => cloud = memory
    <3>1. SUFFICES ASSUME process = "exiting", quiet
                   PROVE  cloud = memory
      OBVIOUS
    <3>2. \A o \in Objects : cloud[o] = memory[o]
      BY <1>1, <2>1, <3>1 DEF AuditInv, ExitFlushes, Uploaded
    <3>3. cloud \in [Objects -> Seq(Nat)] /\ memory \in [Objects -> Seq(Nat)]
      BY DEF AuditInv, SinkTyped
    <3> QED BY <3>2, <3>3
  <2>3. ~(process' = "exiting" /\ quiet')
    BY <1>1, <2>1
  <2>4. process' = "flushed" /\ quiet' => cloud' = memory'
    BY <1>1, <2>2 DEF Running
  <2> QED BY <2>3, <2>4 DEF ExitFlushes
<1> QED BY <1>4, <1>5, <1>6 DEF AuditInv

\* A flush that fails at an exit is said to have.
LEMMA FlushFailsKeeps ==
  ASSUME AuditInv, NEW t \in Threads, FlushFails(t)
  PROVE  AuditInv'
<1>1. /\ sink[t].step \in {"flush", "upload"} /\ SinkGoes(t, Idle) /\ Running
      /\ process' = IF t = MainThread /\ process = "exiting" THEN "unflushed" ELSE process
      /\ UNCHANGED <<lock, disk, written, base, memory, since, cloud, quiet, audited>>
  BY DEF FlushFails, Over
<1>2. Idle \in SinkCalls /\ Idle.step = "idle"
  BY IdleTyped
<1>3. sink' \in [Threads -> SinkCalls]
  BY <1>1, <1>2, OneCallGoes DEF AuditInv
<1>4. SinkTyped'
  BY <1>1, <1>3 DEF AuditInv, SinkTyped
<1>5. EventsAreNew' /\ FileIsOne' /\ RememberedIsKept' /\ MirrorFollows'
  BY <1>1, <1>2, EventsStayNew, FileStaysOne, RememberedStays, MirrorStays
<1>6. ExitFlushes'
  <2>1. process = "exiting" /\ quiet => t = MainThread
    BY <1>1, MainFlushes
  <2> QED BY <1>1, <2>1 DEF Running, ExitFlushes
<1> QED BY <1>4, <1>5, <1>6 DEF AuditInv

\* The exit's flush begins: what has no line is not to do.
LEMMA ExitKeeps ==
  ASSUME AuditInv, Exit
  PROVE  AuditInv'
<1> DEFINE c == [Idle EXCEPT !.step = "flush", !.todo = Paths, !.paths = Paths]
<1>1. c \in SinkCalls /\ c.step = "flush" /\ c.todo = Paths
  BY FlushTyped
<1>2. SinkGoes(MainThread, c) /\ process = "up" /\ process' = "exiting" /\ Running
      /\ (quiet' => \A t \in Threads : sink[t] = Idle)
      /\ UNCHANGED <<lock, disk, written, base, memory, since, cloud, audited>> /\ MainThread \in Threads
  BY SinkAssumption DEF Exit, Running
<1> HIDE DEF c
<1>3. /\ sink' \in [Threads -> SinkCalls] /\ sink'[MainThread] = c
      /\ \A u \in Threads : u # MainThread => sink'[u] = sink[u]
  BY <1>1, <1>2, OneCallGoes DEF AuditInv
<1>4. SinkTyped'
  BY <1>2, <1>3 DEF AuditInv, SinkTyped
<1>5. EventsAreNew' /\ FileIsOne' /\ RememberedIsKept' /\ MirrorFollows'
  BY <1>1, <1>2, EventsStayNew, FileStaysOne, RememberedStays, MirrorStays
<1>6. ExitFlushes'
  <2>1. quiet' => \A u \in Threads \ {MainThread} : sink'[u].step = "idle"
    BY <1>2, <1>3, IdleTyped
  <2>2. ASSUME NEW o \in Objects, o \notin Paths
        PROVE  cloud[o] = memory[o]
    <3>1. memory[o] = <<>> /\ IsStart(cloud[o], memory[o]) /\ cloud[o] \in Seq(Nat)
      BY <1>2, <2>2 DEF Paths, AuditInv, MirrorFollows, SinkTyped
    <3>2. Len(cloud[o]) = 0
      BY <3>1, LenProperties DEF IsStart
    <3> QED BY <3>1, <3>2, EmptySeq
  <2> QED BY <1>1, <1>2, <1>3, <2>1, <2>2 DEF ExitFlushes, Uploaded
<1> QED BY <1>4, <1>5, <1>6 DEF AuditInv

\* A crash leaves the file and the bucket, and forgets the rest.
LEMMA SinkCrashKeeps ==
  ASSUME AuditInv, Crash
  PROVE  AuditInv'
<1>1. /\ process' = "crashed" /\ sink' = [t \in Threads |-> Idle]
      /\ memory' = [o \in Objects |-> <<>>] /\ since' = 0 /\ UNCHANGED <<disk, written, base, cloud, audited>>
  BY DEF Crash
<1>2. Idle \in SinkCalls /\ Idle.step = "idle" /\ \A t \in Threads : sink'[t] = Idle
  BY <1>1, IdleTyped
<1>3. <<>> \in Seq(Nat) /\ DOMAIN <<>> = {}
  BY EmptySeq
<1>4. SinkTyped'
  BY <1>1, <1>2, <1>3 DEF AuditInv, SinkTyped
<1>5. EventsAreNew' /\ FileIsOne'
  BY <1>1, <1>2 DEF AuditInv, EventsAreNew, FileIsOne, IsSince, Writing, InFile
<1>6. RememberedIsKept'
  BY <1>1, <1>2, <1>3 DEF AuditInv, RememberedIsKept, InFile
<1>7. MirrorFollows' /\ ExitFlushes'
  BY <1>1, <1>2 DEF MirrorFollows, ExitFlushes
<1> QED BY <1>4, <1>5, <1>6, <1>7 DEF AuditInv

\* Nothing is audited, remembered or mirrored at first.
LEMMA SinkStarts == AuditInit => AuditInv
<1> SUFFICES ASSUME AuditInit PROVE AuditInv
  OBVIOUS
<1>1. /\ sink = [t \in Threads |-> Idle] /\ written = <<>> /\ disk = <<>> /\ base = 0 /\ audited = 0 /\ since = 0 /\ process = "up"
      /\ memory = [o \in Objects |-> <<>>] /\ cloud = [o \in Objects |-> <<>>]
  BY DEF AuditInit
<1>2. Idle \in SinkCalls /\ Idle.step = "idle" /\ \A t \in Threads : sink[t] = Idle
  BY <1>1, IdleTyped
<1>3. <<>> \in Seq(Nat) /\ DOMAIN <<>> = {} /\ Len(<<>>) = 0
  BY EmptySeq, LenProperties
<1>4. SinkTyped
  BY <1>1, <1>2, <1>3 DEF SinkTyped
<1>5. EventsAreNew /\ FileIsOne
  BY <1>1, <1>2, <1>3 DEF EventsAreNew, FileIsOne, IsSince, Writing, InFile
<1>6. RememberedIsKept
  BY <1>1, <1>2, <1>3 DEF RememberedIsKept, InFile
<1>7. MirrorFollows /\ ExitFlushes
  BY <1>1, <1>2, <1>3 DEF MirrorFollows, ExitFlushes, IsStart
<1> QED BY <1>4, <1>5, <1>6, <1>7 DEF AuditInv

\* A stutter keeps every part.
LEMMA SinkStutters ==
  ASSUME AuditInv, UNCHANGED auditVars
  PROVE  AuditInv'
  BY DEF AuditInv, auditVars, SinkTyped, EventsAreNew, Writing, FileIsOne, IsSince, RememberedIsKept, InFile,
     MirrorFollows, ExitFlushes, Uploaded

\* Every step keeps the invariant.
LEMMA SinkGoesOn == AuditInv /\ [AuditNext]_auditVars => AuditInv'
<1> SUFFICES ASSUME AuditInv, [AuditNext]_auditVars PROVE AuditInv'
  OBVIOUS
<1> QED
  BY CallKeeps, LockAndReadKeeps, LockAndMisreadKeeps, ReplaceKeeps, ReplaceFailsKeeps, RememberKeeps, CountKeeps,
     TakeBodyKeeps, UploadKeeps, FlushEndsKeeps, FlushFailsKeeps, ExitKeeps, SinkCrashKeeps, SinkStutters
     DEF AuditNext

\* The file holds every line written since its last failed read, the mirror never
\* holds what was not written to the file, nor anything but the first events of a
\* run in order, and a flush at an exit nobody races mirrors every event: through audit_log.py's lock, its unlocked memory and count, and its
\* flushes, for any threads, objects, events and failures.
THEOREM MirrorAlwaysTrue == AuditSpec => []MirrorIsTrue
<1> QED BY SinkStarts, SinkGoesOn, InvImplies, PTL DEF AuditSpec

----------------------------------------------------------------------------
(* Run telemetry.  Scopes nest, and each remembers the context it replaced; *)
(* so the contexts in the run of an open session are those its list is     *)
(* bound in, whatever buffers, sessions and isolated stretches it opens.   *)

\* An event, and a scope.
Events == [name : {"own", "run.started", "finished ok", "finished error"}, n : Nat]
ScopeRecords ==
  [kind : ScopeKinds, list : Nat, from : Nat, run : Nat, bound : Nat, active : BOOLEAN, inside : Nat]

\* The type of what the steps change.
TelemetryTyped ==
  /\ scopes \in Seq(ScopeRecords) /\ lists \in Seq(Seq(Events)) /\ during \in Seq(Seq(Events))
  /\ bound \in Nat /\ active \in BOOLEAN /\ inside \in Nat
  /\ runs \in Nat /\ runs = Len(during) /\ reported \in Nat

(* The contexts of the stack, outermost first: what each scope replaced,    *)
(* then the one in force.                                                   *)
BoundAt(k) == IF k <= Len(scopes) THEN scopes[k].bound ELSE bound
ActiveAt(k) == IF k <= Len(scopes) THEN scopes[k].active ELSE active
InsideAt(k) == IF k <= Len(scopes) THEN scopes[k].inside ELSE inside
Levels == 1 .. Len(scopes) + 1

(* A context in a run has a list bound for it.                              *)
ContextsFit ==
  \A k \in Levels :
    /\ BoundAt(k) \in 0 .. Len(lists) /\ InsideAt(k) \in 0 .. runs
    /\ ActiveAt(k) <=> InsideAt(k) # 0
    /\ InsideAt(k) # 0 => BoundAt(k) # 0

(* A run that has been reported on, but not its end; and a run whole.       *)
Begun(s) == Len(s) >= 1 /\ \A j \in 1 .. Len(s) : s[j].name # "own" <=> j = 1
Whole(s) == \A j \in 1 .. Len(s) : s[j].name # "own" <=> j \in {1, Len(s)}

(* The part of list l from f on is d.                                       *)
TailIs(l, f, d) == Len(l) = f + Len(d) /\ \A j \in 1 .. Len(d) : d[j] = l[f + j]

(* An open session: no context before it is in its run, and of the contexts *)
(* since, those in its run are those its list is bound in; so its part of   *)
(* the list is what was reported in its run.                                *)
SessionFits(i) ==
  LET s == scopes[i] IN
    /\ s.list \in 1 .. Len(lists) /\ s.run \in 1 .. runs
    /\ BoundAt(i + 1) = s.list /\ InsideAt(i + 1) = s.run
    /\ \A k \in 1 .. i : InsideAt(k) < s.run
    /\ \A k \in (i + 1) .. (Len(scopes) + 1) : BoundAt(k) = s.list <=> InsideAt(k) = s.run
    /\ Begun(during[s.run])
    /\ TailIs(lists[s.list], s.from, during[s.run])

SessionsFit == \A i \in 1 .. Len(scopes) : scopes[i].kind = "session" => SessionFits(i)

(* An object is a whole run, and one no context will be in again.           *)
ObjectsFit ==
  \A id \in DOMAIN objects : objects[id] # <<>> =>
    \E r \in 1 .. runs :
      /\ objects[id] = during[r] /\ Whole(during[r])
      /\ \A k \in Levels : InsideAt(k) # r

(* The inductive invariant.                                                 *)
TelemetryInv == TelemetryTyped /\ ContextsFit /\ SessionsFit /\ ObjectsFit

(* Opening a scope adds a context, and leaves those before it.              *)
LEMMA OpenedContexts ==
  ASSUME TelemetryTyped, NEW s \in ScopeRecords, Opens(s),
         s.bound = bound, s.active = active, s.inside = inside
  PROVE  /\ scopes' \in Seq(ScopeRecords) /\ Len(scopes') = Len(scopes) + 1
         /\ scopes'[Len(scopes')] = s /\ Len(scopes) \in Nat
         /\ \A i \in 1 .. Len(scopes) : scopes'[i] = scopes[i]
         /\ Levels' = Levels \cup {Len(scopes') + 1}
         /\ \A k \in Levels : /\ BoundAt(k)' = BoundAt(k) /\ ActiveAt(k)' = ActiveAt(k)
                                /\ InsideAt(k)' = InsideAt(k)
         /\ \A k \in Levels' \ Levels : /\ BoundAt(k)' = bound' /\ ActiveAt(k)' = active'
                                            /\ InsideAt(k)' = inside'
<1>1. /\ scopes' = Append(scopes, s) /\ scopes \in Seq(ScopeRecords)
      /\ Len(scopes) \in Nat
  BY DEF TelemetryTyped, Opens
<1>2. /\ scopes' \in Seq(ScopeRecords) /\ Len(scopes') = Len(scopes) + 1
      /\ scopes'[Len(scopes')] = s
      /\ \A i \in 1 .. Len(scopes) : scopes'[i] = scopes[i]
  BY <1>1, AppendProperties
<1>3. Levels' = Levels \cup {Len(scopes') + 1}
  BY <1>1, <1>2 DEF Levels
<1>4. ASSUME NEW k \in Levels
      PROVE  /\ BoundAt(k)' = BoundAt(k) /\ ActiveAt(k)' = ActiveAt(k)
             /\ InsideAt(k)' = InsideAt(k)
  <2>1. CASE k <= Len(scopes)
    <3>1. k \in 1 .. Len(scopes) /\ k <= Len(scopes') /\ scopes'[k] = scopes[k]
      BY <1>1, <1>2, <2>1 DEF Levels
    <3>2. QED
      BY <2>1, <3>1 DEF BoundAt, ActiveAt, InsideAt
  <2>2. CASE k = Len(scopes')
    <3>1. ~(k <= Len(scopes)) /\ k <= Len(scopes') /\ scopes'[k] = s
      BY <1>1, <1>2, <2>2
    <3>2. QED
      BY <3>1 DEF BoundAt, ActiveAt, InsideAt
  <2>3. QED
    BY <1>1, <1>2, <2>1, <2>2 DEF Levels
<1>5. ASSUME NEW k \in Levels' \ Levels
      PROVE  /\ BoundAt(k)' = bound' /\ ActiveAt(k)' = active' /\ InsideAt(k)' = inside'
  <2>1. ~(k <= Len(scopes'))
    BY <1>1, <1>2, <1>3, <1>5
  <2>2. QED
    BY <2>1 DEF BoundAt, ActiveAt, InsideAt
<1>6. QED
  BY <1>1, <1>2, <1>3, <1>4, <1>5

(* Closing the innermost scope puts back the context it replaced.           *)
LEMMA ClosedContexts ==
  ASSUME TelemetryTyped, scopes # <<>>, Closes,
         bound' = TopScope.bound, active' = TopScope.active, inside' = TopScope.inside
  PROVE  /\ scopes' \in Seq(ScopeRecords) /\ Len(scopes) \in Nat \ {0}
         /\ Len(scopes') = Len(scopes) - 1
         /\ \A i \in 1 .. Len(scopes') : scopes'[i] = scopes[i]
         /\ Levels' = 1 .. Len(scopes)
         /\ \A k \in Levels' : /\ BoundAt(k)' = BoundAt(k) /\ ActiveAt(k)' = ActiveAt(k)
                                 /\ InsideAt(k)' = InsideAt(k)
<1>1. scopes \in Seq(ScopeRecords) /\ Len(scopes) \in Nat \ {0}
  BY DEF TelemetryTyped
<1>2. /\ scopes' = SubSeq(scopes, 1, Len(scopes) - 1)
      /\ scopes' \in Seq(ScopeRecords) /\ Len(scopes') = Len(scopes) - 1
      /\ \A i \in 1 .. Len(scopes') : scopes'[i] = scopes[i]
  <2>1. \A i \in 1 .. Len(scopes) - 1 : scopes[i] \in ScopeRecords
    BY <1>1
  <2>2. scopes' = SubSeq(scopes, 1, Len(scopes) - 1)
    BY DEF Closes
  <2>3. PICK m \in Nat : m = Len(scopes) - 1
    BY <1>1
  <2>4. /\ scopes' = SubSeq(scopes, 1, m) /\ scopes' \in Seq(ScopeRecords)
        /\ Len(scopes') = IF 1 <= m THEN m - 1 + 1 ELSE 0
        /\ \A i \in 1 .. m - 1 + 1 : scopes'[i] = scopes[1 + i - 1]
    BY <2>1, <2>2, <2>3, SubSeqProperties
  <2>5. Len(scopes') = m
    BY <2>3, <2>4
  <2>6. ASSUME NEW i \in 1 .. Len(scopes') PROVE scopes'[i] = scopes[i]
    <3>1. i \in 1 .. m - 1 + 1 /\ 1 + i - 1 = i
      BY <2>3, <2>5
    <3>2. QED
      BY <2>4, <3>1
  <2>7. QED
    BY <2>2, <2>3, <2>4, <2>5, <2>6
<1>3. Levels' = 1 .. Len(scopes)
  BY <1>1, <1>2 DEF Levels
<1>4. ASSUME NEW k \in Levels'
      PROVE  /\ BoundAt(k)' = BoundAt(k) /\ ActiveAt(k)' = ActiveAt(k)
             /\ InsideAt(k)' = InsideAt(k)
  <2>1. CASE k <= Len(scopes')
    <3>1. k \in 1 .. Len(scopes') /\ k <= Len(scopes)
      BY <1>1, <1>2, <1>3, <2>1
    <3>2. QED
      BY <1>2, <2>1, <3>1 DEF BoundAt, ActiveAt, InsideAt
  <2>2. CASE ~(k <= Len(scopes'))
    <3>1. k = Len(scopes) /\ k <= Len(scopes)
      BY <1>1, <1>2, <1>3, <2>2
    <3>2. QED
      BY <2>2, <3>1 DEF BoundAt, ActiveAt, InsideAt, TopScope
  <2>3. QED
    BY <2>1, <2>2
<1>5. QED
  BY <1>1, <1>2, <1>3, <1>4

(* A step that opens a scope which is no session, in the same context, in   *)
(* none, or with a list of its own.                                         *)
LEMMA OpensPlainly ==
  ASSUME TelemetryInv, NEW s \in ScopeRecords, Opens(s), s.kind # "session",
         s.bound = bound, s.active = active, s.inside = inside,
         UNCHANGED <<objects, runs, during, reported>>,
         lists' \in {lists, Append(lists, <<>>)}, active' \in BOOLEAN,
         \/ UNCHANGED <<bound, active, inside>>
         \/ bound' = 0 /\ ~active' /\ inside' = 0
         \/ bound = 0 /\ bound' = Len(lists') /\ lists' # lists /\ UNCHANGED <<active, inside>>
  PROVE  TelemetryInv'
<1>1. TelemetryTyped
  BY DEF TelemetryInv
<1> DEFINE n == Len(scopes) + 1
<1>2. /\ scopes' \in Seq(ScopeRecords) /\ Len(scopes') = n
      /\ scopes'[Len(scopes')] = s /\ Len(scopes) \in Nat
      /\ \A i \in 1 .. Len(scopes) : scopes'[i] = scopes[i]
      /\ Levels' = Levels \cup {n + 1} /\ n \in Levels
      /\ \A k \in Levels : /\ BoundAt(k)' = BoundAt(k) /\ ActiveAt(k)' = ActiveAt(k)
                             /\ InsideAt(k)' = InsideAt(k)
      /\ n + 1 \notin Levels
      /\ \A k \in Levels' \ Levels : /\ BoundAt(k)' = bound' /\ ActiveAt(k)' = active'
                                         /\ InsideAt(k)' = inside'
  BY <1>1, OpenedContexts DEF Levels
<1>3. /\ lists' \in Seq(Seq(Events)) /\ Len(lists) \in Nat
      /\ Len(lists') \in {Len(lists), Len(lists) + 1}
      /\ lists' # lists => Len(lists') = Len(lists) + 1
      /\ \A l \in 1 .. Len(lists) : lists'[l] = lists[l]
  <2>1. <<>> \in Seq(Events) /\ lists \in Seq(Seq(Events)) /\ Len(lists) \in Nat
    BY <1>1 DEF TelemetryTyped
  <2>2. CASE lists' = lists
    BY <2>1, <2>2
  <2>3. CASE lists' = Append(lists, <<>>)
    BY <2>1, <2>3, AppendProperties
  <2>4. QED
    BY <2>2, <2>3
<1>4. TelemetryTyped'
  <2>1. bound' \in Nat /\ active' \in BOOLEAN /\ inside' \in Nat
    <3>1. Len(lists') \in Nat
      BY <1>3
    <3>2. QED
      BY <1>1, <3>1 DEF TelemetryTyped
  <2>2. QED
    BY <1>1, <1>2, <1>3, <2>1 DEF TelemetryTyped
<1>5. /\ BoundAt(n) = bound /\ InsideAt(n) = inside /\ ActiveAt(n) = active
      /\ bound \in 0 .. Len(lists) /\ inside \in 0 .. runs /\ runs \in Nat
      /\ (active <=> inside # 0) /\ (inside # 0 => bound # 0)
  <2>1. BoundAt(n) = bound /\ InsideAt(n) = inside /\ ActiveAt(n) = active
    BY <1>2 DEF BoundAt, InsideAt, ActiveAt
  <2>2. QED
    BY <1>1, <1>2, <2>1 DEF TelemetryInv, ContextsFit, TelemetryTyped
<1>6. /\ bound' \in 0 .. Len(lists') /\ inside' \in 0 .. runs'
      /\ (active' <=> inside' # 0) /\ (inside' # 0 => bound' # 0)
  BY <1>3, <1>5
<1>7. ContextsFit'
  <2> SUFFICES ASSUME NEW k \in Levels'
               PROVE  /\ BoundAt(k)' \in 0 .. Len(lists') /\ InsideAt(k)' \in 0 .. runs'
                      /\ ActiveAt(k)' <=> InsideAt(k)' # 0
                      /\ InsideAt(k)' # 0 => BoundAt(k)' # 0
    BY DEF ContextsFit
  <2>1. CASE k \in Levels
    BY <1>2, <1>3, <2>1 DEF TelemetryInv, ContextsFit
  <2>2. CASE k = n + 1
    BY <1>2, <1>6, <2>2
  <2>3. QED
    BY <1>2, <2>1, <2>2
<1>8. SessionsFit'
  <2> SUFFICES ASSUME NEW i \in 1 .. Len(scopes'), scopes'[i].kind = "session"
               PROVE  SessionFits(i)'
    BY DEF SessionsFit
  <2>1. i \in 1 .. Len(scopes) /\ scopes'[i] = scopes[i] /\ SessionFits(i)
    BY <1>2 DEF TelemetryInv, SessionsFit
  <2>a. PICK o \in ScopeRecords : o = scopes[i]
    BY <1>1, <2>1, <2>a DEF TelemetryTyped
  <2>b. o.list \in Nat /\ o.run \in Nat
    BY DEF ScopeRecords
  <2>2. /\ o.list \in 1 .. Len(lists) /\ o.run \in 1 .. runs /\ lists'[o.list] = lists[o.list]
        /\ o.list # 0 /\ o.run # 0
    <3>1. o.list \in 1 .. Len(lists) /\ o.run \in 1 .. runs
      BY <2>1, <2>a DEF SessionFits
    <3>2. o.list # 0 /\ o.run # 0
      <4>1. Len(lists) \in Nat /\ runs \in Nat
        BY <1>1 DEF TelemetryTyped
      <4>2. \A m \in Nat : \A x \in 1 .. m : x # 0
        OBVIOUS
      <4>3. QED
        BY <3>1, <4>1, <4>2
    <3>3. lists'[o.list] = lists[o.list]
      BY <1>3, <3>1
    <3>4. QED
      BY <3>1, <3>2, <3>3
  <2>3. BoundAt(i + 1)' = o.list /\ InsideAt(i + 1)' = o.run
    BY <1>2, <2>1, <2>a DEF SessionFits, Levels
  <2>4. \A k \in 1 .. i : InsideAt(k)' < o.run
    <3>1. \A k \in 1 .. i : k \in Levels /\ InsideAt(k) < o.run
      BY <1>2, <2>1, <2>a DEF SessionFits, Levels
    <3>2. QED
      BY <1>2, <3>1
  <2>5. bound' = o.list <=> inside' = o.run
    <3>1. bound = o.list <=> inside = o.run
      BY <1>2, <1>5, <2>1, <2>a DEF SessionFits
    <3>2. CASE UNCHANGED <<bound, active, inside>>
      BY <3>1, <3>2
    <3>3. CASE bound' = 0 /\ ~active' /\ inside' = 0
      BY <2>2, <3>3
    <3>4. CASE bound = 0 /\ bound' = Len(lists') /\ lists' # lists /\ UNCHANGED <<active, inside>>
      BY <1>3, <1>5, <2>2, <3>1, <3>4
    <3>5. QED
      BY <3>2, <3>3, <3>4
  <2>6. ASSUME NEW k \in (i + 1) .. (Len(scopes') + 1)
        PROVE  BoundAt(k)' = o.list <=> InsideAt(k)' = o.run
    <3>1. CASE k = n + 1
      BY <1>2, <2>5, <3>1
    <3>2. CASE k \in (i + 1) .. (Len(scopes) + 1)
      <4>1. k \in Levels
        BY <1>2, <2>1, <2>a, <3>2 DEF Levels
      <4>2. BoundAt(k) = o.list <=> InsideAt(k) = o.run
        BY <2>1, <2>a, <3>2 DEF SessionFits
      <4>3. QED
        BY <1>2, <4>1, <4>2
    <3>3. QED
      BY <1>2, <3>1, <3>2
  <2>7. QED
    BY <1>3, <2>1, <2>a, <2>2, <2>3, <2>4, <2>6 DEF SessionFits
<1>9. ObjectsFit'
  <2> SUFFICES ASSUME NEW id \in DOMAIN objects, objects[id] # <<>>
               PROVE  \E r \in 1 .. runs : /\ objects[id] = during[r] /\ Whole(during[r])
                                           /\ \A k \in Levels' : InsideAt(k)' # r
    BY DEF ObjectsFit
  <2>1. PICK r \in 1 .. runs : /\ objects[id] = during[r] /\ Whole(during[r])
                               /\ \A k \in Levels : InsideAt(k) # r
    BY DEF TelemetryInv, ObjectsFit
  <2>2. inside' # r
    BY <1>2, <1>5, <2>1
  <2>3. QED
    BY <1>2, <2>1, <2>2
<1>10. QED
  BY <1>4, <1>7, <1>8, <1>9 DEF TelemetryInv


(* Events reach a run and its part of the list together.                    *)
LEMMA TailGrows ==
  ASSUME NEW l \in Seq(Events), NEW d \in Seq(Events), NEW f \in Nat, NEW e \in Events,
         TailIs(l, f, d)
  PROVE  TailIs(Append(l, e), f, Append(d, e))
<1>1. Len(l) = f + Len(d) /\ Len(d) \in Nat /\ \A j \in 1 .. Len(d) : d[j] = l[f + j]
  BY DEF TailIs
<1>2. Len(Append(l, e)) = Len(l) + 1 /\ Len(Append(d, e)) = Len(d) + 1
  OBVIOUS
<1>3. ASSUME NEW j \in 1 .. Len(d) + 1 PROVE Append(d, e)[j] = Append(l, e)[f + j]
  <2>1. CASE j \in 1 .. Len(d)
    <3>1. f + j \in 1 .. Len(l)
      BY <1>1, <2>1
    <3>2. Append(d, e)[j] = d[j] /\ Append(l, e)[f + j] = l[f + j]
      BY <2>1, <3>1, AppendProperties
    <3>3. QED
      BY <1>1, <2>1, <3>2
  <2>2. CASE j = Len(d) + 1
    <3>1. f + j = Len(l) + 1
      BY <1>1, <2>2
    <3>2. Append(d, e)[Len(d) + 1] = e /\ Append(l, e)[Len(l) + 1] = e
      BY AppendProperties
    <3>3. QED
      BY <2>2, <3>1, <3>2
  <2>3. QED
    BY <1>1, <2>1, <2>2
<1>4. Len(Append(l, e)) = f + Len(Append(d, e))
  BY <1>1, <1>2
<1>5. \A j \in 1 .. Len(Append(d, e)) : Append(d, e)[j] = Append(l, e)[f + j]
  BY <1>2, <1>3
<1>6. QED
  BY <1>4, <1>5 DEF TailIs

(* A run grows by an event of the worker's, and ends with another.          *)
LEMMA RunGrows ==
  ASSUME NEW d \in Seq(Events), NEW e \in Events, Begun(d)
  PROVE  /\ Append(d, e) \in Seq(Events)
         /\ e.name = "own" => Begun(Append(d, e))
         /\ e.name # "own" => Whole(Append(d, e)) /\ Append(d, e) # <<>>
<1>1. /\ Append(d, e) \in Seq(Events) /\ Len(Append(d, e)) = Len(d) + 1 /\ Len(d) \in Nat
      /\ Append(d, e)[Len(d) + 1] = e /\ \A j \in 1 .. Len(d) : Append(d, e)[j] = d[j]
  BY AppendProperties
<1>2. Len(d) >= 1 /\ \A j \in 1 .. Len(d) : d[j].name # "own" <=> j = 1
  BY DEF Begun
<1>3. \A j \in 1 .. Len(d) + 1 : (j \in 1 .. Len(d) /\ j # Len(d) + 1) \/ (j = Len(d) + 1 /\ j # 1)
  BY <1>1, <1>2
<1>4. e.name = "own" => Begun(Append(d, e))
  BY <1>1, <1>2, <1>3 DEF Begun
<1>5. e.name # "own" => Whole(Append(d, e))
  BY <1>1, <1>2, <1>3 DEF Whole
<1>6. QED
  BY <1>1, <1>4, <1>5

(* What a session uploads is its run.                                       *)
LEMMA PartIsRun ==
  ASSUME NEW l \in Seq(Events), NEW d \in Seq(Events), NEW f \in Nat, TailIs(l, f, d)
  PROVE  SubSeq(l, f + 1, Len(l)) = d
<1>1. Len(l) = f + Len(d) /\ Len(d) \in Nat /\ \A j \in 1 .. Len(d) : d[j] = l[f + j]
  BY DEF TailIs
<1> DEFINE p == SubSeq(l, f + 1, Len(l))
<1>2. PICK a \in Nat, b \in Nat : a = f + 1 /\ b = Len(l)
  BY <1>1
<1>3. \A i \in a .. b : l[i] \in Events
  BY <1>2
<1>4. /\ SubSeq(l, a, b) \in Seq(Events)
      /\ Len(SubSeq(l, a, b)) = IF a <= b THEN b - a + 1 ELSE 0
      /\ \A i \in 1 .. b - a + 1 : SubSeq(l, a, b)[i] = l[a + i - 1]
  BY <1>3, SubSeqProperties
<1>5. Len(SubSeq(l, a, b)) = Len(d)
  BY <1>1, <1>2, <1>4
<1>6. ASSUME NEW i \in 1 .. Len(d) PROVE SubSeq(l, a, b)[i] = d[i]
  <2>1. i \in 1 .. b - a + 1 /\ a + i - 1 = f + i
    BY <1>1, <1>2
  <2>2. QED
    BY <1>1, <1>4, <2>1
<1>7. QED
  BY <1>2, <1>4, <1>5, <1>6, SeqEqual

(* The events reported reach the list bound and the run the context is in:  *)
(* of an open session both, or neither.                                     *)
LEMMA ReportsOnRun ==
  ASSUME TelemetryInv, NEW e \in Events, NEW l, NEW d,
         l = IF bound = 0 THEN lists ELSE [lists EXCEPT ![bound] = Append(@, e)],
         d = IF inside = 0 THEN during ELSE [during EXCEPT ![inside] = Append(@, e)]
  PROVE  /\ l \in Seq(Seq(Events)) /\ Len(l) = Len(lists)
         /\ d \in Seq(Seq(Events)) /\ Len(d) = Len(during)
         /\ \A r \in 1 .. runs : d[r] = IF r = inside THEN Append(during[r], e) ELSE during[r]
         /\ \A i \in 1 .. Len(scopes) : scopes[i].kind = "session" =>
              TailIs(l[scopes[i].list], scopes[i].from, d[scopes[i].run])
<1>1. /\ lists \in Seq(Seq(Events)) /\ during \in Seq(Seq(Events)) /\ runs = Len(during)
      /\ Len(lists) \in Nat /\ Len(during) \in Nat /\ Len(scopes) \in Nat /\ runs \in Nat
      /\ scopes \in Seq(ScopeRecords)
  BY DEF TelemetryInv, TelemetryTyped
<1>2. BoundAt(Len(scopes) + 1) = bound /\ InsideAt(Len(scopes) + 1) = inside
  BY <1>1 DEF BoundAt, InsideAt
<1>3. bound \in 0 .. Len(lists) /\ inside \in 0 .. runs
  BY <1>1, <1>2 DEF TelemetryInv, ContextsFit, Levels
<1>4. /\ l \in Seq(Seq(Events)) /\ Len(l) = Len(lists)
      /\ \A k \in 1 .. Len(lists) : l[k] = IF k = bound THEN Append(lists[k], e) ELSE lists[k]
  <2>1. CASE bound = 0
    BY <1>1, <2>1
  <2>2. CASE bound # 0
    <3>1. bound \in 1 .. Len(lists)
      BY <1>1, <1>3, <2>2
    <3>2. Append(lists[bound], e) \in Seq(Events)
      BY <1>1, <3>1
    <3>3. QED
      BY <1>1, <2>2, <3>1, <3>2, ExceptSeq
  <2>3. QED
    BY <2>1, <2>2
<1>5. /\ d \in Seq(Seq(Events)) /\ Len(d) = Len(during)
      /\ \A k \in 1 .. runs : d[k] = IF k = inside THEN Append(during[k], e) ELSE during[k]
  <2>1. CASE inside = 0
    BY <1>1, <2>1
  <2>2. CASE inside # 0
    <3>1. inside \in 1 .. Len(during)
      BY <1>1, <1>3, <2>2
    <3>2. Append(during[inside], e) \in Seq(Events)
      BY <1>1, <3>1
    <3>3. QED
      BY <1>1, <2>2, <3>1, <3>2, ExceptSeq
  <2>3. QED
    BY <2>1, <2>2
<1>6. ASSUME NEW i \in 1 .. Len(scopes), scopes[i].kind = "session"
      PROVE  TailIs(l[scopes[i].list], scopes[i].from, d[scopes[i].run])
  <2>1. PICK o \in ScopeRecords : o = scopes[i]
    BY <1>1
  <2>2. o.list \in 1 .. Len(lists) /\ o.run \in 1 .. runs
        /\ TailIs(lists[o.list], o.from, during[o.run])
    BY <1>6, <2>1 DEF TelemetryInv, SessionsFit, SessionFits
  <2>3. bound = o.list <=> inside = o.run
    <3>1. Len(scopes) + 1 \in (i + 1) .. (Len(scopes) + 1)
      BY <1>1
    <3>2. QED
      BY <1>2, <1>6, <2>1, <3>1 DEF TelemetryInv, SessionsFit, SessionFits
  <2>4. lists[o.list] \in Seq(Events) /\ during[o.run] \in Seq(Events) /\ o.from \in Nat
    <3>1. o.from \in Nat
      BY DEF ScopeRecords
    <3>2. lists[o.list] \in Seq(Events)
      BY <1>1, <2>2
    <3>3. during[o.run] \in Seq(Events)
      BY <1>1, <2>2
    <3>4. QED
      BY <3>1, <3>2, <3>3
  <2>5. TailIs(Append(lists[o.list], e), o.from, Append(during[o.run], e))
    BY <2>2, <2>4, TailGrows
  <2>6. QED
    BY <1>4, <1>5, <2>1, <2>2, <2>3, <2>5
<1>7. QED
  BY <1>1, <1>4, <1>5, <1>6


(* At first no session is open and nothing is uploaded.                     *)
LEMMA TelemetryStarts == TelemetryInit => TelemetryInv
<1> SUFFICES ASSUME TelemetryInit PROVE TelemetryInv
  OBVIOUS
<1>1. /\ scopes = <<>> /\ lists = <<>> /\ during = <<>> /\ runs = 0 /\ bound = 0 /\ inside = 0
      /\ reported = 0
  BY DEF TelemetryInit
<1>2. active \in BOOLEAN /\ ~active
  BY DEF TelemetryInit
<1>3. Levels = {1} /\ BoundAt(1) = 0 /\ InsideAt(1) = 0 /\ ~ActiveAt(1) /\ Len(scopes) = 0
  BY <1>1, <1>2 DEF Levels, BoundAt, InsideAt, ActiveAt
<1>4. ContextsFit
  BY <1>1, <1>3 DEF ContextsFit
<1>5. SessionsFit
  BY <1>3 DEF SessionsFit
<1>6. ObjectsFit
  BY DEF TelemetryInit, ObjectsFit
<1>7. TelemetryTyped
  BY <1>1, <1>2 DEF TelemetryTyped
<1>8. QED
  BY <1>4, <1>5, <1>6, <1>7 DEF TelemetryInv

(* The scope a step opens.                                                  *)
LEMMA ScopeTyped ==
  ASSUME TelemetryTyped, NEW kind \in ScopeKinds, NEW list \in Nat, NEW from \in Nat,
         NEW run \in Nat
  PROVE  LET s == Scope(kind, list, from, run) IN
           /\ s \in ScopeRecords /\ s.kind = kind /\ s.list = list /\ s.from = from
           /\ s.run = run /\ s.bound = bound /\ s.active = active /\ s.inside = inside
BY DEF TelemetryTyped, Scope, ScopeRecords

(* The scopes that are no sessions.                                         *)
LEMMA OpensBuffer ==
  ASSUME TelemetryInv, EnterBuffer \/ Isolate \/ JoinSession
  PROVE  TelemetryInv'
<1>1. TelemetryTyped
  BY DEF TelemetryInv
<1>2. ASSUME NEW kind \in {"buffer", "joined", "isolated"}
      PROVE  LET s == Scope(kind, 0, 0, 0) IN
               /\ s \in ScopeRecords /\ s.kind # "session"
               /\ s.bound = bound /\ s.active = active /\ s.inside = inside
  BY <1>1, <1>2, ScopeTyped DEF ScopeKinds
<1>3. active \in BOOLEAN /\ lists \in Seq(Seq(Events))
  BY <1>1 DEF TelemetryTyped
<1>4. CASE JoinSession
  BY <1>2, <1>3, <1>4, OpensPlainly DEF JoinSession
<1>5. CASE Isolate
  BY <1>2, <1>3, <1>5, OpensPlainly DEF Isolate
<1>6. CASE EnterBuffer /\ bound # 0
  BY <1>2, <1>3, <1>6, OpensPlainly DEF EnterBuffer
<1>7. CASE EnterBuffer /\ bound = 0
  <2>1. lists' = Append(lists, <<>>) /\ bound' = Len(lists') /\ Opens(Scope("buffer", 0, 0, 0))
    BY <1>7 DEF EnterBuffer
  <2>2. lists' # lists
    <3>1. <<>> \in Seq(Events)
      OBVIOUS
    <3>2. Len(lists') = Len(lists) + 1 /\ Len(lists) \in Nat
      BY <1>3, <2>1, <3>1, AppendProperties
    <3>3. QED
      BY <3>2
  <2>3. QED
    BY <1>2, <1>3, <1>7, <2>1, <2>2, OpensPlainly DEF EnterBuffer
<1>8. QED
  BY <1>4, <1>5, <1>6, <1>7

(* The innermost scope is closed, and nothing told by it: the sessions left *)
(* and the objects go on as they were.                                      *)
LEMMA ClosedFit ==
  ASSUME TelemetryInv, scopes # <<>>, Closes,
         bound' = TopScope.bound, active' = TopScope.active, inside' = TopScope.inside,
         Len(lists') = Len(lists), UNCHANGED runs
  PROVE  /\ ContextsFit'
         /\ scopes' \in Seq(ScopeRecords) /\ Levels' \subseteq Levels
         /\ bound' \in Nat /\ active' \in BOOLEAN /\ inside' \in Nat
         /\ \A k \in Levels' : InsideAt(k)' = InsideAt(k)
         /\ \A i \in 1 .. Len(scopes') :
              /\ i \in 1 .. Len(scopes) - 1 /\ scopes'[i] = scopes[i]
              /\ (/\ scopes[i].kind = "session" /\ Begun(during'[scopes[i].run])
                  /\ TailIs(lists'[scopes[i].list], scopes[i].from, during'[scopes[i].run]))
                 => SessionFits(i)'
<1>1. TelemetryTyped
  BY DEF TelemetryInv
<1>2. /\ scopes' \in Seq(ScopeRecords) /\ Len(scopes) \in Nat \ {0}
      /\ Len(scopes') = Len(scopes) - 1
      /\ \A i \in 1 .. Len(scopes') : scopes'[i] = scopes[i]
      /\ Levels' = 1 .. Len(scopes)
      /\ \A k \in Levels' : /\ BoundAt(k)' = BoundAt(k) /\ ActiveAt(k)' = ActiveAt(k)
                              /\ InsideAt(k)' = InsideAt(k)
  BY <1>1, ClosedContexts
<1>3. Levels' \subseteq Levels
  BY <1>2 DEF Levels
<1>4. ContextsFit'
  <2> SUFFICES ASSUME NEW k \in Levels'
               PROVE  /\ BoundAt(k)' \in 0 .. Len(lists') /\ InsideAt(k)' \in 0 .. runs'
                      /\ ActiveAt(k)' <=> InsideAt(k)' # 0
                      /\ InsideAt(k)' # 0 => BoundAt(k)' # 0
    BY DEF ContextsFit
  <2>1. k \in Levels
    BY <1>3
  <2>2. QED
    BY <1>2, <2>1 DEF TelemetryInv, ContextsFit
<1>5. bound' \in Nat /\ active' \in BOOLEAN /\ inside' \in Nat
  <2>1. PICK o \in ScopeRecords : o = TopScope
    BY <1>1, <1>2 DEF TelemetryTyped, TopScope
  <2>2. QED
    BY <2>1 DEF ScopeRecords
<1>6. ASSUME NEW i \in 1 .. Len(scopes')
      PROVE  i \in 1 .. Len(scopes) - 1 /\ scopes'[i] = scopes[i]
  BY <1>2
<1>7. ASSUME NEW i \in 1 .. Len(scopes'), scopes[i].kind = "session",
             Begun(during'[scopes[i].run]),
             TailIs(lists'[scopes[i].list], scopes[i].from, during'[scopes[i].run])
      PROVE  SessionFits(i)'
  <2>1. i \in 1 .. Len(scopes) /\ scopes'[i] = scopes[i] /\ SessionFits(i)
    BY <1>2, <1>6, <1>7 DEF TelemetryInv, SessionsFit
  <2>2. PICK o \in ScopeRecords : o = scopes[i]
    BY <1>1, <2>1 DEF TelemetryTyped
  <2>3. o.list \in 1 .. Len(lists) /\ o.run \in 1 .. runs
    BY <2>1, <2>2 DEF SessionFits
  <2>4. BoundAt(i + 1)' = o.list /\ InsideAt(i + 1)' = o.run
    <3>1. i + 1 \in Levels'
      BY <1>2
    <3>2. QED
      BY <1>2, <2>1, <2>2, <3>1 DEF SessionFits
  <2>5. \A k \in 1 .. i : InsideAt(k)' < o.run
    <3>1. \A k \in 1 .. i : k \in Levels'
      BY <1>2
    <3>2. QED
      BY <1>2, <2>1, <2>2, <3>1 DEF SessionFits
  <2>6. \A k \in (i + 1) .. (Len(scopes') + 1) : BoundAt(k)' = o.list <=> InsideAt(k)' = o.run
    <3>1. \A k \in (i + 1) .. (Len(scopes') + 1) :
            k \in Levels' /\ k \in (i + 1) .. (Len(scopes) + 1)
      BY <1>2
    <3>2. QED
      BY <1>2, <2>1, <2>2, <3>1 DEF SessionFits
  <2>7. QED
    BY <1>7, <2>1, <2>2, <2>3, <2>4, <2>5, <2>6 DEF SessionFits
<1>8. QED
  BY <1>2, <1>3, <1>4, <1>5, <1>6, <1>7

LEMMA LeaveKeeps == ASSUME TelemetryInv, LeaveScope PROVE TelemetryInv'
<1>1. /\ UNCHANGED <<lists, objects, runs, reported, during>> /\ scopes # <<>> /\ Closes
      /\ bound' = TopScope.bound /\ active' = TopScope.active /\ inside' = TopScope.inside
  BY DEF LeaveScope
<1>2. TelemetryTyped' /\ ContextsFit'
  BY <1>1, ClosedFit DEF TelemetryInv, TelemetryTyped
<1>3. SessionsFit'
  <2> SUFFICES ASSUME NEW i \in 1 .. Len(scopes'), scopes'[i].kind = "session"
               PROVE  SessionFits(i)'
    BY DEF SessionsFit
  <2>1. /\ i \in 1 .. Len(scopes) - 1 /\ scopes'[i] = scopes[i]
        /\ (/\ scopes[i].kind = "session" /\ Begun(during'[scopes[i].run])
            /\ TailIs(lists'[scopes[i].list], scopes[i].from, during'[scopes[i].run]))
           => SessionFits(i)'
    BY <1>1, ClosedFit
  <2>2. i \in 1 .. Len(scopes)
    BY <2>1 DEF TelemetryInv, TelemetryTyped
  <2>3. SessionFits(i)
    BY <2>1, <2>2 DEF TelemetryInv, SessionsFit
  <2>4. QED
    BY <1>1, <2>1, <2>3 DEF SessionFits
<1>4. ObjectsFit'
  <2>1. Levels' \subseteq Levels /\ \A k \in Levels' : InsideAt(k)' = InsideAt(k)
    BY <1>1, ClosedFit
  <2>2. QED
    BY <1>1, <2>1 DEF TelemetryInv, ObjectsFit
<1>5. QED
  BY <1>2, <1>3, <1>4 DEF TelemetryInv


(* An event of the worker's own.                                            *)
LEMMA EmitKeeps == ASSUME TelemetryInv, Emit PROVE TelemetryInv'
<1>1. PICK e \in Events :
        /\ e.name = "own"
        /\ lists' = IF bound = 0 THEN lists ELSE [lists EXCEPT ![bound] = Append(@, e)]
        /\ during' = IF inside = 0 THEN during ELSE [during EXCEPT ![inside] = Append(@, e)]
  <2>1. Event("own", reported') \in Events /\ Event("own", reported').name = "own"
    <3>1. reported' \in Nat
      BY DEF TelemetryInv, TelemetryTyped, Emit
    <3>2. QED
      BY <3>1 DEF Event, Events
  <2>2. QED
    BY <2>1 DEF Emit, Wire
<1>2. UNCHANGED <<scopes, bound, active, objects, runs, inside>> /\ reported' = reported + 1
  BY DEF Emit
<1>3. /\ lists' \in Seq(Seq(Events)) /\ Len(lists') = Len(lists)
      /\ during' \in Seq(Seq(Events)) /\ Len(during') = Len(during)
      /\ \A r \in 1 .. runs : during'[r] = IF r = inside THEN Append(during[r], e) ELSE during[r]
      /\ \A i \in 1 .. Len(scopes) : scopes[i].kind = "session" =>
           TailIs(lists'[scopes[i].list], scopes[i].from, during'[scopes[i].run])
  BY <1>1, ReportsOnRun
<1>4. TelemetryTyped
  BY DEF TelemetryInv
<1>5. TelemetryTyped'
  <2>1. reported' \in Nat
    BY <1>2, <1>4 DEF TelemetryTyped
  <2>2. QED
    BY <1>2, <1>3, <1>4, <2>1 DEF TelemetryTyped
<1>6. \A k : /\ BoundAt(k)' = BoundAt(k) /\ ActiveAt(k)' = ActiveAt(k)
             /\ InsideAt(k)' = InsideAt(k)
  BY <1>2 DEF BoundAt, ActiveAt, InsideAt
<1>7. Levels' = Levels
  BY <1>2 DEF Levels
<1>8. ContextsFit'
  BY <1>2, <1>3, <1>6, <1>7 DEF TelemetryInv, ContextsFit
<1>9. SessionsFit'
  <2> SUFFICES ASSUME NEW i \in 1 .. Len(scopes'), scopes'[i].kind = "session"
               PROVE  SessionFits(i)'
    BY DEF SessionsFit
  <2>1. i \in 1 .. Len(scopes) /\ scopes'[i] = scopes[i] /\ SessionFits(i)
    BY <1>2 DEF TelemetryInv, SessionsFit
  <2>2. PICK o \in ScopeRecords : o = scopes[i]
    BY <1>4, <2>1 DEF TelemetryTyped
  <2>3. o.run \in 1 .. runs /\ Begun(during[o.run]) /\ during[o.run] \in Seq(Events)
    BY <1>4, <2>1, <2>2 DEF SessionFits, TelemetryTyped
  <2>4. Begun(during'[o.run])
    BY <1>1, <1>3, <2>3, RunGrows
  <2>5. TailIs(lists'[o.list], o.from, during'[o.run])
    BY <1>3, <2>1, <2>2
  <2>6. QED
    BY <1>2, <1>3, <1>6, <2>1, <2>2, <2>4, <2>5 DEF SessionFits
<1>10. ObjectsFit'
  <2> SUFFICES ASSUME NEW id \in DOMAIN objects, objects[id] # <<>>
               PROVE  \E r \in 1 .. runs : /\ objects[id] = during'[r] /\ Whole(during'[r])
                                           /\ \A k \in Levels : InsideAt(k) # r
    BY <1>2, <1>6, <1>7 DEF ObjectsFit
  <2>1. PICK r \in 1 .. runs : /\ objects[id] = during[r] /\ Whole(during[r])
                               /\ \A k \in Levels : InsideAt(k) # r
    BY DEF TelemetryInv, ObjectsFit
  <2>2. inside # r
    <3>1. Len(scopes) + 1 \in Levels /\ InsideAt(Len(scopes) + 1) = inside
      BY <1>4 DEF TelemetryTyped, Levels, InsideAt
    <3>2. QED
      BY <2>1, <3>1
  <2>3. QED
    BY <1>3, <2>1, <2>2
<1>11. QED
  BY <1>5, <1>8, <1>9, <1>10 DEF TelemetryInv

(* A session starts in no run, with a list that no open session has bound.  *)
LEMMA StartKeeps == ASSUME TelemetryInv, StartSession PROVE TelemetryInv'
<1>1. TelemetryTyped
  BY DEF TelemetryInv
<1> DEFINE n == Len(scopes) + 1
<1>2. /\ Len(scopes) \in Nat /\ runs \in Nat /\ Len(lists) \in Nat /\ n \in Levels
      /\ BoundAt(n) = bound /\ InsideAt(n) = inside /\ ActiveAt(n) = active
  BY <1>1 DEF TelemetryTyped, Levels, BoundAt, InsideAt, ActiveAt
<1>3. ~active /\ active' /\ runs' = runs + 1 /\ inside' = runs + 1 /\ UNCHANGED <<objects, reported>>
      /\ during' = Append(during, <<Started>>)
  BY DEF StartSession
<1>4. inside = 0 /\ bound \in 0 .. Len(lists)
  BY <1>2, <1>3 DEF TelemetryInv, ContextsFit
<1>5. <<Started>> \in Seq(Events) /\ Begun(<<Started>>) /\ Started \in Events
  <2>1. Started \in Events /\ Started.name # "own"
    BY DEF Started, Event, Events
  <2>2. QED
    BY <2>1 DEF Begun
(* the list at hand, or one of its own: its part is the start of the run *)
<1>6. PICK l \in Nat, f \in Nat :
        /\ Opens(Scope("session", l, f, runs + 1)) /\ bound' = l
        /\ l \in 1 .. Len(lists') /\ (l = bound \/ l = Len(lists) + 1)
        /\ lists' \in Seq(Seq(Events)) /\ Len(lists') >= Len(lists)
        /\ \A m \in 1 .. Len(lists) : m # l => lists'[m] = lists[m]
        /\ TailIs(lists'[l], f, <<Started>>)
  <2>1. CASE bound # 0
    <3>1. bound \in 1 .. Len(lists) /\ lists[bound] \in Seq(Events)
      BY <1>1, <1>2, <1>4, <2>1 DEF TelemetryTyped
    <3>2. /\ Opens(Scope("session", bound, Len(lists[bound]), runs + 1)) /\ bound' = bound
          /\ lists' = [lists EXCEPT ![bound] = Append(lists[bound], Started)]
      BY <1>3, <2>1 DEF StartSession, Opened, Wire
    <3>3. Append(lists[bound], Started) \in Seq(Events)
      BY <1>5, <3>1
    <3>4. /\ lists' \in Seq(Seq(Events)) /\ Len(lists') = Len(lists)
          /\ \A m \in 1 .. Len(lists) :
               lists'[m] = IF m = bound THEN Append(lists[bound], Started) ELSE lists[m]
      BY <1>1, <3>1, <3>2, <3>3, ExceptSeq DEF TelemetryTyped
    <3>5. TailIs(lists'[bound], Len(lists[bound]), <<Started>>)
      <4>1. lists'[bound] = Append(lists[bound], Started)
        BY <3>1, <3>4
      <4>2. Len(lists'[bound]) = Len(lists[bound]) + 1 /\ lists'[bound][Len(lists[bound]) + 1] = Started
        BY <1>5, <3>1, <4>1, AppendProperties
      <4>3. QED
        BY <4>2 DEF TailIs
    <3>6. Len(lists[bound]) \in Nat /\ bound \in Nat
      BY <1>2, <3>1
    <3>7. QED
      BY <3>1, <3>2, <3>4, <3>5, <3>6
  <2>2. CASE bound = 0
    <3>1. /\ Opens(Scope("session", Len(lists) + 1, 0, runs + 1)) /\ bound' = Len(lists) + 1
          /\ lists' = Append(lists, <<Started>>)
      BY <1>3, <2>2 DEF StartSession
    <3>2. /\ lists' \in Seq(Seq(Events)) /\ Len(lists') = Len(lists) + 1
          /\ lists'[Len(lists) + 1] = <<Started>>
          /\ \A m \in 1 .. Len(lists) : lists'[m] = lists[m]
      BY <1>1, <1>5, <3>1, AppendProperties DEF TelemetryTyped
    <3>3. TailIs(lists'[Len(lists) + 1], 0, <<Started>>)
      BY <3>2 DEF TailIs
    <3>4. QED
      BY <1>2, <3>1, <3>2, <3>3
  <2>3. QED
    BY <2>1, <2>2
<1> DEFINE s == Scope("session", l, f, runs + 1)
<1>7. /\ s \in ScopeRecords /\ s.kind = "session" /\ s.list = l /\ s.from = f /\ s.run = runs + 1
      /\ s.bound = bound /\ s.active = active /\ s.inside = inside
  <2>1. "session" \in ScopeKinds /\ runs + 1 \in Nat
    BY <1>2 DEF ScopeKinds
  <2>2. QED
    BY <1>1, <2>1, ScopeTyped
<1>8. /\ scopes' \in Seq(ScopeRecords) /\ Len(scopes') = n /\ scopes'[n] = s
      /\ \A i \in 1 .. Len(scopes) : scopes'[i] = scopes[i]
      /\ Levels' = Levels \cup {n + 1} /\ n + 1 \notin Levels
      /\ \A k \in Levels : /\ BoundAt(k)' = BoundAt(k) /\ ActiveAt(k)' = ActiveAt(k)
                             /\ InsideAt(k)' = InsideAt(k)
      /\ \A k \in Levels' \ Levels : /\ BoundAt(k)' = bound' /\ ActiveAt(k)' = active'
                                         /\ InsideAt(k)' = inside'
  <2> HIDE DEF s
  <2>1. Opens(s)
    BY <1>6 DEF s
  <2>2. QED
    BY <1>1, <1>2, <1>7, <2>1, OpenedContexts DEF Levels
<1> HIDE DEF s
<1>9. /\ during' \in Seq(Seq(Events)) /\ Len(during') = runs + 1 /\ during'[runs + 1] = <<Started>>
      /\ \A r \in 1 .. runs : during'[r] = during[r]
  BY <1>1, <1>3, <1>5, AppendProperties DEF TelemetryTyped
<1>10. TelemetryTyped'
  <2>1. active' \in BOOLEAN
    BY DEF StartSession
  <2>2. bound' \in Nat /\ inside' \in Nat /\ runs' \in Nat /\ runs' = Len(during')
    BY <1>2, <1>3, <1>6, <1>9
  <2>3. reported' \in Nat
    BY <1>1, <1>3 DEF TelemetryTyped
  <2>4. QED
    BY <1>6, <1>8, <1>9, <2>1, <2>2, <2>3 DEF TelemetryTyped
<1>11. ContextsFit'
  <2> SUFFICES ASSUME NEW k \in Levels'
               PROVE  /\ BoundAt(k)' \in 0 .. Len(lists') /\ InsideAt(k)' \in 0 .. runs'
                      /\ ActiveAt(k)' <=> InsideAt(k)' # 0
                      /\ InsideAt(k)' # 0 => BoundAt(k)' # 0
    BY DEF ContextsFit
  <2>1. CASE k \in Levels
    <3>1. /\ BoundAt(k)' = BoundAt(k) /\ InsideAt(k)' = InsideAt(k)
          /\ BoundAt(k) \in 0 .. Len(lists) /\ InsideAt(k) \in 0 .. runs
      BY <1>8, <2>1 DEF TelemetryInv, ContextsFit
    <3>2. BoundAt(k)' \in 0 .. Len(lists') /\ InsideAt(k)' \in 0 .. runs'
      <4>1. Len(lists') \in Nat /\ Len(lists') >= Len(lists)
        BY <1>6
      <4>2. QED
        BY <1>2, <1>3, <3>1, <4>1
    <3>3. QED
      BY <1>8, <2>1, <3>2 DEF TelemetryInv, ContextsFit
  <2>2. CASE k = n + 1
    <3>1. BoundAt(k)' = l /\ InsideAt(k)' = runs + 1
      BY <1>3, <1>6, <1>8, <2>2
    <3>2. ActiveAt(k)'
      BY <1>3, <1>8, <2>2
    <3>3. l \in 1 .. Len(lists') /\ Len(lists') \in Nat
      BY <1>6
    <3>4. runs + 1 \in 0 .. runs' /\ runs + 1 # 0 /\ l \in 0 .. Len(lists') /\ l # 0
      BY <1>2, <1>3, <3>3
    <3>5. QED
      BY <3>1, <3>2, <3>4
  <2>3. QED
    BY <1>8, <2>1, <2>2
<1>12. SessionsFit'
  <2> SUFFICES ASSUME NEW i \in 1 .. Len(scopes'), scopes'[i].kind = "session"
               PROVE  SessionFits(i)'
    BY DEF SessionsFit
  <2>1. CASE i = n
    <3>1. scopes'[i] = s
      BY <1>8, <2>1
    <3>2. s.list \in 1 .. Len(lists') /\ s.run \in 1 .. runs'
      <4>1. runs + 1 \in 1 .. runs'
        BY <1>2, <1>3
      <4>2. QED
        BY <1>6, <1>7, <4>1
    <3>3. BoundAt(i + 1)' = s.list /\ InsideAt(i + 1)' = s.run
      BY <1>3, <1>6, <1>7, <1>8, <2>1
    <3>4. \A k \in 1 .. i : InsideAt(k)' < s.run
      <4>1. \A k \in 1 .. i : k \in Levels
        BY <1>2, <2>1 DEF Levels
      <4>2. \A k \in Levels : InsideAt(k) \in 0 .. runs
        BY DEF TelemetryInv, ContextsFit
      <4>3. \A k \in Levels : InsideAt(k)' \in 0 .. runs
        BY <1>8, <4>2
      <4>4. QED
        BY <1>2, <1>7, <4>1, <4>3
    <3>5. \A k \in (i + 1) .. (Len(scopes') + 1) : k = i + 1
      BY <1>2, <1>8, <2>1
    <3>6. Begun(during'[s.run]) /\ TailIs(lists'[s.list], s.from, during'[s.run])
      BY <1>5, <1>6, <1>7, <1>9
    <3>7. QED
      BY <3>1, <3>2, <3>3, <3>4, <3>5, <3>6 DEF SessionFits
  <2>2. CASE i \in 1 .. Len(scopes)
    <3>1. scopes'[i] = scopes[i] /\ SessionFits(i)
      BY <1>8, <2>2 DEF TelemetryInv, SessionsFit
    <3>2. PICK o \in ScopeRecords : o = scopes[i]
      BY <1>1, <2>2 DEF TelemetryTyped
    <3>3. o.list \in 1 .. Len(lists) /\ o.run \in 1 .. runs
      BY <3>1, <3>2 DEF SessionFits
    <3>4. bound # o.list
      <4>1. n \in (i + 1) .. (Len(scopes) + 1)
        BY <1>2, <2>2
      <4>2. bound = o.list <=> inside = o.run
        BY <1>2, <3>1, <3>2, <4>1 DEF SessionFits
      <4>3. o.run # 0
        BY <1>2, <3>3
      <4>4. QED
        BY <1>4, <4>2, <4>3
    <3>5. o.list # l /\ o.run # runs + 1
      BY <1>2, <1>6, <3>3, <3>4
    <3>6. o.list \in 1 .. Len(lists') /\ o.run \in 1 .. runs'
      <4>1. Len(lists') \in Nat /\ Len(lists') >= Len(lists)
        BY <1>6
      <4>2. QED
        BY <1>2, <1>3, <3>3, <4>1
    <3>7. lists'[o.list] = lists[o.list] /\ during'[o.run] = during[o.run]
      BY <1>6, <1>9, <3>3, <3>5
    <3>8. BoundAt(i + 1)' = o.list /\ InsideAt(i + 1)' = o.run
      <4>1. i + 1 \in Levels
        BY <1>2, <2>2 DEF Levels
      <4>2. QED
        BY <1>8, <3>1, <3>2, <4>1 DEF SessionFits
    <3>9. \A k \in 1 .. i : InsideAt(k)' < o.run
      <4>1. \A k \in 1 .. i : k \in Levels
        BY <1>2, <2>2 DEF Levels
      <4>2. QED
        BY <1>8, <3>1, <3>2, <4>1 DEF SessionFits
    <3>10. ASSUME NEW k \in (i + 1) .. (Len(scopes') + 1)
           PROVE  BoundAt(k)' = o.list <=> InsideAt(k)' = o.run
      <4>1. CASE k = n + 1
        BY <1>3, <1>6, <1>8, <3>5, <4>1
      <4>2. CASE k # n + 1
        <5>1. k \in Levels /\ k \in (i + 1) .. (Len(scopes) + 1)
          BY <1>2, <1>8, <2>2, <4>2 DEF Levels
        <5>2. BoundAt(k) = o.list <=> InsideAt(k) = o.run
          BY <3>1, <3>2, <5>1 DEF SessionFits
        <5>3. QED
          BY <1>8, <5>1, <5>2
      <4>3. QED
        BY <4>1, <4>2
    <3>11. QED
      BY <3>1, <3>2, <3>6, <3>7, <3>8, <3>9, <3>10 DEF SessionFits
  <2>3. QED
    BY <1>2, <1>8, <2>1, <2>2
<1>13. ObjectsFit'
  <2> SUFFICES ASSUME NEW id \in DOMAIN objects, objects[id] # <<>>
               PROVE  \E r \in 1 .. runs' : /\ objects[id] = during'[r] /\ Whole(during'[r])
                                            /\ \A k \in Levels' : InsideAt(k)' # r
    BY <1>3 DEF ObjectsFit
  <2>1. PICK r \in 1 .. runs : /\ objects[id] = during[r] /\ Whole(during[r])
                               /\ \A k \in Levels : InsideAt(k) # r
    BY DEF TelemetryInv, ObjectsFit
  <2>2. r \in 1 .. runs' /\ r # runs + 1 /\ during'[r] = during[r]
    BY <1>2, <1>3, <1>9
  <2>3. \A k \in Levels' : InsideAt(k)' # r
    BY <1>3, <1>8, <2>1, <2>2
  <2>4. QED
    BY <2>1, <2>2, <2>3
<1>14. QED
  BY <1>10, <1>11, <1>12, <1>13 DEF TelemetryInv


(* A session ends: its part of the list is its run, which no context left   *)
(* is in.                                                                   *)
LEMMA EndKeeps == ASSUME TelemetryInv, EndSession PROVE TelemetryInv'
<1>1. TelemetryTyped
  BY DEF TelemetryInv
<1>2. /\ scopes # <<>> /\ Closes /\ UNCHANGED <<runs, reported>>
      /\ bound' = TopScope.bound /\ active' = TopScope.active /\ inside' = TopScope.inside
  BY DEF EndSession
<1> DEFINE n == Len(scopes)
<1>3. n \in Nat \ {0} /\ n \in 1 .. n /\ Len(lists) \in Nat /\ runs \in Nat
  BY <1>1, <1>2 DEF TelemetryTyped
<1>4. PICK s \in ScopeRecords : s = scopes[n]
  BY <1>1, <1>3 DEF TelemetryTyped
<1>5. s = TopScope /\ s.kind = "session" /\ SessionFits(n)
  BY <1>3, <1>4 DEF EndSession, TopScope, TelemetryInv, SessionsFit
<1>6. s.list \in 1 .. Len(lists) /\ s.run \in 1 .. runs /\ bound = s.list /\ inside = s.run
  <2>1. BoundAt(n + 1) = bound /\ InsideAt(n + 1) = inside
    BY <1>3 DEF BoundAt, InsideAt
  <2>2. QED
    BY <1>4, <1>5, <2>1 DEF SessionFits
<1>7. bound # 0 /\ inside # 0
  BY <1>3, <1>6
<1>8. PICK e \in Events :
        /\ e.name # "own"
        /\ lists' = IF bound = 0 THEN lists ELSE [lists EXCEPT ![bound] = Append(@, e)]
        /\ during' = IF inside = 0 THEN during ELSE [during EXCEPT ![inside] = Append(@, e)]
  <2>1. \A status \in Finished : status \in Events /\ status.name # "own"
    <3>1. Event("finished ok", 0) \in Events /\ Event("finished ok", 0).name # "own"
      BY DEF Event, Events
    <3>2. Event("finished error", 0) \in Events /\ Event("finished error", 0).name # "own"
      BY DEF Event, Events
    <3>3. QED
      BY <3>1, <3>2 DEF Finished
  <2>2. QED
    BY <1>7, <2>1 DEF EndSession, Wire
<1>9. /\ lists' \in Seq(Seq(Events)) /\ Len(lists') = Len(lists)
      /\ during' \in Seq(Seq(Events)) /\ Len(during') = Len(during)
      /\ \A r \in 1 .. runs : during'[r] = IF r = inside THEN Append(during[r], e) ELSE during[r]
      /\ \A i \in 1 .. Len(scopes) : scopes[i].kind = "session" =>
           TailIs(lists'[scopes[i].list], scopes[i].from, during'[scopes[i].run])
  <2>1. \A l, d :
          (/\ l = IF bound = 0 THEN lists ELSE [lists EXCEPT ![bound] = Append(@, e)]
           /\ d = IF inside = 0 THEN during ELSE [during EXCEPT ![inside] = Append(@, e)])
          => /\ l \in Seq(Seq(Events)) /\ Len(l) = Len(lists)
             /\ d \in Seq(Seq(Events)) /\ Len(d) = Len(during)
             /\ \A r \in 1 .. runs : d[r] = IF r = inside THEN Append(during[r], e) ELSE during[r]
             /\ \A i \in 1 .. Len(scopes) : scopes[i].kind = "session" =>
                  TailIs(l[scopes[i].list], scopes[i].from, d[scopes[i].run])
    BY ReportsOnRun
  <2>2. QED
    BY <1>8, <2>1
<1>10. /\ ContextsFit'
       /\ scopes' \in Seq(ScopeRecords) /\ Levels' \subseteq Levels
       /\ bound' \in Nat /\ active' \in BOOLEAN /\ inside' \in Nat
       /\ \A k \in Levels' : InsideAt(k)' = InsideAt(k)
       /\ \A i \in 1 .. Len(scopes') :
            /\ i \in 1 .. Len(scopes) - 1 /\ scopes'[i] = scopes[i]
            /\ (/\ scopes[i].kind = "session" /\ Begun(during'[scopes[i].run])
                /\ TailIs(lists'[scopes[i].list], scopes[i].from, during'[scopes[i].run]))
               => SessionFits(i)'
  BY <1>2, <1>9, ClosedFit
<1>11. TelemetryTyped'
  <2>1. runs' \in Nat /\ runs' = Len(during') /\ reported' \in Nat
    BY <1>1, <1>2, <1>9 DEF TelemetryTyped
  <2>2. QED
    BY <1>9, <1>10, <2>1 DEF TelemetryTyped
<1>12. SessionsFit'
  <2> SUFFICES ASSUME NEW i \in 1 .. Len(scopes'), scopes'[i].kind = "session"
               PROVE  SessionFits(i)'
    BY DEF SessionsFit
  <2>1. i \in 1 .. n - 1 /\ scopes'[i] = scopes[i]
    BY <1>10
  <2>2. i \in 1 .. n /\ i + 1 \in 1 .. n
    BY <1>3, <2>1
  <2>3. SessionFits(i)
    BY <2>1, <2>2 DEF TelemetryInv, SessionsFit
  <2>4. PICK o \in ScopeRecords : o = scopes[i]
    BY <1>1, <2>2 DEF TelemetryTyped
  <2>5. o.run \in 1 .. runs /\ InsideAt(i + 1) = o.run /\ Begun(during[o.run])
    BY <2>3, <2>4 DEF SessionFits
  <2>6. InsideAt(i + 1) < s.run
    BY <1>4, <1>5, <2>2 DEF SessionFits
  <2>7. o.run # inside
    BY <1>3, <1>6, <2>5, <2>6
  <2>8. during'[o.run] = during[o.run]
    BY <1>9, <2>5, <2>7
  <2>9. QED
    BY <1>9, <1>10, <2>1, <2>2, <2>4, <2>5, <2>8
<1>13. Whole(during'[inside])
  <2>1. during[inside] \in Seq(Events) /\ Begun(during[inside])
    BY <1>1, <1>4, <1>5, <1>6 DEF SessionFits, TelemetryTyped
  <2>2. during'[inside] = Append(during[inside], e)
    BY <1>6, <1>9
  <2>3. QED
    BY <1>8, <2>1, <2>2, RunGrows
<1>14. SubSeq(lists'[s.list], s.from + 1, Len(lists'[s.list])) = during'[inside]
  <2>1. lists'[s.list] \in Seq(Events) /\ during'[inside] \in Seq(Events) /\ s.from \in Nat
    <3>1. s.from \in Nat
      BY DEF ScopeRecords
    <3>2. lists'[s.list] \in Seq(Events)
      BY <1>6, <1>9
    <3>3. inside \in 1 .. Len(during')
      BY <1>1, <1>6, <1>9 DEF TelemetryTyped
    <3>4. during'[inside] \in Seq(Events)
      BY <1>9, <3>3
    <3>5. QED
      BY <3>1, <3>2, <3>4
  <2>2. TailIs(lists'[s.list], s.from, during'[inside])
    BY <1>3, <1>4, <1>5, <1>6, <1>9
  <2>3. QED
    BY <2>1, <2>2, PartIsRun
<1>15. \A k \in Levels' : InsideAt(k) # inside
  <2>1. Levels' = 1 .. n
    BY <1>1, <1>2, ClosedContexts
  <2>2. \A k \in 1 .. n : InsideAt(k) < s.run /\ InsideAt(k) \in 0 .. runs
    <3>1. \A k \in 1 .. n : k \in Levels
      BY <1>3 DEF Levels
    <3>2. QED
      BY <1>4, <1>5, <3>1 DEF SessionFits, TelemetryInv, ContextsFit
  <2>3. QED
    BY <1>3, <1>6, <2>1, <2>2
<1>16. ObjectsFit'
  <2> SUFFICES ASSUME NEW id \in DOMAIN objects', objects'[id] # <<>>
               PROVE  \E r \in 1 .. runs : /\ objects'[id] = during'[r] /\ Whole(during'[r])
                                           /\ \A k \in Levels' : InsideAt(k)' # r
    BY <1>2 DEF ObjectsFit
  <2>1. /\ DOMAIN objects' = DOMAIN objects
        /\ objects'[id] = objects[id] \/ objects'[id] = during'[inside]
    BY <1>5, <1>14 DEF EndSession
  <2>2. CASE objects'[id] = during'[inside]
    <3>1. inside \in 1 .. runs
      BY <1>6
    <3>2. \A k \in Levels' : InsideAt(k)' # inside
      BY <1>10, <1>15
    <3>3. QED
      BY <1>13, <2>2, <3>1, <3>2
  <2>3. CASE objects'[id] = objects[id]
    <3>1. PICK r \in 1 .. runs : /\ objects[id] = during[r] /\ Whole(during[r])
                                 /\ \A k \in Levels : InsideAt(k) # r
      BY <2>1, <2>3 DEF TelemetryInv, ObjectsFit
    <3>2. inside # r
      <4>1. n + 1 \in Levels /\ InsideAt(n + 1) = inside
        BY <1>3 DEF Levels, InsideAt
      <4>2. QED
        BY <3>1, <4>1
    <3>3. QED
      BY <1>9, <1>10, <2>3, <3>1, <3>2
  <2>4. QED
    BY <2>1, <2>2, <2>3
<1>17. QED
  BY <1>10, <1>11, <1>12, <1>16 DEF TelemetryInv

(* Every step of the telemetry keeps the invariant.                         *)
LEMMA TelemetrySteps == TelemetryInv /\ [TelemetryNext]_telemetryVars => TelemetryInv'
<1> SUFFICES ASSUME TelemetryInv, [TelemetryNext]_telemetryVars PROVE TelemetryInv'
  OBVIOUS
<1>1. CASE UNCHANGED telemetryVars
  BY <1>1
     DEF telemetryVars, TelemetryInv, TelemetryTyped, ContextsFit, SessionsFit, SessionFits,
         ObjectsFit, Levels, BoundAt, InsideAt, ActiveAt
<1>2. CASE TelemetryNext
  BY <1>2, EmitKeeps, OpensBuffer, LeaveKeeps, StartKeeps, EndKeeps DEF TelemetryNext
<1>3. QED
  BY <1>1, <1>2

(* What is uploaded is whole.                                               *)
LEMMA UploadsFit == TelemetryInv => ObjectsAreWholeRuns
  BY DEF TelemetryInv, ObjectsFit, Whole, ObjectsAreWholeRuns

(* Every object uploaded is one run and the whole of it, however sessions,  *)
(* buffers and isolated stretches nest.                                     *)
THEOREM UploadsAreWholeRuns == TelemetrySpec => []ObjectsAreWholeRuns
<1> QED BY TelemetryStarts, TelemetrySteps, UploadsFit, PTL DEF TelemetrySpec
=============================================================================
