----------------------------- MODULE ChatDelivery -----------------------------
(***************************************************************************)
(* Chat events through the add-on (chat_addon.py), the router              *)
(* (chat_transport.py) and the remembering responder (chat_memory.py).     *)
(*                                                                         *)
(* The add-on acknowledges an event and handles it in a thread of its own. *)
(* A thread holds the router's lock from the check for a duplicate to the  *)
(* mark, if the event has a name.  One space; the lock of the private      *)
(* memory makes each record, and each forget, one step.                    *)
(*                                                                         *)
(* An event's envelope is normalized to its kind, its name, whether it is a *)
(* direct message, whether its sender is an operator, whether its text is  *)
(* blank (an attachment), the personas the text mentions and those whose    *)
(* domain it touches.                                                      *)
(*                                                                         *)
(* posted, spoken, cut, misread, delivered are history variables.          *)
(***************************************************************************)
EXTENDS ThreadMemory

CONSTANTS
  Threads,
  Registry,      \* personas in registry order, a sequence
  Events,
  Envelope,      \* [Events -> what normalize_event makes of each]
  NoName,        \* the name of an event without one
  HistoryTurns,  \* history_turns
  MaxPersonaTurns,
  Faults,        \* what may fail or befall a thread
  MaxDeliveries, MaxTroubles   \* bounds: deliveries; faults, crashes and forgets

Personas == {Registry[i] : i \in DOMAIN Registry}
NoOne == "no one"
NoTurn == -1
FaultKinds ==
  {"model", "read", "write", "compact", "undo", "post", "mark", "marked", "crash", "forget"}

ASSUME ChatAssumption ==
  /\ \A e \in Events :
       /\ Envelope[e].dm \in BOOLEAN /\ Envelope[e].operator \in BOOLEAN
       /\ Envelope[e].mentions \subseteq Personas /\ Envelope[e].domain \subseteq Personas
       /\ Envelope[e].blank \in BOOLEAN /\ (Envelope[e].blank => Envelope[e].mentions = {})
  /\ Registry \in Seq(Personas)
  /\ IsFiniteSet(Threads) /\ NoOne \notin Threads
  /\ Exchanges = Events /\ Faults \subseteq FaultKinds
  /\ HistoryTurns \in Nat /\ MaxPersonaTurns \in Nat
  /\ MaxDeliveries \in Nat /\ MaxTroubles \in Nat

VARIABLES
  thread,    \* [Threads -> where each is]
  lock,      \* _dedupe_lock's holder
  seen,      \* FileSeenStore._seen
  seenFile,  \* its file
  disk,      \* [Personas -> transcript]
  posted,    \* [Events -> posts made for it]
  spoken,    \* [Personas -> turns recorded and neither withdrawn nor forgotten]
  cut,       \* <<persona, event>>: exchanges that were cut short
  misread,   \* personas whose thread has a record made with a file not read
  delivered, \* [Events -> times it was delivered]
  troubles,  \* faults, crashes and forgets so far
  forgets    \* whose thread was forgotten, and whether within an exchange

threadVars == <<thread, lock>>
storeVars == <<seen, seenFile>>
memoryVars == <<disk, spoken, cut, misread>>
boundVars == <<delivered, troubles, forgets>>
vars == <<threadVars, storeVars, memoryVars, posted, boundVars>>

NoPrompt == [summary |-> <<>>, turns |-> <<>>]
Stages == {"idle", "enter", "route", "read", "model", "user", "persona", "undo", "post"}

(* todo: whose turn it is, and whether an operator's message gave it; turns:  *)
(* replies posted since; mine: the index of the user turn, if there is one. *)
AtRest(ev) ==
  [at |-> "idle", ev |-> ev, todo |-> <<>>, turns |-> 0, prompt |-> NoPrompt, mine |-> NoTurn]
AnyEvent == CHOOSE e \in Events : TRUE
Idle == AtRest(AnyEvent)

Init ==
  /\ thread = [t \in Threads |-> Idle] /\ lock = NoOne
  /\ seen = {} /\ seenFile = {}
  /\ disk = [p \in Personas |-> NoThread] /\ spoken = [p \in Personas |-> <<>>]
  /\ cut = {} /\ misread = {} /\ posted = [e \in Events |-> 0]
  /\ delivered = [e \in Events |-> 0] /\ troubles = 0 /\ forgets = <<>>

Goes(t, at) == thread' = [thread EXCEPT ![t].at = at]
Fault(kind) == kind \in Faults /\ troubles < MaxTroubles /\ troubles' = troubles + 1

P(t) == Head(thread[t].todo).persona
Ev(t) == thread[t].ev

-----------------------------------------------------------------------------
(* The add-on and the router *)

Name(e) == Envelope[e].name
Named(e) == Name(e) # NoName

(* Whom an event engages: in a direct message only an operator's, the one   *)
(* persona there is, or those it mentions or concerns; in a space those it  *)
(* mentions and, for an operator, those it concerns.                        *)
Engages(e, p) ==
  LET v == Envelope[e]
  IN IF v.dm THEN v.operator /\ (p \in v.mentions \/ Len(Registry) = 1 \/ p \in v.domain)
     ELSE p \in v.mentions \/ (v.operator /\ p \in v.domain)

(* The personas of S take their turns in registry order.                    *)
InTurn(S, owner) ==
  LET places == {i \in DOMAIN Registry : Registry[i] \in S}
      place(k) == CHOOSE i \in places : Cardinality({j \in places : j <= i}) = k
  IN [k \in 1..Cardinality(places) |-> [persona |-> Registry[place(k)], owner |-> owner]]

Engaged(e) == InTurn({p \in Personas : Engages(e, p)}, Envelope[e].operator)

(* The event is acknowledged, then handled; what is no message is ignored.  *)
Deliver(t) ==
  /\ thread[t].at = "idle"
  /\ FoldFunction(+, 0, delivered) < MaxDeliveries
  /\ \E e \in Events :
       /\ delivered' = [delivered EXCEPT ![e] = @ + 1]
       /\ thread' = IF Envelope[e].kind = "MESSAGE"
                    THEN [thread EXCEPT ![t] = [Idle EXCEPT !.at = "enter", !.ev = e]]
                    ELSE thread
  /\ UNCHANGED <<lock, storeVars, memoryVars, posted, troubles, forgets>>

Route(t) ==
  thread' = [thread EXCEPT ![t].at = "route", ![t].todo = Engaged(Ev(t))]

(* Mutant: the duplicate check outside the lock.                            *)
Enter_Unlocked(t) ==
  /\ thread[t].at = "enter"
  /\ IF Named(Ev(t)) /\ Name(Ev(t)) \in seen
     THEN thread' = [thread EXCEPT ![t] = Idle]
     ELSE Route(t)
  /\ UNCHANGED <<lock, storeVars, memoryVars, posted, boundVars>>

Enter(t) ==
  /\ thread[t].at = "enter"
  /\ IF ~Named(Ev(t)) THEN Route(t) /\ UNCHANGED lock
     ELSE /\ lock = NoOne
          /\ IF Name(Ev(t)) \in seen
             THEN thread' = [thread EXCEPT ![t] = Idle] /\ UNCHANGED lock
             ELSE Route(t) /\ lock' = t
  /\ UNCHANGED <<storeVars, memoryVars, posted, boundVars>>

(* Mutant: a thread that fails keeps the lock.                              *)
Release_Keeps(t) ==
  /\ thread' = [thread EXCEPT ![t] = Idle]
  /\ lock' = IF thread[t].at = "route" /\ lock = t THEN NoOne ELSE lock

(* The edge swallows whatever was raised: a failure ends the same way.      *)
Release(t) ==
  /\ thread' = [thread EXCEPT ![t] = Idle]
  /\ lock' = IF lock = t THEN NoOne ELSE lock

Done(t) == thread[t].at = "route" /\ thread[t].todo = <<>>

(* FileSeenStore.add: appended and synced, then remembered.                 *)
Mark(t) ==
  /\ Done(t)
  /\ \/ /\ seenFile' = seenFile \cup ({Name(Ev(t))} \ {NoName})
        /\ seen' = seen \cup ({Name(Ev(t))} \ {NoName})
        /\ Release(t) /\ UNCHANGED troubles
     \/ /\ Named(Ev(t)) /\ Release(t)
        /\ \/ Fault("mark") /\ UNCHANGED seenFile
           \/ Fault("marked") /\ seenFile' = seenFile \cup {Name(Ev(t))}
        /\ UNCHANGED seen
  /\ UNCHANGED <<memoryVars, posted, delivered, forgets>>

-----------------------------------------------------------------------------
(* remembering_responder.respond *)

respondRest == <<lock, storeVars, posted, delivered, forgets>>

Capped(t) == ~Head(thread[t].todo).owner /\ thread[t].turns >= MaxPersonaTurns

(* The turn cap: only an operator's message is heard past it.               *)
PassOver(t) ==
  /\ thread[t].at = "route" /\ thread[t].todo # <<>> /\ Capped(t)
  /\ thread' = [thread EXCEPT ![t].todo = Tail(@)]
  /\ UNCHANGED <<respondRest, memoryVars, troubles>>

(* context reads the summary, then the turns, of two views of the files.    *)
ReadSummary(t) ==
  /\ thread[t].at = "route" /\ thread[t].todo # <<>> /\ ~Capped(t)
  /\ thread' = [thread EXCEPT ![t].at = "read", ![t].prompt.summary = disk[P(t)].summary]
  /\ UNCHANGED <<respondRest, memoryVars, troubles>>

ReadTurns(t) ==
  /\ thread[t].at = "read"
  /\ thread' = [thread EXCEPT ![t].at = "model",
                              ![t].prompt.turns = Recent(disk[P(t)], HistoryTurns)]
  /\ UNCHANGED <<respondRest, memoryVars, troubles>>

(* Mutant: a turn is not counted.                                           *)
NextPersona_Uncounted(t, more, n) ==
  thread' = [thread EXCEPT ![t].at = "route", ![t].todo = Tail(@) \o more,
                           ![t].prompt = NoPrompt, ![t].mine = NoTurn]

NextPersona(t, more, n) ==
  thread' = [thread EXCEPT ![t].at = "route", ![t].todo = Tail(@) \o more,
                           ![t].turns = @ + n, ![t].prompt = NoPrompt, ![t].mine = NoTurn]

(* No colleague, no soul, no reply, a gateway that is down: quiet.          *)
StayQuiet(t) ==
  /\ thread[t].at = "model"
  /\ NextPersona(t, <<>>, 0)
  /\ UNCHANGED <<respondRest, memoryVars, troubles>>

Reply(t) ==
  /\ thread[t].at = "model"
  /\ Goes(t, "user")
  /\ UNCHANGED <<respondRest, memoryVars, troubles>>

ModelRaises(t) ==
  /\ thread[t].at = "model" /\ Fault("model") /\ Release(t)
  /\ UNCHANGED <<storeVars, memoryVars, posted, delivered, forgets>>

Line(t, role) == [role |-> role, of |-> Ev(t)]
Says(t, role, i) ==
  spoken' = [spoken EXCEPT ![P(t)] = Append(@, [idx |-> i, line |-> Line(t, role)])]

(* The transcript becomes one of those in D, read being whether every file  *)
(* could be read.                                                           *)
Leaves(t, D, read) ==
  /\ \E d \in D : disk' = [disk EXCEPT ![P(t)] = d]
  /\ misread' = IF read THEN misread ELSE misread \cup {P(t)}
Reading(read) == IF read THEN UNCHANGED troubles ELSE Fault("read")
Reads == IF "read" \in Faults THEN BOOLEAN ELSE {TRUE}
Indices(t, read) == {NextIndex(v) : v \in Views(disk[P(t)], read)}

(* Only an operator's message engages anybody that it does not mention.     *)
Blank(t) == Envelope[Ev(t)].blank /\ Head(thread[t].todo).owner

(* Blank text leaves no turn, and the reply to it is recorded all the same. *)
RecordNothing(t) ==
  /\ thread[t].at = "user" /\ Blank(t)
  /\ thread' = [thread EXCEPT ![t].at = "persona", ![t].mine = NoTurn, ![t].prompt = NoPrompt]
  /\ UNCHANGED <<respondRest, memoryVars, troubles>>

RecordUser(t) ==
  /\ thread[t].at = "user" /\ ~Blank(t)
  /\ \E read \in BOOLEAN : Reading(read) /\ \E i \in Indices(t, read) :
       /\ thread' = [thread EXCEPT ![t].at = "persona", ![t].mine = i, ![t].prompt = NoPrompt]
       /\ Leaves(t, Recorded(disk[P(t)], i, Line(t, "user"), read), read)
       /\ Says(t, "user", i)
  /\ UNCHANGED <<respondRest, cut>>

(* A record that raises after its turn is written.                          *)
RaisesHalfway(t, role) ==
  /\ Fault("compact")
  /\ \E read \in Reads : \E i \in Indices(t, read) :
       /\ Leaves(t, HalfRecorded(disk[P(t)], i, Line(t, role), read), read)
       /\ Says(t, role, i)
  /\ cut' = cut \cup {<<P(t), Ev(t)>>}

RecordUserRaises(t) ==
  /\ thread[t].at = "user" /\ ~Blank(t) /\ Release(t)
  /\ (Fault("write") /\ UNCHANGED memoryVars) \/ RaisesHalfway(t, "user")
  /\ UNCHANGED <<storeVars, posted, delivered, forgets>>

RecordPersona(t) ==
  /\ thread[t].at = "persona" /\ Goes(t, "post")
  /\ \E read \in BOOLEAN : Reading(read) /\ \E i \in Indices(t, read) :
       /\ Leaves(t, Recorded(disk[P(t)], i, Line(t, "persona"), read), read)
       /\ Says(t, "persona", i)
  /\ UNCHANGED <<respondRest, cut>>

RecordPersonaRaises(t) ==
  /\ thread[t].at = "persona" /\ Goes(t, "undo")
  /\ (Fault("write") /\ UNCHANGED memoryVars) \/ RaisesHalfway(t, "persona")
  /\ UNCHANGED respondRest

(* Mutant: the orphan stays.                                                *)
UndoUser_Keeps(t) ==
  /\ thread[t].at = "undo" /\ Release(t)
  /\ UNCHANGED <<storeVars, memoryVars, posted, boundVars>>

Withdrawn(s, n) == RemoveAt(s, CHOOSE i \in DOMAIN s : s[i].idx = n)

(* The user turn is rolled back, if there is one: unless it was folded or   *)
(* forgotten since, or forget raises.  The exception is raised again.       *)
UndoUser(t) ==
  /\ thread[t].at = "undo" /\ Release(t)
  /\ \/ thread[t].mine = NoTurn /\ UNCHANGED memoryVars
     \/ /\ thread[t].mine # NoTurn
        /\ disk' = [disk EXCEPT ![P(t)] = Forget(@, thread[t].mine)]
        /\ IF \E u \in Unfolded(disk[P(t)]) : u.idx = thread[t].mine
           THEN spoken' = [spoken EXCEPT ![P(t)] = Withdrawn(@, thread[t].mine)] /\ UNCHANGED cut
           ELSE cut' = cut \cup {<<P(t), Ev(t)>>} /\ UNCHANGED spoken
        /\ UNCHANGED misread
     \/ /\ thread[t].mine # NoTurn /\ "undo" \in Faults
        /\ cut' = cut \cup {<<P(t), Ev(t)>>}
        /\ UNCHANGED <<disk, spoken, misread>>
  /\ UNCHANGED <<storeVars, posted, boundVars>>

(* In a space a reply is a message of its own, and may address the others.  *)
Addressed(t) ==
  {InTurn(S, FALSE) : S \in IF Envelope[Ev(t)].dm THEN {{}} ELSE SUBSET (Personas \ {P(t)})}

(* transport.post                                                           *)
Post(t) ==
  /\ thread[t].at = "post"
  /\ posted' = [posted EXCEPT ![Ev(t)] = @ + 1]
  /\ \E more \in Addressed(t) : NextPersona(t, more, 1)
  /\ UNCHANGED <<lock, storeVars, memoryVars, boundVars>>

PostRaises(t) ==
  /\ thread[t].at = "post" /\ Fault("post") /\ Release(t)
  /\ UNCHANGED <<storeVars, memoryVars, posted, delivered, forgets>>

-----------------------------------------------------------------------------
Halfway(t) == thread[t].at \in {"persona", "undo"}
Busy == {t \in Threads : thread[t].at # "idle"}

Recording(t) == thread[t].at \in Roles /\ ~(thread[t].at = "user" /\ Blank(t))

(* What a record that is under way may have written at an index.            *)
MidRecord(t, i, read) ==
  LET line == Line(t, thread[t].at)
  IN {Write(disk[P(t)], i, line)} \cup HalfRecorded(disk[P(t)], i, line, read)

(* The process dies with its threads and its lock; the files stay.  At most *)
(* one thread is in a record: it holds the lock of the memory.              *)
Crash ==
  /\ Fault("crash")
  /\ thread' = [t \in Threads |-> Idle] /\ lock' = NoOne
  /\ seen' = seenFile
  /\ cut' = cut \cup {<<P(t), Ev(t)>> : t \in {u \in Busy : Halfway(u) \/ thread[u].at = "user"}}
  /\ \/ UNCHANGED <<disk, spoken, misread>>
     \/ \E t \in Busy, read \in Reads : Recording(t) /\ \E i \in Indices(t, read) :
          Leaves(t, MidRecord(t, i, read), read) /\ Says(t, thread[t].at, i)
  /\ UNCHANGED <<seenFile, posted, delivered, forgets>>

(* forget_thread *)
ForgetThread(p) ==
  /\ Fault("forget")
  /\ forgets' = Append(forgets, [of |-> p, midway |-> \E t \in Threads : Halfway(t) /\ P(t) = p])
  /\ disk' = [disk EXCEPT ![p] = NoThread]
  /\ spoken' = [spoken EXCEPT ![p] = <<>>] /\ misread' = misread \ {p}
  /\ cut' = cut \cup {<<p, Ev(t)>> : t \in {u \in Threads : Halfway(u) /\ P(u) = p}}
  /\ UNCHANGED <<threadVars, storeVars, posted, delivered>>

Handle(t) ==
  \/ Enter(t) \/ Mark(t) \/ PassOver(t) \/ ReadSummary(t) \/ ReadTurns(t) \/ StayQuiet(t) \/ Reply(t)
  \/ ModelRaises(t) \/ RecordNothing(t) \/ RecordUser(t) \/ RecordUserRaises(t)
  \/ RecordPersona(t) \/ RecordPersonaRaises(t) \/ UndoUser(t) \/ Post(t) \/ PostRaises(t)

Next ==
  \/ \E t \in Threads : Deliver(t) \/ Handle(t)
  \/ Crash
  \/ \E p \in Personas : ForgetThread(p)

Spec == Init /\ [][Next]_vars

(* Threads are scheduled, and every wait of theirs has a timeout.           *)
FairSpec == Spec /\ \A t \in Threads : WF_threadVars(Handle(t))

-----------------------------------------------------------------------------
(* Properties *)

ThreadStates ==
  [at : Stages, ev : Events, todo : Seq([persona : Personas, owner : BOOLEAN]),
   turns : Nat, prompt : [summary : Seq(Lines), turns : Seq(Lines)], mine : Nat \cup {NoTurn}]

(* Types; the indices of a transcript are not reused, and the lock is held  *)
(* by a thread that handles an event with a name, and by every such thread. *)
ChatTypeOK ==
  /\ thread \in [Threads -> ThreadStates] /\ lock \in Threads \cup {NoOne}
  /\ seen \subseteq {Name(e) : e \in Events} \ {NoName} /\ seen \subseteq seenFile
  /\ posted \in [Events -> Nat]
  /\ \A p \in Personas : \A t, u \in disk[p].turns : t.idx = u.idx => t = u
  /\ \A t \in Threads :
       thread[t].at \notin {"idle", "enter"} => (Named(Ev(t)) <=> lock = t)

Said(p) == [i \in DOMAIN spoken[p] |-> spoken[p][i].line]

(* A transcript holds the conversation: every line that was recorded and    *)
(* not withdrawn, once, in its order, and none is lost but the oldest of a  *)
(* full summary; however often it was compacted, and wherever a compaction  *)
(* was cut short (chat_memory.py, record).  Not so once a record of the     *)
(* thread could not read a file: what it missed it may overwrite.           *)
TranscriptIsConversation ==
  \A p \in Personas \ misread :
    LET c == Conversation(disk[p])
    IN IsSuffix(c, Said(p)) /\ (c = Said(p) \/ Len(disk[p].summary) = SummaryMax)

Of(s, role, e) == Cardinality({i \in DOMAIN s : s[i] = [role |-> role, of |-> e]})
UnderWay(p, e) == \E t \in Threads : Halfway(t) /\ P(t) = p /\ Ev(t) = e

(* No exchange is half a transcript's: a user turn has its reply, and a     *)
(* reply its user turn but to blank text, unless the exchange is under way  *)
(* or was cut short (remembering_responder's rollback).  Not so of a thread *)
(* forgotten between the two turns of an exchange, or with a record that    *)
(* could not read a file: the rollback may delete another's turn.           *)
PairsUnlessCut ==
  \A p \in Personas \ misread, e \in Events :
    /\ <<p, e>> \notin cut /\ ~UnderWay(p, e)
    /\ [of |-> p, midway |-> TRUE] \notin Range(forgets)
    => /\ Of(Said(p), "user", e) <= Of(Said(p), "persona", e)
       /\ ~Envelope[e].blank => Of(Said(p), "user", e) = Of(Said(p), "persona", e)

(* An event that was marked as handled is handled no more: nothing of it is *)
(* posted or recorded again (ChatRouter, whose check and mark are one       *)
(* critical section).                                                       *)
MarkedIsDone ==
  \A e \in Events : Name(e) \in seen =>
    /\ posted'[e] = posted[e]
    /\ \A p \in Personas, r \in Roles : Of(Said(p)', r, e) <= Of(Said(p), r, e)

MarkedStaysDone == [][MarkedIsDone]_vars

(* What the model is shown is the thread as it is when it is asked: while   *)
(* every event has a name, and nobody forgets the thread, no record falls   *)
(* between the two reads of a context (ThreadTranscript.context).           *)
PromptIsWhole ==
  \A t \in Threads :
    /\ thread[t].at = "model" /\ forgets = <<>>
    /\ \A e \in Events : delivered[e] > 0 => Named(e)
    => thread[t].prompt = [summary |-> disk[P(t)].summary, turns |-> Recent(disk[P(t)], HistoryTurns)]

(* What a thread has still to do: to enter; its personas, and those that    *)
(* the replies left to post may address; the steps left of the turn at hand. *)
Cap == IF MaxPersonaTurns > Len(Registry) THEN MaxPersonaTurns ELSE Len(Registry)
TurnLeft ==
  [idle |-> 0, enter |-> 0, route |-> 6, read |-> 5, model |-> 4, user |-> 3, persona |-> 2,
   undo |-> 1, post |-> 1]
ThreadLeft(r) ==
  <<IF r.at = "enter" THEN 1 ELSE 0, Len(r.todo) + (Cap - r.turns) * Len(Registry), TurnLeft[r.at]>>

(* Each step of a thread ends it or leaves less of it to do: personas that  *)
(* address each other talk no event on for ever, nor does what fails        *)
(* (chat_transport.py: handle_event; group_chat.py: run_round).             *)
Shortens(m, n) ==
  \/ m[1] < n[1]
  \/ m[1] = n[1] /\ (m[2] < n[2] \/ (m[2] = n[2] /\ m[3] < n[3]))
WorkShortens ==
  \A t \in Threads : Handle(t) =>
    /\ ThreadLeft(thread[t]) \in Nat \X Nat \X Nat
    /\ thread'[t].at = "idle" \/ Shortens(ThreadLeft(thread'[t]), ThreadLeft(thread[t]))
ThreadsShorten == [][WorkShortens]_vars

(* Every event's handling ends and gives the lock back, whatever fails.     *)
ThreadsEnd == \A t \in Threads : []<>(thread[t].at = "idle")

(* remembering_responder, doc: "a lone user turn can never desync future    *)
(* replay".                                                                 *)
PairsStayPaired ==
  \A p \in Personas, e \in Events :
    ~UnderWay(p, e) =>
      Of(Conversation(disk[p]), "user", e) <= Of(Conversation(disk[p]), "persona", e)

(* chat_transport.py: "at-least-once on failure (a transient error risks a  *)
(* duplicate reply, never a dropped message)".                              *)
NeverDropped == \A e \in Events : delivered[e] > 0 /\ Named(e) ~> Name(e) \in seen
==============================================================================
