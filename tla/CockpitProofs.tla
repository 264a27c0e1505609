---------------------------- MODULE CockpitProofs ----------------------------
(* The components of the cockpit composed: what each keeps of its own, its  *)
(* types and its bounds included, it keeps whichever of them runs.          *)
EXTENDS MCCockpit, TerminalProofs, ServiceProofs

-----------------------------------------------------------------------------
(* The terminal's mode: no more contexts are open than may be, and so no    *)
(* more windows.                                                            *)
RawFits == RawInv /\ Len(contexts) <= MaxNesting

LEMMA RawFitsStarts == RawInit => RawFits
<1> SUFFICES ASSUME RawInit PROVE RawFits
  OBVIOUS
<1>1. RawInv
  BY RawInvInit
<1>2. Len(contexts) = 0
  BY DEF RawInit
<1>3. QED
  BY <1>1, <1>2, NestingAssumption DEF RawFits

(* A context opens only below the bound.                                    *)
LEMMA RawFitsGoesOn == RawFits /\ [RawNext]_rawVars => RawFits'
<1> SUFFICES ASSUME RawFits, [RawNext]_rawVars PROVE Len(contexts') <= MaxNesting
  BY RawInvStep DEF RawFits
<1>1. contexts \in Seq(Contexts) /\ MaxNesting \in Nat /\ Len(contexts) <= MaxNesting /\ RawInv
  BY NestingAssumption DEF RawFits, RawInv, RawTyped
<1>2. ASSUME Arm \/ EnterInner \/ EnterCooked \/ EnterNothing PROVE Len(contexts') <= MaxNesting
  <2>1. PICK c \in Contexts : Open(c)
    BY <1>2 DEF Arm, EnterInner, EnterCooked, EnterNothing, Contexts
  <2>2. Len(contexts) < MaxNesting
    BY <1>2 DEF Arm, EnterInner, EnterCooked, EnterNothing, CanOpen
  <2>3. QED
    BY <1>1, <2>1, <2>2, OpensOne
<1>3. ASSUME LeaveCooked \/ LeaveInner \/ Restore PROVE Len(contexts') <= MaxNesting
  <2>1. CloseInnermost
    BY <1>3 DEF LeaveCooked, LeaveInner, Restore
  <2>2. contexts # <<>>
    <3>1. DOMAIN contexts # {}
      BY <1>1, <1>3 DEF LeaveCooked, LeaveInner, Restore, RawInv, SessionIsOne, SessionAt
    <3>2. QED
      BY <3>1
  <2>3. QED
    BY <1>1, <2>1, <2>2, Closed
<1>4. ASSUME UNCHANGED contexts PROVE Len(contexts') <= MaxNesting
  BY <1>1, <1>4
<1>5. QED
  BY <1>2, <1>3, <1>4 DEF RawNext, Hold, InstallHandler, Release, RemoveHandler, Sigterm, rawVars

LEMMA RawTypes == RawFits => RawTypeOK
<1> SUFFICES ASSUME RawFits PROVE RawTypeOK
  OBVIOUS
<1>1. RawInv /\ RawTyped /\ MaxNesting \in Nat /\ Len(contexts) <= MaxNesting
  BY NestingAssumption DEF RawFits, RawInv
<1>2. contexts \in Seq(Contexts) /\ Len(contexts) \in Nat /\ DOMAIN contexts = 1 .. Len(contexts)
  BY <1>1 DEF RawTyped
<1>3. Cardinality(Windows) <= Len(contexts)
  <2>1. IsFiniteSet(1 .. Len(contexts)) /\ Cardinality(1 .. Len(contexts)) = Len(contexts)
    BY <1>2, FS_Interval
  <2>2. Windows \subseteq 1 .. Len(contexts)
    BY <1>2 DEF Windows
  <2>3. QED
    BY <2>1, <2>2, FS_Subset
<1>4. depth \in 0 .. MaxNesting
  <2>1. depth = 0 \/ depth = Cardinality(Windows)
    BY <1>1 DEF RawInv, FlagsFollow, DepthIsCount
  <2>2. Cardinality(Windows) \in Nat
    BY <1>2, WindowsFinite
  <2>3. QED
    BY <1>1, <1>2, <1>3, <2>1, <2>2
<1>5. QED
  BY <1>1, <1>4 DEF RawTypeOK, RawTyped, Contexts

-----------------------------------------------------------------------------
(* A walk: its place in the steps, whatever is typed at it.                 *)
ReaderHoldsOne(t) == t = [tty |-> t.tty, push |-> t.push] /\ Len(t.push) <= 1
AtAStep == walkAt \in {"animating", "awaiting", "review", "gate"} => at \in DOMAIN steps
WalkFits ==
  /\ steps \in Walks /\ at \in 0 .. Len(steps) + 1 /\ walkAt \in WalkSteps /\ AtAStep
  /\ page \in Pages /\ blocked \in {"no", "remedy", "hard"}
  /\ worker \in {"idle", "running", "returned", "raised"}
  /\ ReaderHoldsOne(term) /\ typed \in 0 .. MaxPresses

LEMMA StepsAre ==
  ASSUME NEW w \in Walks
  PROVE  w \in Seq(Kinds) /\ Len(w) \in Nat /\ DOMAIN w = 1 .. Len(w)
BY WalkAssumption

(* Typing leaves the pushed-back byte, a read keeps one at most, and what   *)
(* is discarded is not pushed back.                                         *)
LEMMA KeepsOne ==
  ASSUME NEW t, ReaderHoldsOne(t)
  PROVE  /\ \A b, p : ReaderHoldsOne(Typed(t, b, p))
         /\ ReaderHoldsOne(ReadKey(t).term) /\ ReaderHoldsOne(Discarded(t))
<1>1. ASSUME NEW q PROVE ReaderHoldsOne([t EXCEPT !.tty = q])
  BY DEF ReaderHoldsOne
<1>2. ReaderHoldsOne(ReadKey(t).term)
  <2> DEFINE rest == Tail(Pending(t))
             first == Head(Pending(t))
             behind == IF rest = <<>> THEN <<>> ELSE <<Head(rest)>>
  <2>1. Len(behind) <= 1 /\ Len(<<>>) = 0
    OBVIOUS
  <2>2. ASSUME NEW q, NEW r, Len(r) <= 1 PROVE ReaderHoldsOne([tty |-> q, push |-> r])
    BY <2>2 DEF ReaderHoldsOne
  <2>3. \/ ReadKey(t).term = [tty |-> Tail(rest), push |-> behind]
        \/ ReadKey(t).term = [tty |-> Beheaded(Head(rest)) \o Tail(rest), push |-> <<>>]
        \/ ReadKey(t).term = [tty |-> rest, push |-> <<>>]
    <3> HIDE DEF rest, first
    <3>1. ReadKey(t) =
            CASE first.byte = "lead" /\ rest # <<>> ->
                   [term |-> [tty |-> Tail(rest), push |-> behind], key |-> [first EXCEPT !.byte = "no"]]
              [] first.byte = "esc" /\ rest # <<>> ->
                   [term |-> [tty |-> Beheaded(Head(rest)) \o Tail(rest), push |-> <<>>], key |-> first]
              [] OTHER ->
                   [term |-> [tty |-> rest, push |-> <<>>],
                    key |-> IF first.byte \in {"lead", "arrow"} THEN [first EXCEPT !.byte = "no"] ELSE first]
      BY DEF ReadKey, rest, first
    <3> HIDE DEF behind
    <3>2. QED
      BY <3>1
  <2>4. QED
    <3> HIDE DEF rest, behind
    <3> QED BY <2>1, <2>2, <2>3
<1>3. QED
  BY <1>1, <1>2 DEF Typed, Discarded

LEMMA WalkFitsStarts == WalkInit => WalkFits
<1> SUFFICES ASSUME WalkInit PROVE WalkFits
  OBVIOUS
<1>1. ReaderHoldsOne(term)
  BY DEF WalkInit, EmptyTerminal, ReaderHoldsOne
<1>2. steps \in Walks /\ Len(steps) \in Nat
  BY StepsAre DEF WalkInit
<1>3. QED
  BY <1>1, <1>2, PressesAssumption DEF WalkInit, WalkFits, AtAStep, WalkSteps, Pages, PageNames

(* Before the steps and after them, the walk stays within its screens.      *)
LEMMA WalkFitsAround ==
  ASSUME WalkFits, DrawPreflight \/ Continue \/ OfferRemedy \/ ConfirmRemedy \/ DrawResult \/ Leave
  PROVE  WalkFits'
<1>1. steps \in Walks /\ Len(steps) \in Nat /\ DOMAIN steps = 1 .. Len(steps) /\ steps' = steps
  BY StepsAre DEF WalkFits, DrawPreflight, Continue, OfferRemedy, ConfirmRemedy, DrawResult, Leave
<1>2. ReaderHoldsOne(term')
  BY KeepsOne DEF WalkFits, DrawPreflight, Continue, OfferRemedy, ConfirmRemedy, DrawResult, Leave, Reads
<1>3. page' \in Pages
  BY <1>1 DEF WalkFits, DrawPreflight, Continue, OfferRemedy, ConfirmRemedy, DrawResult, Leave, Page,
           Pages, PageNames
<1>4. walkAt' \in WalkSteps \ {"animating", "awaiting", "review", "gate"} /\ at' \in {at, 1}
  BY DEF WalkFits, DrawPreflight, Continue, OfferRemedy, ConfirmRemedy, DrawResult, Leave, WalkSteps
<1>5. /\ blocked' \in {"no", "remedy", "hard"} /\ UNCHANGED <<worker, typed>>
  BY DEF WalkFits, DrawPreflight, Continue, OfferRemedy, ConfirmRemedy, DrawResult, Leave
<1>6. at' \in 0 .. Len(steps) + 1
  BY <1>1, <1>4 DEF WalkFits
<1>7. QED
  BY <1>1, <1>2, <1>3, <1>4, <1>5, <1>6 DEF WalkFits, AtAStep

(* A step begins at a step there is, and ends with the next, the last       *)
(* place included.                                                          *)
LEMMA WalkFitsWithin ==
  ASSUME WalkFits,
         StartStep \/ JoinWorker \/ PollCancel \/ AwaitKey \/ DiscardTyped \/ AnswerGate \/ AllStepsDone
  PROVE  WalkFits'
<1>1. /\ steps \in Walks /\ Len(steps) \in Nat /\ DOMAIN steps = 1 .. Len(steps) /\ steps' = steps
      /\ steps \in Seq(Kinds) /\ at \in 0 .. Len(steps) + 1
  BY StepsAre DEF WalkFits, StartStep, JoinWorker, PollCancel, AwaitKey, DiscardTyped, AnswerGate,
                  AllStepsDone
<1>2. ReaderHoldsOne(term')
  BY KeepsOne DEF WalkFits, StartStep, JoinWorker, PollCancel, AwaitKey, DiscardTyped, AnswerGate,
                  AllStepsDone, Reads
<1>3. /\ page' \in Pages /\ walkAt' \in WalkSteps /\ AtAStep' /\ at' \in {at, at + 1}
      /\ at' # at => at \in DOMAIN steps
      /\ worker' \in {"idle", "running", "returned", "raised"} /\ UNCHANGED <<blocked, typed>>
  <2>1. CASE StartStep
    <3>1. at \in DOMAIN steps /\ steps[at] \in Kinds
      BY <1>1, <2>1 DEF StartStep
    <3>2. \E name \in {"progress", "note", "review"} : page' = Page(name)
      BY <2>1, <3>1 DEF StartStep, Kinds
    <3>3. page' \in Pages
      BY <1>1, <3>2 DEF Page, Pages, PageNames
    <3>4. walkAt' \in {"animating", "awaiting", "review"} /\ worker' \in {worker, "running"}
      BY <2>1, <3>1 DEF StartStep, Kinds
    <3>5. UNCHANGED <<steps, at, blocked, typed>>
      BY <2>1 DEF StartStep
    <3>6. QED
      BY <3>1, <3>3, <3>4, <3>5 DEF WalkFits, AtAStep, WalkSteps
  <2>2. CASE JoinWorker \/ PollCancel \/ AwaitKey \/ DiscardTyped \/ AnswerGate \/ AllStepsDone
    <3>1. /\ UNCHANGED <<page, blocked, typed>> /\ at' \in {at, at + 1}
          /\ worker' \in {worker, "idle"} /\ walkAt' \in WalkSteps
      BY <2>2 DEF WalkFits, JoinWorker, PollCancel, AwaitKey, DiscardTyped, AnswerGate, AllStepsDone,
                  WalkSteps
    <3>2. at' # at => at \in DOMAIN steps
      BY <2>2 DEF WalkFits, JoinWorker, PollCancel, AwaitKey, DiscardTyped, AnswerGate, AllStepsDone,
                  AtAStep
    <3>3. AtAStep'
      BY <1>1, <2>2 DEF WalkFits, JoinWorker, PollCancel, AwaitKey, DiscardTyped, AnswerGate,
                        AllStepsDone, AtAStep
    <3>4. QED
      BY <3>1, <3>2, <3>3 DEF WalkFits
  <2>3. QED
    BY <2>1, <2>2
<1>4. at' \in 0 .. Len(steps) + 1
  BY <1>1, <1>3
<1>5. QED
  BY <1>1, <1>2, <1>3, <1>4 DEF WalkFits

LEMMA WalkFitsGoesOn == WalkFits /\ [WalkNext]_walkVars => WalkFits'
<1> SUFFICES ASSUME WalkFits, [WalkNext]_walkVars PROVE WalkFits'
  OBVIOUS
<1>1. ASSUME NEW b \in Presses, PressWalk(b) PROVE WalkFits'
  <2>1. ReaderHoldsOne(term') /\ typed' \in 0 .. MaxPresses
    BY <1>1, KeepsOne, PressesAssumption DEF PressWalk, WalkFits
  <2>2. QED
    BY <1>1, <2>1 DEF PressWalk, WalkFits, AtAStep
<1>2. ASSUME WorkerEnds \/ UNCHANGED walkVars PROVE WalkFits'
  BY <1>2 DEF WorkerEnds, walkVars, WalkFits, AtAStep
<1>3. QED
  BY <1>1, <1>2, WalkFitsAround, WalkFitsWithin DEF WalkNext

LEMMA WalkTypes == WalkFits => WalkTypeOK
BY DEF WalkFits, WalkTypeOK, ReaderHoldsOne, Pages

-----------------------------------------------------------------------------
(* Home: the world moves on at most once for each key pressed, so every     *)
(* version that Home holds is one there may be.                             *)
Seen == Versions \cup {OtherPage}
KeysTyped == [kind : Keys, seen : Seen]
AKeyActs == IF home \in {"finish", "offer", "claimed", "nested"} THEN 1 ELSE 0
WorldIsEarned == world + Len(queue) + AKeyActs <= pressed + 1

HomeTyped ==
  /\ mode \in Modes /\ home \in HomeSteps /\ key \in [kind : KeyKinds, seen : Seen]
  /\ queue \in Seq(KeysTyped) /\ state \in Versions
  /\ failed \in BOOLEAN /\ last \in {"ready", "raised"} /\ dirty \in BOOLEAN
  /\ painted \in [at : Seen,
                  mark : {"live", "refreshing", "failed", "finishing", "interim", "quit", "nested"}]
  /\ emitted \in [at : Versions, world : Versions] /\ acted \in [seen : Seen, at : Versions]
  /\ pressed \in 0 .. MaxKeys /\ failures \in 0 .. MaxBadCaptures

HomeFits == HomeInv /\ HomeTyped /\ WorldIsEarned

LEMMA HomeBounds ==
  ASSUME HomeFits
  PROVE  /\ world \in Versions /\ refresh.at \in Versions /\ Len(queue) \in Nat /\ MaxKeys \in Nat
         /\ pressed \in Nat /\ refresh \in Refreshes
         /\ refresh.status \in {"none", "running", "ready", "raised"}
<1>1. MaxKeys \in Nat /\ pressed \in 0 .. MaxKeys /\ Len(queue) \in Nat
  BY KeysAssumption DEF HomeFits, HomeTyped
<1>2. refresh \in Refreshes /\ world \in Nat /\ refresh.at <= world
  BY DEF HomeFits, HomeInv, RefreshTyped
<1>3. refresh.at \in Nat /\ refresh.status \in {"none", "running", "ready", "raised"}
  BY <1>2 DEF Refreshes
<1>4. world <= MaxKeys + 1
  BY <1>1, <1>2 DEF HomeFits, WorldIsEarned, AKeyActs
<1>5. QED
  BY <1>1, <1>2, <1>3, <1>4 DEF Versions

LEMMA HomeTypes == HomeFits => HomeTypeOK
<1> SUFFICES ASSUME HomeFits PROVE HomeTypeOK
  OBVIOUS
<1>1. world \in Versions /\ refresh.at \in Versions /\ refresh \in Refreshes
  BY HomeBounds
<1>2. refresh \in [status : {"none", "running", "ready", "raised"}, at : Versions, superseded : BOOLEAN]
  BY <1>1 DEF Refreshes
<1>3. QED
  BY <1>1, <1>2 DEF HomeFits, HomeTyped, HomeTypeOK, Seen, KeysTyped

LEMMA HomeFitsStarts == HomeInit => HomeFits
<1> SUFFICES ASSUME HomeInit PROVE HomeFits
  OBVIOUS
<1>1. HomeInv
  BY HomeOpens
<1>2. MaxKeys \in Nat /\ MaxBadCaptures \in Nat /\ Keys \subseteq KeyKinds
  BY KeysAssumption
<1>3. /\ 0 \in Versions /\ 1 \in Versions /\ OtherPage \in Seen /\ Versions \subseteq Seen
      /\ 0 \in 0 .. MaxKeys /\ 0 \in 0 .. MaxBadCaptures
  BY <1>2 DEF Versions, OtherPage, Seen
<1>4. key \in [kind : KeyKinds, seen : Seen]
  BY <1>3 DEF HomeInit, NoKey, KeyKinds
<1>5. queue \in Seq(KeysTyped) /\ Len(queue) = 0
  BY DEF HomeInit
<1>6. state \in {0, 1} /\ home \in {"top", "loading"} /\ dirty \in BOOLEAN
  BY KeysAssumption DEF HomeInit
<1>7. WorldIsEarned
  BY <1>5, <1>6 DEF HomeInit, WorldIsEarned, AKeyActs
<1>8. HomeTyped
  BY <1>3, <1>4, <1>5, <1>6 DEF HomeInit, HomeTyped, HomeSteps
<1>9. QED
  BY <1>1, <1>7, <1>8 DEF HomeFits

(* The queue as a key is typed and as the first of it is taken.             *)
LEMMA QueueMoves ==
  ASSUME HomeFits
  PROVE  /\ \A k \in Keys : LET q == Append(queue, [kind |-> k, seen |-> painted.at]) IN
              q \in Seq(KeysTyped) /\ Len(q) = Len(queue) + 1
         /\ queue # <<>> =>
              /\ Tail(queue) \in Seq(KeysTyped) /\ Len(Tail(queue)) = Len(queue) - 1
              /\ Head(queue) \in [kind : KeyKinds, seen : Seen] /\ Len(queue) \in Nat \ {0}
<1>1. queue \in Seq(KeysTyped) /\ painted.at \in Seen
  BY DEF HomeFits, HomeTyped
<1>2. KeysTyped \subseteq [kind : KeyKinds, seen : Seen]
  BY KeysAssumption DEF KeysTyped
<1>3. ASSUME NEW k \in Keys PROVE [kind |-> k, seen |-> painted.at] \in KeysTyped
  BY <1>1 DEF KeysTyped
<1>4. QED
  <2> HIDE DEF KeysTyped
  <2> QED BY <1>1, <1>2, <1>3

LEMMA HomeFitsCapture == ASSUME HomeFits, CaptureStep PROVE HomeTyped' /\ WorldIsEarned'
<1>1. failures' \in 0 .. MaxBadCaptures
  <2>1. failures' = failures \/ (failures < MaxBadCaptures /\ failures' = failures + 1)
    BY DEF CaptureStep, CaptureReads, CaptureRaises
  <2>2. QED
    BY <2>1, KeysAssumption DEF HomeFits, HomeTyped
<1>2. UNCHANGED <<mode, home, key, queue, world, state, failed, last, dirty, painted, emitted, acted, pressed>>
  BY DEF CaptureStep, CaptureReads, CaptureRaises
<1>3. QED
  BY <1>1, <1>2 DEF HomeFits, HomeTyped, WorldIsEarned, AKeyActs

LEMMA HomeFitsLoading ==
  ASSUME HomeFits, LoadEnds \/ LoadPolls \/ LoadAgain PROVE HomeTyped' /\ WorldIsEarned'
<1>1. queue' \in Seq(KeysTyped) /\ Len(queue') <= Len(queue) /\ Len(queue') \in Nat
  <2>1. queue' = queue \/ (queue # <<>> /\ queue' = Tail(queue))
    BY DEF LoadEnds, LoadPolls, LoadAgain
  <2>2. queue \in Seq(KeysTyped) /\ Len(queue) \in Nat
    BY HomeBounds DEF HomeFits, HomeTyped
  <2>3. CASE queue' = queue
    BY <2>2, <2>3
  <2>4. CASE queue # <<>> /\ queue' = Tail(queue)
    <3> HIDE DEF KeysTyped
    <3> QED BY <2>2, <2>4, QueueMoves
  <2>5. QED
    BY <2>1, <2>3, <2>4
<1>2. UNCHANGED <<mode, key, world, failed, painted, emitted, acted, pressed, failures>>
  BY DEF LoadEnds, LoadPolls, LoadAgain
<1>3. state' \in Versions /\ home' \in {"top", "load_failed", "closed", "loading"} /\ dirty' \in BOOLEAN
  BY HomeBounds DEF LoadEnds, LoadPolls, LoadAgain, HomeFits, HomeTyped
<1>4. last' \in {"ready", "raised"}
  BY DEF LoadEnds, LoadPolls, LoadAgain, HomeFits, HomeTyped, Done
<1>5. home \in {"loading", "load_failed"}
  BY DEF LoadEnds, LoadPolls, LoadAgain
<1>6. WorldIsEarned'
  <2>1. AKeyActs = 0 /\ AKeyActs' = 0
    BY <1>3, <1>5 DEF AKeyActs
  <2>2. world \in Nat /\ pressed \in Nat /\ Len(queue) \in Nat
    BY HomeBounds DEF Versions
  <2>3. world + Len(queue) + 0 <= pressed + 1
    BY <2>1 DEF HomeFits, WorldIsEarned
  <2>4. world + Len(queue') + 0 <= pressed + 1
    BY <1>1, <2>2, <2>3
  <2>5. QED
    BY <1>2, <2>1, <2>4 DEF WorldIsEarned
<1>7. QED
  BY <1>1, <1>2, <1>3, <1>4, <1>6 DEF HomeFits, HomeTyped, HomeSteps

(* The loop: what it swaps in, paints and takes.                            *)
LEMMA HomeFitsLoop ==
  ASSUME HomeFits, SwapIn \/ NothingToSwap \/ Paint \/ NoPaint \/ RefreshWakes \/ TakeKey \/ AnswerQuit
                   \/ FinishingShown \/ FinishRefresh
  PROVE  HomeTyped' /\ WorldIsEarned'
<1>1. /\ UNCHANGED <<mode, world, acted, pressed, failures>>
      /\ world \in Versions /\ OtherPage \in Seen /\ Versions \subseteq Seen
  BY HomeBounds DEF SwapIn, NothingToSwap, Paint, NoPaint, RefreshWakes, TakeKey, AnswerQuit, FinishingShown,
                    FinishRefresh, Seen
<1>2. CASE SwapIn \/ FinishRefresh
  <2>1. UNCHANGED <<key, queue, painted, emitted>>
    BY <1>2 DEF SwapIn, FinishRefresh
  <2>2. /\ home' \in HomeSteps /\ dirty' \in BOOLEAN
        /\ AKeyActs' = AKeyActs
    BY <1>2 DEF SwapIn, FinishRefresh, HomeFits, HomeTyped, HomeSteps, AKeyActs
  <2>3. state' \in Versions /\ last' \in {"ready", "raised"} /\ failed' \in BOOLEAN
    <3>1. Settle
      BY <1>2 DEF SwapIn, FinishRefresh
    <3>2. refresh.superseded \in BOOLEAN
      BY HomeBounds DEF Refreshes
    <3>3. QED
      BY <3>1, <3>2, HomeBounds DEF Settle, Done, HomeFits, HomeTyped
  <2>4. WorldIsEarned'
    BY <1>1, <2>1, <2>2, HomeBounds DEF HomeFits, WorldIsEarned, AKeyActs
  <2>5. QED
    BY <1>1, <2>1, <2>2, <2>3, <2>4 DEF HomeFits, HomeTyped
<1>3. CASE NothingToSwap \/ Paint \/ NoPaint \/ RefreshWakes \/ FinishingShown
  <2>1. UNCHANGED <<key, queue, state, failed, last>>
    BY <1>3 DEF NothingToSwap, Paint, NoPaint, RefreshWakes, FinishingShown
  <2>2. /\ home' \in HomeSteps /\ dirty' \in BOOLEAN /\ AKeyActs' = AKeyActs
    BY <1>3 DEF NothingToSwap, Paint, NoPaint, RefreshWakes, FinishingShown, HomeFits, HomeTyped, HomeSteps,
                AKeyActs
  <2>3. painted' \in [at : Seen,
                      mark : {"live", "refreshing", "failed", "finishing", "interim", "quit", "nested"}]
    BY <1>1, <1>3 DEF NothingToSwap, Paint, NoPaint, RefreshWakes, FinishingShown, HomeFits, HomeTyped, Mark
  <2>4. emitted' \in [at : Versions, world : Versions]
    BY <1>1, <1>3 DEF NothingToSwap, Paint, NoPaint, RefreshWakes, FinishingShown, HomeFits, HomeTyped
  <2>5. WorldIsEarned'
    BY <1>1, <2>1, <2>2 DEF HomeFits, WorldIsEarned
  <2>6. QED
    BY <1>1, <2>1, <2>2, <2>3, <2>4, <2>5 DEF HomeFits, HomeTyped
<1>4. CASE TakeKey \/ AnswerQuit
  <2>1. UNCHANGED <<state, failed, last, emitted>>
    BY <1>4 DEF TakeKey, AnswerQuit
  <2>2. queue # <<>> /\ queue' = Tail(queue) /\ key' \in {key, Head(queue)} /\ AKeyActs = 0
    BY <1>4 DEF TakeKey, AnswerQuit, AKeyActs
  <2>3. home' \in HomeSteps /\ dirty' \in BOOLEAN /\ AKeyActs' \in {0, 1}
    BY <1>4 DEF TakeKey, AnswerQuit, HomeFits, HomeTyped, HomeSteps, AKeyActs
  <2>4. painted' \in {painted, [at |-> OtherPage, mark |-> "quit"]}
    BY <1>4 DEF TakeKey, AnswerQuit
  <2>5. queue' \in Seq(KeysTyped) /\ Len(queue') = Len(queue) - 1 /\ key' \in [kind : KeyKinds, seen : Seen]
    BY <2>2, QueueMoves DEF HomeFits, HomeTyped
  <2>6. WorldIsEarned'
    BY <1>1, <2>2, <2>3, <2>5, HomeBounds DEF HomeFits, WorldIsEarned, Versions
  <2>7. QED
    BY <1>1, <2>1, <2>3, <2>4, <2>5, <2>6 DEF HomeFits, HomeTyped
<1>5. QED
  BY <1>2, <1>3, <1>4

(* What a key does: the world moves on as the key's own work ends.          *)
LEMMA HomeFitsActs ==
  ASSUME HomeFits, Offer \/ ClaimedEnds \/ DropRefresh \/ NestedReads \/ NestedEnds \/ Recapture
                   \/ RecaptureRaises
  PROVE  HomeTyped' /\ WorldIsEarned'
<1>1. UNCHANGED <<mode, key, emitted, pressed>>
  BY DEF Offer, ClaimedEnds, DropRefresh, NestedReads, NestedEnds, Recapture, RecaptureRaises
<1>2. /\ world \in Nat /\ Len(queue) \in Nat /\ pressed \in Nat
      /\ world \in Versions /\ OtherPage \in Seen /\ Versions \subseteq Seen
  BY HomeBounds DEF Seen, Versions
<1>3. queue' \in Seq(KeysTyped) /\ Len(queue') <= Len(queue) /\ Len(queue') \in Nat
  <2>1. queue' = queue \/ queue' = <<>> \/ (queue # <<>> /\ queue' = Tail(queue))
    BY DEF Offer, ClaimedEnds, DropRefresh, NestedReads, NestedEnds, Recapture, RecaptureRaises
  <2>2. queue \in Seq(KeysTyped) /\ <<>> \in Seq(KeysTyped) /\ Len(<<>>) = 0
    BY DEF HomeFits, HomeTyped
  <2>3. CASE queue' = queue
    BY <1>2, <2>2, <2>3
  <2>4. CASE queue' = <<>>
    BY <1>2, <2>2, <2>4
  <2>5. CASE queue # <<>> /\ queue' = Tail(queue)
    BY <1>2, <2>2, <2>5, QueueMoves
  <2>6. QED
    BY <2>1, <2>3, <2>4, <2>5
<1>4. state' \in {state, world} /\ last' \in {last, "ready"} /\ failed' \in {failed, FALSE}
  BY DEF Offer, ClaimedEnds, DropRefresh, NestedReads, NestedEnds, Recapture, RecaptureRaises
<1>5. home' \in HomeSteps /\ dirty' \in BOOLEAN
  BY DEF Offer, ClaimedEnds, DropRefresh, NestedReads, NestedEnds, Recapture, RecaptureRaises, HomeFits, HomeTyped,
         HomeSteps
<1>6. painted' \in {painted, [at |-> OtherPage, mark |-> "nested"], [at |-> state, mark |-> "interim"]}
  BY DEF Offer, ClaimedEnds, DropRefresh, NestedReads, NestedEnds, Recapture, RecaptureRaises
<1>7. acted' \in {acted, [seen |-> key.seen, at |-> state]}
  BY DEF Offer, ClaimedEnds, DropRefresh, NestedReads, NestedEnds, Recapture, RecaptureRaises
<1>8. failures' = failures \/ (failures < MaxBadCaptures /\ failures' = failures + 1)
  BY DEF Offer, ClaimedEnds, DropRefresh, NestedReads, NestedEnds, Recapture, RecaptureRaises
<1>9. world' + AKeyActs' <= world + AKeyActs /\ world' \in Nat
  <2>1. CASE Offer
    BY <1>2, <2>1 DEF Offer, AKeyActs
  <2>2. CASE ClaimedEnds
    <3>1. world' = world \/ world' = world + 1
      BY <2>2 DEF ClaimedEnds
    <3>2. home' \in {"top", "recapture", "drop"} /\ home = "claimed"
      BY <2>2 DEF ClaimedEnds
    <3>3. AKeyActs = 1
      BY <3>2 DEF AKeyActs
    <3>4. AKeyActs' = 0
      BY <3>2 DEF AKeyActs
    <3>5. CASE world' = world
      BY <1>2, <3>3, <3>4, <3>5
    <3>6. CASE world' = world + 1
      BY <1>2, <3>3, <3>4, <3>6
    <3>7. QED
      BY <3>1, <3>5, <3>6
  <2>3. CASE DropRefresh
    BY <1>2, <2>3 DEF DropRefresh, AKeyActs
  <2>4. CASE NestedReads
    BY <1>2, <2>4 DEF NestedReads, AKeyActs
  <2>5. CASE NestedEnds
    <3>1. world' = world \/ world' = world + 1
      BY <2>5 DEF NestedEnds
    <3>2. home' \in {"top", "recapture", "drop"} /\ home = "nested"
      BY <2>5 DEF NestedEnds
    <3>3. AKeyActs = 1
      BY <3>2 DEF AKeyActs
    <3>4. AKeyActs' = 0
      BY <3>2 DEF AKeyActs
    <3>5. CASE world' = world
      BY <1>2, <3>3, <3>4, <3>5
    <3>6. CASE world' = world + 1
      BY <1>2, <3>3, <3>4, <3>6
    <3>7. QED
      BY <3>1, <3>5, <3>6
  <2>6. CASE Recapture
    BY <1>2, <2>6 DEF Recapture, AKeyActs
  <2>7. CASE RecaptureRaises
    BY <1>2, <2>7 DEF RecaptureRaises, AKeyActs
  <2>8. QED
    BY <2>1, <2>2, <2>3, <2>4, <2>5, <2>6, <2>7
<1>10. WorldIsEarned'
  <2>1. AKeyActs \in {0, 1} /\ AKeyActs' \in {0, 1}
    BY DEF AKeyActs
  <2>2. world + Len(queue) + AKeyActs <= pressed + 1
    BY DEF HomeFits, WorldIsEarned
  <2>3. world' + Len(queue') + AKeyActs' <= pressed + 1
    <3> DEFINE w == world' k == AKeyActs' n == Len(queue')
    <3>1. w \in Nat /\ k \in Nat /\ n \in Nat /\ w + k <= world + AKeyActs /\ n <= Len(queue)
      BY <1>3, <1>9, <2>1
    <3> HIDE DEF w, k, n
    <3>2. w + n + k <= pressed + 1
      BY <1>2, <2>1, <2>2, <3>1
    <3>3. QED
      BY <3>2 DEF w, k, n
  <2>4. QED
    BY <1>1, <2>3 DEF WorldIsEarned
<1>11. failures' \in 0 .. MaxBadCaptures
  BY <1>8, KeysAssumption DEF HomeFits, HomeTyped
<1>12. /\ state' \in Versions /\ last' \in {"ready", "raised"} /\ failed' \in BOOLEAN
  BY <1>2, <1>4 DEF HomeFits, HomeTyped
<1>13. /\ painted' \in [at : Seen,
                       mark : {"live", "refreshing", "failed", "finishing", "interim", "quit", "nested"}]
  <2>1. state \in Seen
    BY <1>2 DEF HomeFits, HomeTyped
  <2>2. QED
    BY <1>2, <1>6, <2>1 DEF HomeFits, HomeTyped
<1>14. acted' \in [seen : Seen, at : Versions]
  BY <1>7 DEF HomeFits, HomeTyped
<1>15. HomeTyped'
  BY <1>1, <1>3, <1>5, <1>11, <1>12, <1>13, <1>14 DEF HomeFits, HomeTyped
<1>16. QED
  BY <1>10, <1>15

LEMMA HomeFitsPressed ==
  ASSUME HomeFits, (\E k \in Keys : PressHome(k)) \/ UNCHANGED homeVars PROVE HomeTyped' /\ WorldIsEarned'
<1>1. CASE UNCHANGED homeVars
  BY <1>1 DEF homeVars, HomeFits, HomeTyped, WorldIsEarned, AKeyActs
<1>2. ASSUME NEW k \in Keys, PressHome(k) PROVE HomeTyped' /\ WorldIsEarned'
  <2>1. /\ UNCHANGED <<mode, home, key, world, state, failed, last, dirty, painted, emitted, acted, failures>>
        /\ pressed' = pressed + 1 /\ pressed < MaxKeys /\ AKeyActs' = AKeyActs
    BY <1>2 DEF PressHome, AKeyActs
  <2>2. queue' \in Seq(KeysTyped) /\ Len(queue') = Len(queue) + 1
    BY <1>2, QueueMoves DEF PressHome
  <2>3. pressed' \in 0 .. MaxKeys
    BY <2>1, KeysAssumption DEF HomeFits, HomeTyped
  <2>4. WorldIsEarned'
    BY <2>1, <2>2, HomeBounds DEF HomeFits, WorldIsEarned, AKeyActs, Versions
  <2>5. QED
    BY <2>1, <2>2, <2>3, <2>4 DEF HomeFits, HomeTyped
<1>3. QED
  BY <1>1, <1>2

LEMMA HomeFitsGoesOn == HomeFits /\ [HomeNext]_homeVars => HomeFits'
<1> SUFFICES ASSUME HomeFits, [HomeNext]_homeVars PROVE HomeFits'
  OBVIOUS
<1>1. HomeInv'
  BY HomeGoesOn DEF HomeFits
<1>2. HomeTyped' /\ WorldIsEarned'
  BY HomeFitsCapture, HomeFitsLoading, HomeFitsLoop, HomeFitsActs, HomeFitsPressed DEF HomeNext, MainStep
<1>3. QED
  BY <1>1, <1>2 DEF HomeFits

-----------------------------------------------------------------------------
(* The cursor: the stack of frames is typed by the view that is open.       *)
CursorFits ==
  /\ CursorInv /\ view \in Views /\ matches \in 0 .. MaxMatches
  /\ view = "closed" => back = <<>>

LEMMA CursorFitsStarts == CursorInit \/ CursorAtRest => CursorFits
<1>1. 0 \in 0 .. MaxMatches
  BY CursorAssumption
<1>2. ASSUME CursorInit PROVE CursorFits
  BY <1>1, <1>2, CursorStarts DEF CursorInit, CursorFits, Views
<1>3. ASSUME CursorAtRest PROVE CursorFits
  <2>1. layout \in Layouts /\ catalog \in Catalogs
    BY <1>3, RestAssumption DEF CursorAtRest
  <2>2. RowCount(layout) \in Nat \ {0}
    BY <2>1, RowsAre
  <2>3. RowsFit
    BY <1>3, <2>1, <2>2 DEF CursorAtRest, RowsFit
  <2>4. PickFits /\ OneFramePerView
    BY <1>3 DEF CursorAtRest, PickFits, OneFramePerView
  <2>5. QED
    BY <1>1, <1>3, <2>3, <2>4 DEF CursorAtRest, CursorFits, CursorInv, Views
<1>4. QED
  BY <1>2, <1>3

LEMMA CursorFitsGoesOn == CursorFits /\ [CursorNext]_cursorVars => CursorFits'
<1> SUFFICES ASSUME CursorFits, [CursorNext]_cursorVars PROVE CursorFits'
  OBVIOUS
<1>1. CursorInv'
  BY CursorSteps DEF CursorFits
<1>2. CASE CaptureLands \/ MoveVertical \/ MoveSideways \/ UNCHANGED cursorVars
  BY <1>1, <1>2 DEF CaptureLands, MoveVertical, MoveSideways, cursorVars, CursorFits
<1>3. CASE PressEnter \/ PressDigit \/ PressLetter \/ PressHelp \/ PressSlash \/ PressBackspace \/ PressQuit
  <2>1. view' \in Views
    BY <1>3 DEF PressEnter, PressDigit, PressLetter, PressHelp, PressSlash, PressBackspace, PressQuit,
                OpenShelf, OpenNothingElse, CursorFits, Views
  <2>2. matches' \in {matches, 0}
    BY <1>3 DEF PressEnter, PressDigit, PressLetter, PressHelp, PressSlash, PressBackspace, PressQuit,
                OpenShelf, OpenNothingElse
  <2>3. view' = "closed" => view = "home" /\ back' = back
    BY <1>3 DEF PressEnter, PressDigit, PressLetter, PressHelp, PressSlash, PressBackspace, PressQuit,
                OpenShelf, OpenNothingElse
  <2>4. view = "home" => back = <<>>
    BY DEF CursorFits, CursorInv, OneFramePerView
  <2>5. QED
    BY <1>1, <2>1, <2>2, <2>3, <2>4, CursorAssumption DEF CursorFits
<1>4. CASE \/ AsideEnds \/ JobEnds \/ ShellsOut \/ MenuMove \/ MenuOpen \/ MenuLeave \/ FilterType
           \/ FilterMove \/ FilterOpen \/ FilterLeave
  <2>1. view' \in Views \ {"closed"}
    BY <1>4 DEF AsideEnds, JobEnds, ShellsOut, MenuMove, MenuOpen, MenuLeave, FilterType, FilterMove,
                FilterOpen, FilterLeave, ReturnHome, CursorFits, Views
  <2>2. matches' = matches \/ matches' \in 0 .. MaxMatches
    BY <1>4 DEF AsideEnds, JobEnds, ShellsOut, MenuMove, MenuOpen, MenuLeave, FilterType, FilterMove,
                FilterOpen, FilterLeave, ReturnHome
  <2>3. QED
    BY <1>1, <2>1, <2>2 DEF CursorFits
<1>5. QED
  BY <1>2, <1>3, <1>4 DEF CursorNext

LEMMA CursorTypes == CursorFits => CursorTypeOK
<1> SUFFICES ASSUME CursorFits PROVE CursorTypeOK
  OBVIOUS
<1>1. layout \in Layouts /\ catalog \in Catalogs /\ selected \in 0 .. RowCount(layout) - 1 /\ pick \in Nat
  BY DEF CursorFits, CursorInv, RowsFit, PickFits
<1>2. RowCount(layout) \in Nat
  BY <1>1, RowsAre
<1>3. back = <<>> \/ back = <<selected>>
  BY DEF CursorFits, CursorInv, OneFramePerView, Views
<1>4. back \in Seq(Nat)
  <2>1. selected \in Nat
    BY <1>1, <1>2
  <2>2. <<selected>> \in Seq(Nat) /\ <<>> \in Seq(Nat)
    BY <2>1
  <2>3. QED
    BY <1>3, <2>2
<1>5. QED
  BY <1>1, <1>4 DEF CursorTypeOK, CursorFits

-----------------------------------------------------------------------------
(* Doctor: the reports are counted, one for each fix that has ended and one *)
(* for each refresh, and no choice is of a report to come.                  *)
Unfinished == IF doctor = "running" THEN 1 ELSE 0
DoctorCounts ==
  /\ focus \in Focuses /\ attempts \in 0 .. MaxRuns /\ serial >= 1 /\ Unfinished <= attempts
  /\ chosen \in 0 .. serial /\ serial + Unfinished <= MaxRuns + 1 + attempts

DoctorFits == DoctorInv /\ DoctorCounts

LEMMA DoctorFitsStarts == DoctorInit => DoctorFits
<1> SUFFICES ASSUME DoctorInit PROVE DoctorFits
  OBVIOUS
<1>1. DoctorInv
  BY DoctorStarts
<1>2. Unfinished = 0
  BY DEF DoctorInit, Unfinished
<1>3. QED
  BY <1>1, <1>2, RunsAssumption DEF DoctorInit, DoctorFits, DoctorCounts

LEMMA DoctorFitsGoesOn == DoctorFits /\ [DoctorNext]_doctorVars => DoctorFits'
<1> SUFFICES ASSUME DoctorFits, [DoctorNext]_doctorVars PROVE DoctorFits'
  OBVIOUS
<1>1. DoctorInv'
  BY DoctorGoesOn DEF DoctorFits
<1>2. /\ serial \in Nat /\ attempts \in Nat /\ MaxRuns \in Nat /\ chosen \in 0 .. serial
      /\ attempts \in 0 .. MaxRuns /\ serial >= 1
      /\ serial + Unfinished <= MaxRuns + 1 + attempts /\ Unfinished <= attempts
  BY RunsAssumption DEF DoctorFits, DoctorInv, DoctorTyped, DoctorCounts
<1>3. focus' \in Focuses
  BY DEF DoctorFits, DoctorCounts, DoctorNext, Place, Move, RunSelected, RunNumbered, Run, RefreshReport, FixEnds,
         FixEndsSession, CapabilityMissing, CloseDoctor, doctorVars
<1>4. CASE Place \/ Move \/ CloseDoctor \/ UNCHANGED doctorVars
  <2>1. UNCHANGED <<serial, attempts>> /\ chosen' \in {chosen, serial} /\ Unfinished' = Unfinished
    BY <1>4 DEF Place, Move, Choose, CloseDoctor, doctorVars, Unfinished
  <2>2. DoctorCounts'
    BY <1>2, <1>3, <2>1 DEF DoctorCounts
  <2>3. QED
    BY <1>1, <2>2 DEF DoctorFits
<1>5. CASE RunSelected \/ RunNumbered
  <2>1. /\ serial' = serial /\ attempts' = attempts + 1 /\ attempts < MaxRuns /\ chosen' \in {chosen, serial}
        /\ doctor = "keys" /\ doctor' = "running"
    BY <1>5 DEF RunSelected, RunNumbered, Run, Choose
  <2>2. Unfinished = 0 /\ Unfinished' = 1
    BY <2>1 DEF Unfinished
  <2>3. DoctorCounts'
    BY <1>2, <1>3, <2>1, <2>2 DEF DoctorCounts
  <2>4. QED
    BY <1>1, <2>3 DEF DoctorFits
<1>6. CASE RefreshReport
  <2>1. /\ UNCHANGED <<attempts, chosen>>
        /\ serial' = serial \/ (serial' = serial + 1 /\ serial < MaxRuns + 1)
        /\ doctor = "keys" /\ doctor' \in {"top", "closed"}
    BY <1>6 DEF RefreshReport
  <2>2. Unfinished = 0 /\ Unfinished' = 0
    BY <2>1 DEF Unfinished
  <2>3. DoctorCounts'
    BY <1>2, <1>3, <2>1, <2>2 DEF DoctorCounts
  <2>4. QED
    BY <1>1, <2>3 DEF DoctorFits
<1>7. CASE FixEnds \/ FixEndsSession \/ CapabilityMissing
  <2>1. /\ UNCHANGED <<attempts, chosen>> /\ (serial' = serial \/ serial' = serial + 1)
        /\ doctor = "running" /\ doctor' \in {"top", "closed"}
    BY <1>7 DEF FixEnds, FixEndsSession, CapabilityMissing
  <2>2. Unfinished = 1 /\ Unfinished' = 0
    BY <2>1 DEF Unfinished
  <2>3. DoctorCounts'
    BY <1>2, <1>3, <2>1, <2>2 DEF DoctorCounts
  <2>4. QED
    BY <1>1, <2>3 DEF DoctorFits
<1>8. QED
  BY <1>4, <1>5, <1>6, <1>7 DEF DoctorNext

LEMMA DoctorTypes == DoctorFits => DoctorTypeOK
<1> SUFFICES ASSUME DoctorFits PROVE DoctorTypeOK
  OBVIOUS
<1>1. DoctorTyped /\ DoctorCursorFits /\ DoctorCounts /\ MaxRuns \in Nat
  BY RunsAssumption DEF DoctorFits, DoctorInv
<1>2. serial \in 1 .. 2 * MaxRuns + 1
  <2>1. Unfinished \in {0, 1}
    BY DEF Unfinished
  <2>2. QED
    BY <1>1, <2>1 DEF DoctorTyped, DoctorCounts
<1>3. doctor = "keys" /\ Runnable(snap) # <<>> => sel \in DOMAIN Runnable(snap)
  BY <1>1 DEF DoctorCursorFits, OnTheChosen
<1>4. QED
  BY <1>1, <1>2, <1>3 DEF DoctorTypeOK, DoctorTyped, DoctorCounts

-----------------------------------------------------------------------------
(* The viewport: nothing it counts falls below nothing, and what it keeps   *)
(* of the console is a height there was.                                    *)
ViewCounts ==
  /\ attached \in BOOLEAN /\ winch \in BOOLEAN /\ fresh \in BOOLEAN /\ manual \in BOOLEAN
  /\ again \in BOOLEAN /\ drawer \in {"main", "handler"}
  /\ console \in {0} \cup Heights /\ kept \subseteq Heights
  /\ offset \in Nat /\ rows \in Nat /\ body \in Nat /\ draws \in 0 .. MaxDraws

ViewFits == ViewInv /\ ViewCounts

LEMMA ViewFitsStarts == ViewInit => ViewFits
<1> SUFFICES ASSUME ViewInit PROVE ViewFits
  OBVIOUS
<1>1. ViewInv
  BY ViewStarts
<1>2. /\ attached = TRUE /\ winch = FALSE /\ fresh = FALSE /\ manual = FALSE /\ again = FALSE
      /\ drawer = "main" /\ console \in {0} \cup Heights /\ kept = {} /\ offset = 0 /\ rows = 0
      /\ body = 0 /\ draws = 0
  BY DEF ViewInit
<1>3. 0 \in 0 .. MaxDraws
  BY DrawsAssumption
<1>4. ViewCounts
  BY <1>2, <1>3 DEF ViewCounts
<1>5. QED
  BY <1>1, <1>4 DEF ViewFits

LEMMA DrawnManual == ASSUME NEW s, NEW h PROVE Drawn(s, h).manual \in BOOLEAN
BY DEF Drawn

LEMMA ClampedFromZero == ASSUME NEW x \in Int, NEW high \in Int PROVE Clamped(x, 0, high) \in Nat
BY DEF Clamped

(* What counts a step, a resize or a scroll.                                *)
LEMMA ViewFitsReader ==
  ASSUME ViewFits,
         \/ \E s \in Sheets : Update(s)
         \/ MarkFresh \/ Scroll \/ SetOffset \/ MarkManual \/ Detach
         \/ \E h \in Heights : Resize(h)
  PROVE  ViewCounts'
<1>1. draws' \in 0 .. MaxDraws
  <2>1. draws' = draws \/ (draws < MaxDraws /\ draws' = draws + 1)
    BY DEF Update, MarkFresh, Scroll, SetOffset, MarkManual, Detach, Resize
  <2>2. QED
    BY <2>1, DrawsAssumption DEF ViewFits, ViewCounts
<1>2. offset' \in Nat
  <2>1. UNCHANGED offset \/ SetOffset
    BY DEF Update, MarkFresh, Scroll, MarkManual, Detach, Resize, pageVars
  <2>2. SetOffset => offset' \in Nat
    <3>1. aim \in Int /\ body - rows \in Int
      BY DEF ViewFits, ViewInv, ViewTyped
    <3>2. QED
      BY <3>1, ClampedFromZero DEF SetOffset
  <2>3. QED
    BY <2>1, <2>2 DEF ViewFits, ViewCounts
<1>3. console' \in {0} \cup Heights /\ kept' \subseteq Heights
  <2>1. UNCHANGED <<console, kept>> \/ Detach
    BY DEF Update, MarkFresh, Scroll, SetOffset, MarkManual, Resize, pageVars
  <2>2. ASSUME Detach PROVE console' \in {0} \cup Heights /\ kept' \subseteq Heights
    <3>1. kept # {} => (CHOOSE k \in kept : TRUE) \in kept
      OBVIOUS
    <3>2. QED
      BY <2>2, <3>1 DEF Detach, ViewFits, ViewCounts
  <2>3. QED
    BY <2>1, <2>2 DEF ViewFits, ViewCounts
<1>4. /\ attached' \in {attached, FALSE} /\ winch' \in {winch, attached} /\ fresh' \in {fresh, TRUE}
      /\ manual' \in {manual, TRUE} /\ UNCHANGED <<again, drawer, rows, body>>
  BY DEF Update, MarkFresh, Scroll, SetOffset, MarkManual, Detach, Resize, pageVars
<1>5. QED
  BY <1>1, <1>2, <1>3, <1>4 DEF ViewFits, ViewCounts

LEMMA ViewFitsDrawing ==
  ASSUME ViewFits,
         Interrupt \/ HandlerDraws \/ MainDraws \/ BeginPass \/ Measure \/ PaintSheet \/ CheckAgain \/ EndDraw
  PROVE  ViewCounts'
<1>1. CASE PaintSheet
  <2>1. sheet \in Sheets /\ measured \in Heights /\ offset \in Int /\ offset \in Nat
    BY <1>1 DEF PaintSheet, ViewFits, ViewInv, ViewTyped, ViewCounts
  <2>2. /\ offset' \in Nat /\ rows' \in Nat /\ body' \in Nat /\ manual' \in BOOLEAN /\ fresh' \in BOOLEAN
    <3>1. PICK d \in {Drawn(sheet, measured)} :
            offset' = d.offset /\ manual' = d.manual /\ rows' = d.rows /\ body' = d.body
      BY <1>1 DEF PaintSheet
    <3>2. d = Drawn(sheet, measured)
      OBVIOUS
    <3>3. /\ Drawn(sheet, measured).offset \in Nat /\ Drawn(sheet, measured).rows \in Nat
          /\ Drawn(sheet, measured).body \in Nat
      BY <2>1, DrawnSound
    <3>4. Drawn(sheet, measured).manual \in BOOLEAN
      BY DrawnManual
    <3>5. fresh' = FALSE
      BY <1>1 DEF PaintSheet
    <3>6. QED
      BY <3>1, <3>2, <3>3, <3>4, <3>5
  <2>3. UNCHANGED <<attached, drawer, winch, console, kept, again, draws>>
    BY <1>1 DEF PaintSheet
  <2>4. QED
    BY <2>2, <2>3 DEF ViewFits, ViewCounts
<1>2. CASE Measure
  <2>1. height \in Heights
    BY DEF ViewFits, ViewInv, ViewTyped
  <2>2. console' \in {0} \cup Heights /\ kept' \subseteq Heights
    BY <1>2, <2>1 DEF Measure, ViewFits, ViewCounts
  <2>3. UNCHANGED <<attached, drawer, winch, again, draws, fresh, manual, offset, rows, body>>
    BY <1>2 DEF Measure, pageVars
  <2>4. QED
    BY <2>2, <2>3 DEF ViewFits, ViewCounts
<1>3. CASE Interrupt \/ HandlerDraws \/ MainDraws \/ BeginPass \/ CheckAgain \/ EndDraw
  <2>1. /\ UNCHANGED <<attached, console, kept, draws, fresh, manual, offset, rows, body>>
        /\ winch' \in {winch, FALSE} /\ again' \in {again, TRUE, FALSE}
        /\ drawer' \in {drawer, "main", "handler"}
    BY <1>3 DEF Interrupt, HandlerDraws, MainDraws, BeginPass, CheckAgain, EndDraw, pageVars
  <2>2. QED
    BY <2>1 DEF ViewFits, ViewCounts
<1>4. QED
  BY <1>1, <1>2, <1>3

LEMMA ViewFitsGoesOn == ViewFits /\ [ViewNext]_viewVars => ViewFits'
<1> SUFFICES ASSUME ViewFits, [ViewNext]_viewVars PROVE ViewFits'
  OBVIOUS
<1>1. ViewInv'
  BY ViewGoesOn DEF ViewFits
<1>2. UNCHANGED viewVars => ViewCounts'
  BY DEF viewVars, ViewFits, ViewCounts
<1>3. QED
  BY <1>1, <1>2, ViewFitsReader, ViewFitsDrawing DEF ViewNext, ViewFits

LEMMA ViewTypes == ViewFits => ViewTypeOK
BY DEF ViewFits, ViewInv, ViewTyped, ViewCounts, ViewTypeOK

-----------------------------------------------------------------------------
(* Credentials: a token is issued at most once for each call, so every      *)
(* serial number is one there may be.                                       *)
WaitSteps == {"load", "lock", "reload", "refresh"}
WaitingCalls == {r \in Resolvers : call[r].step \in WaitSteps}
TokenCounts ==
  /\ issued >= 1 /\ lapsed <= issued /\ resolves \in 0 .. MaxResolves
  /\ issued + Cardinality(WaitingCalls) <= resolves + 1

TokenFits == TokenInv /\ TokenCounts

LEMMA WaitingCounted ==
  ASSUME NEW W, W \subseteq Resolvers
  PROVE  /\ IsFiniteSet(W) /\ Cardinality(W) \in Nat
         /\ \A V : V \subseteq W => Cardinality(V) <= Cardinality(W)
         /\ \A r : r \in W => Cardinality(W \ {r}) = Cardinality(W) - 1
         /\ \A r : r \notin W => Cardinality(W \cup {r}) = Cardinality(W) + 1
BY ResolversAssumption, FS_Subset, FS_CardinalityType, FS_RemoveElement, FS_AddElement

LEMMA TokenFitsStarts == TokenInit => TokenFits
<1> SUFFICES ASSUME TokenInit PROVE TokenFits
  OBVIOUS
<1>1. TokenInv
  BY TokenInvInit
<1>2. WaitingCalls = {}
  <2>1. \A r \in Resolvers : call[r] = NoCall
    BY DEF TokenInit
  <2>2. NoCall.step = "idle"
    BY DEF NoCall
  <2>3. QED
    BY <2>1, <2>2 DEF WaitingCalls, WaitSteps
<1>3. TokenCounts
  BY <1>2, FS_EmptySet, ResolversAssumption DEF TokenInit, TokenCounts
<1>4. QED
  BY <1>1, <1>3 DEF TokenFits

(* A step of one process changes its own call, and takes it no further back *)
(* than it was.                                                             *)
LEMMA OneCallSteps ==
  ASSUME TokenInv, NEW r \in Resolvers, ResolverStep(r) \/ Dies(r)
  PROVE  /\ WaitingCalls' \subseteq WaitingCalls /\ UNCHANGED <<lapsed, resolves>>
         /\ \/ UNCHANGED issued
            \/ issued' = issued + 1 /\ r \in WaitingCalls /\ r \notin WaitingCalls'
<1>1. call \in [Resolvers -> Calls]
  BY DEF TokenInv, CallsTyped
<1>2. ASSUME NEW step, NEW c, call' = [call EXCEPT ![r] = c], c.step = step,
             step \in WaitSteps => call[r].step \in WaitSteps
      PROVE  WaitingCalls' \subseteq WaitingCalls /\ (step \notin WaitSteps => r \notin WaitingCalls')
  <2>1. \A s \in Resolvers : call'[s] = IF s = r THEN c ELSE call[s]
    BY <1>1, <1>2
  <2>2. QED
    BY <1>2, <2>1 DEF WaitingCalls
<1>3. ASSUME NEW o, Ends(r, o) PROVE WaitingCalls' \subseteq WaitingCalls
  <2>1. call' = [call EXCEPT ![r] = [call[r] EXCEPT !.step = "idle", !.outcome = o]]
    BY <1>3 DEF Ends
  <2>2. [call[r] EXCEPT !.step = "idle", !.outcome = o].step = "idle"
    BY <1>1 DEF Calls
  <2>3. QED
    BY <1>2, <2>1, <2>2 DEF WaitSteps
<1>4. ASSUME NEW step, Goes(r, step), step \in WaitSteps => call[r].step \in WaitSteps
      PROVE  WaitingCalls' \subseteq WaitingCalls
  <2>1. call' = [call EXCEPT ![r] = [call[r] EXCEPT !.step = step]]
    BY <1>4 DEF Goes
  <2>2. [call[r] EXCEPT !.step = step].step = step
    BY <1>1 DEF Calls
  <2>3. QED
    BY <1>2, <1>4, <2>1, <2>2
<1>5. ASSUME NEW number, call' = [call EXCEPT ![r].step = "idle", ![r].outcome = "token", ![r].serial = number]
      PROVE  WaitingCalls' \subseteq WaitingCalls
  <2>1. call' = [call EXCEPT ![r] = [call[r] EXCEPT !.step = "idle", !.outcome = "token", !.serial = number]]
    BY <1>5
  <2>2. [call[r] EXCEPT !.step = "idle", !.outcome = "token", !.serial = number].step = "idle"
    BY <1>1 DEF Calls
  <2>3. QED
    BY <1>2, <2>1, <2>2 DEF WaitSteps
<1>6. CASE RefreshToken(r)
  <2>1. call' = [call EXCEPT ![r] = [call[r] EXCEPT !.step = "save", !.serial = issued + 1]]
    BY <1>6 DEF RefreshToken
  <2>2. [call[r] EXCEPT !.step = "save", !.serial = issued + 1].step = "save"
    BY <1>1 DEF Calls
  <2>3. WaitingCalls' \subseteq WaitingCalls /\ r \notin WaitingCalls'
    BY <1>2, <2>1, <2>2 DEF WaitSteps
  <2>4. r \in WaitingCalls
    BY <1>6 DEF RefreshToken, At, WaitingCalls, WaitSteps
  <2>5. QED
    BY <1>6, <2>3, <2>4 DEF RefreshToken
<1>7. CASE Dies(r)
  <2>1. NoCall.step = "idle" /\ call' = [call EXCEPT ![r] = NoCall]
    BY <1>7 DEF NoCall, Dies
  <2>2. QED
    BY <1>2, <1>7, <2>1 DEF Dies, WaitSteps
<1>8. CASE UseStored(r)
  <2>1. call[r].step \in WaitSteps
    BY <1>8 DEF UseStored, At, WaitSteps
  <2>2. QED
    BY <1>3, <1>4, <1>5, <1>8, <2>1 DEF UseStored
<1>9. CASE TakeLock(r) \/ Reload(r)
  <2>1. call[r].step \in WaitSteps
    BY <1>9 DEF TakeLock, Reload, At, WaitSteps
  <2>2. QED
    BY <1>4, <1>5, <1>9, <2>1 DEF TakeLock, Reload
<1>10. CASE Given(r) \/ NoStored(r) \/ LockTimesOut(r) \/ RefreshFails(r) \/ Save(r) \/ SaveFails(r)
  BY <1>3, <1>10 DEF Given, NoStored, LockTimesOut, RefreshFails, Save, SaveFails
<1>11. QED
  BY <1>6, <1>7, <1>8, <1>9, <1>10 DEF ResolverStep

LEMMA TokenFitsGoesOn == TokenFits /\ [TokenNext]_tokenVars => TokenFits'
<1> SUFFICES ASSUME TokenFits, [TokenNext]_tokenVars PROVE TokenCounts'
  BY TokenInvStep DEF TokenFits
<1>1. /\ TokenInv /\ issued \in Nat /\ lapsed \in Nat /\ issued >= 1 /\ lapsed <= issued
      /\ resolves \in Nat /\ resolves <= MaxResolves /\ MaxResolves \in Nat
      /\ WaitingCalls \subseteq Resolvers /\ Cardinality(WaitingCalls) \in Nat
      /\ issued + Cardinality(WaitingCalls) <= resolves + 1
  BY ResolversAssumption, WaitingCounted DEF TokenFits, TokenInv, CallsTyped, TokenCounts, WaitingCalls
<1>2. WaitingCalls' \subseteq Resolvers /\ Cardinality(WaitingCalls') \in Nat
  <2>1. WaitingCalls' \subseteq Resolvers
    BY DEF WaitingCalls
  <2>2. QED
    BY <2>1, WaitingCounted
<1>3. ASSUME NEW r \in Resolvers, ResolverStep(r) \/ Dies(r) PROVE TokenCounts'
  <2>1. /\ WaitingCalls' \subseteq WaitingCalls /\ UNCHANGED <<lapsed, resolves>>
        /\ \/ UNCHANGED issued
           \/ issued' = issued + 1 /\ r \in WaitingCalls /\ r \notin WaitingCalls'
    BY <1>1, <1>3, OneCallSteps
  <2>2. Cardinality(WaitingCalls') <= Cardinality(WaitingCalls)
    BY <1>1, <2>1, WaitingCounted
  <2>3. CASE UNCHANGED issued
    <3>1. issued' + Cardinality(WaitingCalls') <= resolves' + 1
      BY <1>1, <1>2, <2>1, <2>2, <2>3
    <3>2. QED
      BY <1>1, <2>1, <2>3, <3>1 DEF TokenCounts
  <2>4. CASE issued' = issued + 1 /\ r \in WaitingCalls /\ r \notin WaitingCalls'
    <3>1. WaitingCalls' \subseteq WaitingCalls \ {r} /\ WaitingCalls \ {r} \subseteq Resolvers
      BY <1>1, <2>1, <2>4
    <3>2. Cardinality(WaitingCalls') <= Cardinality(WaitingCalls \ {r})
      BY <3>1, WaitingCounted
    <3>3. Cardinality(WaitingCalls \ {r}) = Cardinality(WaitingCalls) - 1
      BY <1>1, <2>4, WaitingCounted
    <3>4. issued' + Cardinality(WaitingCalls') <= resolves' + 1
      BY <1>1, <1>2, <2>1, <2>4, <3>2, <3>3
    <3>5. QED
      BY <1>1, <2>1, <2>4, <3>4 DEF TokenCounts
  <2>5. QED
    BY <2>1, <2>3, <2>4
<1>4. ASSUME NEW r \in Resolvers, NEW s \in Specs, Begin(r, s) PROVE TokenCounts'
  <2>1. UNCHANGED <<issued, lapsed>> /\ resolves' = resolves + 1 /\ resolves < MaxResolves
    BY <1>4 DEF Begin
  <2>2. WaitingCalls' \subseteq WaitingCalls \cup {r}
    <3>1. call \in [Resolvers -> Calls]
      BY <1>1 DEF TokenInv, CallsTyped
    <3>2. \A u \in Resolvers : u # r => call'[u] = call[u]
      BY <1>4, <3>1 DEF Begin
    <3>3. QED
      BY <3>2 DEF WaitingCalls
  <2>3. r \notin WaitingCalls /\ WaitingCalls \cup {r} \subseteq Resolvers
    BY <1>1, <1>4 DEF Begin, At, WaitingCalls, WaitSteps
  <2>4. Cardinality(WaitingCalls') <= Cardinality(WaitingCalls) + 1
    <3>1. Cardinality(WaitingCalls') <= Cardinality(WaitingCalls \cup {r})
      BY <2>2, <2>3, WaitingCounted
    <3>2. Cardinality(WaitingCalls \cup {r}) = Cardinality(WaitingCalls) + 1
      BY <1>1, <2>3, WaitingCounted
    <3>3. QED
      BY <3>1, <3>2
  <2>5. issued' + Cardinality(WaitingCalls') <= resolves' + 1
    BY <1>1, <1>2, <2>1, <2>4
  <2>6. QED
    BY <1>1, <2>1, <2>5 DEF TokenCounts
<1>5. CASE Expire \/ UNCHANGED tokenVars
  <2>1. UNCHANGED <<call, issued, resolves>> /\ (lapsed' = lapsed \/ lapsed' = issued)
    BY <1>5 DEF Expire, tokenVars
  <2>2. WaitingCalls' = WaitingCalls
    BY <2>1 DEF WaitingCalls
  <2>3. QED
    BY <1>1, <2>1, <2>2 DEF TokenCounts
<1>6. QED
  BY <1>3, <1>4, <1>5 DEF TokenNext

LEMMA TokenTypes == TokenFits => TokenTypeOK
<1> SUFFICES ASSUME TokenFits PROVE TokenTypeOK
  OBVIOUS
<1>1. \A r \in Resolvers : call[r].step \in ResolverSteps /\ call[r].outcome \in Outcomes
  BY DEF TokenFits, TokenInv, CallsTyped, Calls
<1>2. Cardinality(stored) <= 1
  <2>1. CASE stored = {}
    BY <2>1, FS_EmptySet
  <2>2. CASE stored # {}
    <3>1. PICK t : t \in stored
      BY <2>2
    <3>2. stored = {t}
      BY <3>1 DEF TokenFits, TokenInv, StoreIsOne
    <3>3. Cardinality({t}) = 1
      BY FS_Singleton
    <3>4. QED
      BY <3>2, <3>3
  <2>3. QED
    BY <2>1, <2>2
<1>3. /\ issued \in Nat /\ lapsed \in Nat /\ issued >= 1 /\ lapsed <= issued
      /\ resolves \in 0 .. MaxResolves /\ issued <= MaxResolves + 1 /\ MaxResolves \in Nat
  <2>1. Cardinality(WaitingCalls) \in Nat
    BY WaitingCounted DEF WaitingCalls
  <2>2. QED
    BY <2>1, ResolversAssumption DEF TokenFits, TokenInv, CallsTyped, TokenCounts
<1>4. QED
  BY <1>1, <1>2, <1>3 DEF TokenTypeOK, TokenFits, TokenInv, LockIsHeld

-----------------------------------------------------------------------------
(* Telemetry: the events are counted.                                       *)
TelemetryFits == TelemetryInv /\ reported \in 0 .. MaxEvents

LEMMA TelemetryFitsStarts == TelemetryInit => TelemetryFits
BY TelemetryStarts, EventsAssumption DEF TelemetryInit, TelemetryFits

LEMMA TelemetryFitsGoesOn == TelemetryFits /\ [TelemetryNext]_telemetryVars => TelemetryFits'
<1> SUFFICES ASSUME TelemetryFits, [TelemetryNext]_telemetryVars PROVE reported' \in 0 .. MaxEvents
  BY TelemetrySteps DEF TelemetryFits
<1>1. reported' = reported \/ (reported < MaxEvents /\ reported' = reported + 1)
  BY DEF TelemetryNext, Emit, EnterBuffer, Isolate, LeaveScope, JoinSession, StartSession, EndSession, telemetryVars
<1>2. QED
  BY <1>1, EventsAssumption DEF TelemetryFits

LEMMA TelemetryTypes == TelemetryFits => TelemetryTypeOK
<1> SUFFICES ASSUME TelemetryFits PROVE TelemetryTypeOK
  OBVIOUS
<1>1. TelemetryTyped /\ ContextsFit /\ reported \in 0 .. MaxEvents
  BY DEF TelemetryFits, TelemetryInv
<1>2. \A i \in DOMAIN scopes : scopes[i].kind \in ScopeKinds
  <2>1. scopes \in Seq(ScopeRecords)
    BY <1>1 DEF TelemetryTyped
  <2>2. \A i \in DOMAIN scopes : scopes[i] \in ScopeRecords
    BY <2>1
  <2>3. QED
    BY <2>2 DEF ScopeRecords
<1>3. bound \in 0 .. Len(lists) /\ inside \in 0 .. runs
  <2>1. Len(scopes) \in Nat
    BY <1>1 DEF TelemetryTyped
  <2>2. Len(scopes) + 1 \in Levels
    BY <2>1 DEF Levels
  <2>3. BoundAt(Len(scopes) + 1) = bound /\ InsideAt(Len(scopes) + 1) = inside
    BY <2>1 DEF BoundAt, InsideAt
  <2>4. QED
    BY <1>1, <2>2, <2>3 DEF ContextsFit
<1>4. QED
  BY <1>1, <1>2, <1>3 DEF TelemetryTypeOK, TelemetryTyped

-----------------------------------------------------------------------------
(* The audit sink: the count that a thread is about to write is of lines    *)
(* that have been written, whatever other threads count meanwhile.            *)
Counting == {t \in Threads : sink[t].step \in {"remember", "count"}}
EventsCount ==
  /\ \A i \in DOMAIN written : written[i] >= 1
  /\ \A t \in Threads : Writing(t) => sink[t].event >= 1
LinesCount ==
  /\ since + Cardinality(Counting) <= Len(written)
  /\ \A t \in Threads : sink[t].step = "count" => sink[t].count + Cardinality(Counting) <= Len(written)
SinkFlags ==
  /\ lock \subseteq Threads /\ quiet \in BOOLEAN /\ audited \in 0 .. MaxAudits /\ broken \in 0 .. MaxBroken
  /\ process \in {"up", "exiting", "flushed", "unflushed", "crashed"}

AuditFits == AuditInv /\ EventsCount /\ LinesCount /\ SinkFlags

LEMMA ThreadsCounted ==
  ASSUME NEW W, W \subseteq Threads
  PROVE  /\ IsFiniteSet(W) /\ Cardinality(W) \in Nat
         /\ \A V : V \subseteq W => Cardinality(V) <= Cardinality(W)
         /\ \A t : t \in W => Cardinality(W \ {t}) = Cardinality(W) - 1
         /\ \A t : t \notin W => Cardinality(W \cup {t}) = Cardinality(W) + 1
BY AuditsAssumption, FS_Subset, FS_CardinalityType, FS_RemoveElement, FS_AddElement

LEMMA SinkIs ==
  ASSUME AuditFits
  PROVE  /\ sink \in [Threads -> SinkCalls] /\ written \in Seq(Nat) /\ Len(written) \in Nat
         /\ disk \in Seq(Nat) /\ base \in Nat /\ DOMAIN written = 1 .. Len(written) /\ since \in Nat /\ audited \in Nat
         /\ Cardinality(Counting) \in Nat /\ Counting \subseteq Threads
         /\ \A t \in Threads : /\ sink[t] \in SinkCalls /\ sink[t].count \in Nat
                               /\ sink[t].event \in Nat
<1>1. SinkTyped
  BY DEF AuditFits, AuditInv
<1>2. Counting \subseteq Threads
  BY DEF Counting
<1>3. Cardinality(Counting) \in Nat
  BY <1>2, ThreadsCounted
<1>4. \A t \in Threads : sink[t] \in SinkCalls
  BY <1>1 DEF SinkTyped
<1>5. \A t \in Threads : sink[t].count \in Nat /\ sink[t].event \in Nat
  BY <1>4 DEF SinkCalls
<1>6. written \in Seq(Nat) /\ disk \in Seq(Nat) /\ base \in Nat
  BY <1>1 DEF SinkTyped
<1>7. Len(written) \in Nat /\ DOMAIN written = 1 .. Len(written)
  BY <1>6, LenProperties
<1>8. QED
  BY <1>1, <1>2, <1>3, <1>4, <1>5, <1>6, <1>7 DEF SinkTyped

LEMMA AuditFitsStarts == AuditInit => AuditFits
<1> SUFFICES ASSUME AuditInit PROVE AuditFits
  OBVIOUS
<1>1. AuditInv
  BY SinkStarts
<1>2. \A t \in Threads : sink[t].step = "idle"
  BY IdleTyped DEF AuditInit
<1>3. Cardinality(Counting) = 0
  <2>1. Counting = {}
    BY <1>2 DEF Counting
  <2>2. QED
    BY <2>1, FS_EmptySet
<1>4. Len(written) = 0 /\ DOMAIN written = {} /\ since = 0
  BY EmptySeq, LenProperties DEF AuditInit
<1>5. EventsCount /\ LinesCount
  BY <1>2, <1>3, <1>4 DEF EventsCount, LinesCount, Writing
<1>6. SinkFlags
  BY AuditsAssumption DEF AuditInit, SinkFlags
<1>7. QED
  BY <1>1, <1>5, <1>6 DEF AuditFits

LEMMA FlagsGoOn == AuditFits /\ [AuditNext]_auditVars => SinkFlags'
<1> SUFFICES ASSUME AuditFits, [AuditNext]_auditVars PROVE SinkFlags'
  OBVIOUS
<1>1. SinkFlags
  BY DEF AuditFits
<1>2. lock' \subseteq Threads
  <2>1. lock' = lock \/ lock' = {} \/ \E t \in Threads : lock' = {t}
    BY DEF AuditNext, Call, LockAndRead, LockAndMisread, Replace, ReplaceFails, Remember, Count, TakeBody, Upload, FlushEnds,
           FlushFails, Exit, Crash, auditVars
  <2>2. QED
    BY <1>1, <2>1 DEF SinkFlags
<1>3. quiet' \in BOOLEAN
  BY <1>1 DEF AuditNext, Call, LockAndRead, LockAndMisread, Replace, ReplaceFails, Remember, Count, TakeBody, Upload, FlushEnds,
           FlushFails, Exit, Crash, auditVars, SinkFlags
<1>4. audited' \in 0 .. MaxAudits
  <2>1. audited' = audited \/ (audited < MaxAudits /\ audited' = audited + 1)
    BY DEF AuditNext, Call, LockAndRead, LockAndMisread, Replace, ReplaceFails, Remember, Count, TakeBody, Upload, FlushEnds,
           FlushFails, Exit, Crash, auditVars
  <2>2. QED
    BY <1>1, <2>1, AuditsAssumption DEF SinkFlags
<1>5. broken' \in 0 .. MaxBroken
  <2>1. broken' = broken \/ (broken < MaxBroken /\ broken' = broken + 1)
    BY DEF AuditNext, Call, LockAndRead, LockAndMisread, Replace, ReplaceFails, Remember, Count, TakeBody, Upload, FlushEnds,
           FlushFails, Exit, Crash, auditVars
  <2>2. QED
    BY <1>1, <2>1, AuditsAssumption DEF SinkFlags
<1>6. process' \in {"up", "exiting", "flushed", "unflushed", "crashed"}
  <2>1. process' \in {process, "exiting", "flushed", "unflushed", "crashed"}
    BY DEF AuditNext, Call, LockAndRead, LockAndMisread, Replace, ReplaceFails, Remember, Count, TakeBody, Upload, FlushEnds,
           FlushFails, Exit, Crash, auditVars, Over
  <2>2. QED
    BY <1>1, <2>1 DEF SinkFlags
<1>7. QED
  BY <1>2, <1>3, <1>4, <1>5, <1>6 DEF SinkFlags

(* A thread that neither writes a line nor counts one.                      *)
LEMMA CountsStand ==
  ASSUME AuditFits, NEW t \in Threads, NEW c, SinkGoes(t, c), UNCHANGED written, since' \in {since, 0},
         c.step \notin {"remember", "count"},
         c.step \in {"append", "replace"} => c.event >= 1
  PROVE  EventsCount' /\ LinesCount'
<1>1. \A u \in Threads : sink'[u] = IF u = t THEN c ELSE sink[u]
  BY SinkIs DEF SinkGoes
<1>2. Counting' \subseteq Counting
  BY <1>1 DEF Counting
<1>3. Cardinality(Counting') <= Cardinality(Counting) /\ Cardinality(Counting') \in Nat
  <2>1. Counting' \subseteq Threads
    BY DEF Counting
  <2>2. QED
    BY <1>2, <2>1, SinkIs, ThreadsCounted
<1>4. EventsCount'
  BY <1>1 DEF AuditFits, EventsCount, Writing
<1>5. ASSUME NEW n \in Nat, n + Cardinality(Counting) <= Len(written) PROVE n + Cardinality(Counting') <= Len(written')
  <2>1. Cardinality(Counting) \in Nat /\ Len(written) \in Nat /\ written' = written
    BY SinkIs
  <2>2. n + Cardinality(Counting') <= Len(written)
    BY <1>3, <1>5, <2>1
  <2>3. QED
    BY <2>1, <2>2
<1>6. since' + Cardinality(Counting') <= Len(written')
  <2>1. since \in Nat /\ Cardinality(Counting) \in Nat /\ Len(written) \in Nat
    BY SinkIs
  <2>2. since + Cardinality(Counting) <= Len(written)
    BY DEF AuditFits, LinesCount
  <2>3. 0 + Cardinality(Counting) <= Len(written)
    BY <2>1, <2>2
  <2>4. QED
    BY <1>5, <2>1, <2>2, <2>3
<1>7. ASSUME NEW u \in Threads, sink'[u].step = "count"
      PROVE  sink'[u].count + Cardinality(Counting') <= Len(written')
  <2>1. u # t /\ sink'[u] = sink[u]
    BY <1>1, <1>7
  <2>2. sink[u].count \in Nat /\ sink[u].count + Cardinality(Counting) <= Len(written)
    BY <1>7, <2>1, SinkIs DEF AuditFits, LinesCount
  <2>3. QED
    BY <1>5, <2>1, <2>2
<1>8. QED
  BY <1>4, <1>6, <1>7 DEF LinesCount

(* The calls of the steps that neither write nor count.                     *)
LEMMA CountsStandIn ==
  ASSUME AuditFits, NEW t \in Threads,
         \/ \E o \in Objects : Call(t, o)
         \/ LockAndRead(t) \/ LockAndMisread(t) \/ ReplaceFails(t) \/ TakeBody(t) \/ Upload(t) \/ FlushEnds(t) \/ FlushFails(t)
  PROVE  EventsCount' /\ LinesCount'
<1>1. Idle \in SinkCalls /\ Idle.step = "idle" /\ sink[t] \in SinkCalls
  BY IdleTyped, SinkIs
<1>2. CASE \E o \in Objects : Call(t, o)
  <2>1. PICK o \in Objects : Call(t, o)
    BY <1>2
  <2> DEFINE c == [Idle EXCEPT !.step = "append", !.event = audited + 1, !.object = o]
  <2>2. c.step = "append" /\ c.event = audited + 1
    BY <1>1 DEF SinkCalls
  <2>3. SinkGoes(t, c) /\ UNCHANGED <<written, since>>
    BY <2>1 DEF Call
  <2>4. c.event >= 1
    BY <2>2, SinkIs
  <2> HIDE DEF c
  <2>5. QED
    BY <2>2, <2>3, <2>4, CountsStand
<1>3. CASE LockAndRead(t) \/ LockAndMisread(t)
  <2>1. PICK s, b : SinkGoes(t, [Step(t, "replace") EXCEPT !.read = s, !.from = b])
    BY <1>3 DEF LockAndRead, LockAndMisread
  <2> DEFINE c == [Step(t, "replace") EXCEPT !.read = s, !.from = b]
  <2>2. c.step = "replace" /\ c.event = sink[t].event
    BY <1>1 DEF SinkCalls, Step
  <2>3. SinkGoes(t, c) /\ UNCHANGED <<written, since>> /\ Writing(t)
    BY <1>3, <2>1 DEF LockAndRead, LockAndMisread, Writing
  <2>4. c.event >= 1
    BY <2>2, <2>3 DEF AuditFits, EventsCount
  <2> HIDE DEF c
  <2>5. QED
    BY <2>2, <2>3, <2>4, CountsStand
<1>4. CASE TakeBody(t)
  <2>1. PICK o \in sink[t].todo :
          SinkGoes(t, [Step(t, "upload") EXCEPT !.object = o, !.read = memory[o], !.todo = @ \ {o}])
    BY <1>4 DEF TakeBody
  <2> DEFINE c == [Step(t, "upload") EXCEPT !.object = o, !.read = memory[o], !.todo = @ \ {o}]
  <2>2. c.step = "upload"
    BY <1>1 DEF SinkCalls, Step
  <2>3. SinkGoes(t, c) /\ UNCHANGED <<written, since>>
    BY <1>4, <2>1 DEF TakeBody
  <2> HIDE DEF c
  <2>4. QED
    BY <2>2, <2>3, CountsStand
<1>5. CASE Upload(t)
  <2>1. Step(t, "flush").step = "flush"
    BY <1>1 DEF SinkCalls, Step
  <2>2. SinkGoes(t, Step(t, "flush")) /\ UNCHANGED <<written, since>>
    BY <1>5 DEF Upload
  <2>3. QED
    BY <2>1, <2>2, CountsStand
<1>6. CASE ReplaceFails(t) \/ FlushEnds(t) \/ FlushFails(t)
  <2>1. SinkGoes(t, Idle) /\ UNCHANGED written /\ since' \in {since, 0}
    BY <1>6 DEF ReplaceFails, FlushEnds, FlushFails
  <2>2. QED
    BY <1>1, <2>1, CountsStand
<1>7. QED
  BY <1>2, <1>3, <1>4, <1>5, <1>6

(* A line is written, and is to be counted.                                 *)
LEMMA ReplaceCounts == ASSUME AuditFits, NEW t \in Threads, Replace(t) PROVE EventsCount' /\ LinesCount'
<1> DEFINE n == Cardinality(Counting)
<1>1. Step(t, "remember").step = "remember" /\ sink[t] \in SinkCalls
  BY SinkIs DEF SinkCalls, Step
<1>2. \A u \in Threads : sink'[u] = IF u = t THEN Step(t, "remember") ELSE sink[u]
  BY SinkIs DEF Replace, SinkGoes
<1>3. sink[t].step = "replace" /\ sink[t].event \in Nat /\ sink[t].event >= 1 /\ since' = since
  BY SinkIs DEF Replace, AuditFits, EventsCount, Writing
<1>4. written' = Append(written, sink[t].event)
  BY <1>3 DEF Replace
<1>5. /\ written \in Seq(Nat) /\ Len(written) \in Nat /\ DOMAIN written' = 1 .. Len(written) + 1
      /\ Len(written') = Len(written) + 1 /\ written'[Len(written) + 1] = sink[t].event
      /\ \A i \in 1 .. Len(written) : written'[i] = written[i]
  BY <1>3, <1>4, SinkIs, AppendProperties, LenProperties
<1>6. EventsCount'
  <2>1. ASSUME NEW i \in DOMAIN written' PROVE written'[i] >= 1
    <3>1. CASE i \in 1 .. Len(written)
      <4>1. i \in DOMAIN written /\ written'[i] = written[i]
        BY <1>5, <3>1, LenProperties
      <4>2. QED
        BY <4>1 DEF AuditFits, EventsCount
    <3>2. CASE i = Len(written) + 1
      BY <1>3, <1>5, <3>2
    <3>3. QED
      BY <1>5, <2>1, <3>1, <3>2
  <2>2. \A u \in Threads : Writing(u)' => sink'[u].event >= 1
    BY <1>1, <1>2 DEF AuditFits, EventsCount, Writing
  <2>3. QED
    BY <2>1, <2>2 DEF EventsCount
<1>7. Cardinality(Counting') = n + 1 /\ n \in Nat
  <2>1. t \notin Counting /\ Counting' = Counting \cup {t}
    BY <1>1, <1>2, <1>3 DEF Counting
  <2>2. QED
    BY <2>1, SinkIs, ThreadsCounted
<1>8. ASSUME NEW k \in Nat, k + n <= Len(written) PROVE k + Cardinality(Counting') <= Len(written')
  <2> HIDE DEF n
  <2>1. QED
    BY <1>5, <1>7, <1>8
<1>9. since' + Cardinality(Counting') <= Len(written')
  BY <1>3, <1>8, SinkIs DEF AuditFits, LinesCount
<1>10. ASSUME NEW u \in Threads, sink'[u].step = "count"
       PROVE  sink'[u].count + Cardinality(Counting') <= Len(written')
  <2>1. sink'[u] = sink[u]
    BY <1>1, <1>2, <1>10
  <2>2. QED
    BY <1>8, <1>10, <2>1, SinkIs DEF AuditFits, LinesCount
<1>11. QED
  BY <1>6, <1>9, <1>10 DEF LinesCount

(* The count so far is read.                                                *)
LEMMA RememberCounts == ASSUME AuditFits, NEW t \in Threads, Remember(t) PROVE EventsCount' /\ LinesCount'
<1> DEFINE c == [Step(t, "count") EXCEPT !.count = since]
<1>1. c.step = "count" /\ c.count = since
  BY SinkIs DEF SinkCalls, Step
<1>2. SinkGoes(t, c) /\ UNCHANGED <<written, since>> /\ sink[t].step = "remember"
  BY DEF Remember
<1> HIDE DEF c
<1>3. \A u \in Threads : sink'[u] = IF u = t THEN c ELSE sink[u]
  BY <1>2, SinkIs DEF SinkGoes
<1>4. Counting' = Counting
  BY <1>1, <1>2, <1>3 DEF Counting
<1>5. EventsCount'
  BY <1>1, <1>2, <1>3 DEF AuditFits, EventsCount, Writing
<1>6. LinesCount'
  BY <1>1, <1>2, <1>3, <1>4 DEF AuditFits, LinesCount
<1>7. QED
  BY <1>5, <1>6

(* The count is written.                                                    *)
LEMMA CountCounts == ASSUME AuditFits, NEW t \in Threads, Count(t) PROVE EventsCount' /\ LinesCount'
<1> DEFINE c == IF since' >= FlushEvery
                  THEN [Idle EXCEPT !.step = "flush", !.todo = Paths, !.paths = Paths] ELSE Idle
           n == Cardinality(Counting)
<1>1. c.step \in {"idle", "flush"}
  BY IdleTyped, FlushTyped
<1>2. SinkGoes(t, c) /\ written' = written /\ sink[t].step = "count" /\ since' = sink[t].count + 1
  BY DEF Count
<1> HIDE DEF c
<1>3. \A u \in Threads : sink'[u] = IF u = t THEN c ELSE sink[u]
  BY <1>2, SinkIs DEF SinkGoes
<1>4. Cardinality(Counting') = n - 1 /\ n \in Nat
  <2>1. t \in Counting /\ Counting' = Counting \ {t}
    BY <1>1, <1>2, <1>3 DEF Counting
  <2>2. QED
    BY <2>1, SinkIs, ThreadsCounted
<1>5. EventsCount'
  BY <1>1, <1>2, <1>3 DEF AuditFits, EventsCount, Writing
<1>6. sink[t].count \in Nat /\ Len(written) \in Nat /\ sink[t].count + n <= Len(written)
  BY <1>2, SinkIs DEF AuditFits, LinesCount
<1>7. since' + Cardinality(Counting') <= Len(written')
  <2> HIDE DEF n
  <2>1. (sink[t].count + 1) + (n - 1) <= Len(written)
    BY <1>4, <1>6
  <2>2. QED
    BY <1>2, <1>4, <2>1
<1>8. ASSUME NEW u \in Threads, sink'[u].step = "count"
      PROVE  sink'[u].count + Cardinality(Counting') <= Len(written')
  <2>1. sink'[u] = sink[u]
    BY <1>1, <1>3, <1>8
  <2>2. sink[u].count \in Nat /\ sink[u].count + n <= Len(written)
    BY <1>8, <2>1, SinkIs DEF AuditFits, LinesCount
  <2>3. QED
    <3> HIDE DEF n
    <3> QED BY <1>2, <1>4, <1>6, <2>1, <2>2
<1>9. QED
  BY <1>5, <1>7, <1>8 DEF LinesCount

(* The end: no thread counts any more.                                      *)
LEMMA EndCounts == ASSUME AuditFits, Exit \/ Crash \/ UNCHANGED auditVars PROVE EventsCount' /\ LinesCount'
<1>1. CASE Exit
  <2> DEFINE c == [Idle EXCEPT !.step = "flush", !.todo = Paths, !.paths = Paths]
  <2>1. c.step = "flush" /\ MainThread \in Threads
    BY FlushTyped, SinkAssumption
  <2>2. SinkGoes(MainThread, c) /\ UNCHANGED <<written, since>>
    BY <1>1 DEF Exit
  <2> HIDE DEF c
  <2>3. QED
    BY <2>1, <2>2, CountsStand
<1>2. CASE Crash
  <2>1. \A u \in Threads : sink'[u].step = "idle"
    BY <1>2, IdleTyped DEF Crash
  <2>2. since' = 0 /\ written' = written
    BY <1>2 DEF Crash
  <2>3. Cardinality(Counting') = 0
    <3>1. Counting' = {}
      BY <2>1 DEF Counting
    <3>2. QED
      BY <3>1, FS_EmptySet
  <2>4. Len(written) \in Nat
    BY SinkIs
  <2>5. QED
    BY <2>1, <2>2, <2>3, <2>4 DEF AuditFits, EventsCount, LinesCount, Writing
<1>3. CASE UNCHANGED auditVars
  BY <1>3 DEF auditVars, AuditFits, EventsCount, LinesCount, Counting, Writing
<1>4. QED
  BY <1>1, <1>2, <1>3

LEMMA AuditFitsGoesOn == AuditFits /\ [AuditNext]_auditVars => AuditFits'
<1> SUFFICES ASSUME AuditFits, [AuditNext]_auditVars PROVE AuditFits'
  OBVIOUS
<1>1. AuditInv' /\ SinkFlags'
  BY SinkGoesOn, FlagsGoOn DEF AuditFits
<1>2. EventsCount' /\ LinesCount'
  BY CountsStandIn, ReplaceCounts, RememberCounts, CountCounts, EndCounts DEF AuditNext
<1>3. QED
  BY <1>1, <1>2 DEF AuditFits

LEMMA AuditTypes == AuditFits => AuditTypeOK
<1> SUFFICES ASSUME AuditFits PROVE AuditTypeOK
  OBVIOUS
<1>1. /\ SinkTyped /\ SinkFlags /\ MaxAudits \in Nat /\ audited \in 0 .. MaxAudits
      /\ written \in Seq(Nat) /\ Len(written) \in Nat /\ DOMAIN written = 1 .. Len(written)
  BY SinkIs, AuditsAssumption DEF AuditFits, AuditInv, SinkFlags
<1>2. \A i \in 1 .. Len(written) : written[i] \in 1 .. audited
  BY <1>1 DEF AuditFits, AuditInv, EventsAreNew, EventsCount
<1>3. written \in Seq(1 .. MaxAudits)
  <2>1. \A i \in 1 .. Len(written) : written[i] \in 1 .. MaxAudits
    BY <1>1, <1>2
  <2>2. QED
    BY <1>1, <2>1
<1>4. Len(written) <= audited
  <2>1. Cardinality(ToSet(written)) = Len(written)
    BY <1>1, LinesCounted DEF AuditFits, AuditInv, FileIsOne
  <2>2. ToSet(written) \subseteq 1 .. audited
    BY <1>1, <1>2 DEF ToSet
  <2>3. IsFiniteSet(1 .. audited) /\ Cardinality(1 .. audited) = audited
    BY <1>1, FS_Interval
  <2>4. Cardinality(ToSet(written)) <= Cardinality(1 .. audited)
    BY <2>2, <2>3, FS_Subset
  <2>5. QED
    BY <2>1, <2>3, <2>4
<1>5. since \in 0 .. MaxAudits
  <2>1. since + Cardinality(Counting) <= Len(written) /\ Cardinality(Counting) \in Nat /\ since \in Nat
    BY SinkIs DEF AuditFits, LinesCount
  <2>2. QED
    BY <1>1, <1>4, <2>1
<1>a. base <= Len(written) /\ disk \in Seq(1 .. MaxAudits)
  <2>1. /\ disk \in Seq(Nat) /\ base \in Nat /\ base + Len(disk) = Len(written)
        /\ \A i \in DOMAIN disk : disk[i] = written[base + i]
    BY SinkIs DEF AuditFits, AuditInv, FileIsOne, IsSince
  <2>2. Len(disk) \in Nat /\ DOMAIN disk = 1 .. Len(disk)
    BY <2>1, LenProperties
  <2>3. \A i \in 1 .. Len(disk) : base + i \in 1 .. Len(written)
    BY <1>1, <2>1, <2>2
  <2>4. \A i \in 1 .. Len(disk) : disk[i] \in 1 .. MaxAudits
    <3> SUFFICES ASSUME NEW i \in 1 .. Len(disk) PROVE disk[i] \in 1 .. MaxAudits
      OBVIOUS
    <3>1. disk[i] = written[base + i]
      BY <2>1, <2>2
    <3>2. written[base + i] \in 1 .. audited
      BY <1>2, <2>3
    <3>3. 1 .. audited \subseteq 1 .. MaxAudits
      BY <1>1
    <3>4. QED
      BY <3>1, <3>2, <3>3
  <2>5. disk \in Seq(1 .. MaxAudits)
    <3>1. disk \in Seq(Nat) /\ Len(disk) \in Nat /\ DOMAIN disk = 1 .. Len(disk)
      BY <2>1, <2>2
    <3>2. QED
      BY <1>1, <2>4, <3>1
  <2>6. base <= Len(written)
    BY <1>1, <2>1, <2>2
  <2>7. QED
    BY <2>5, <2>6
<1>b. base \in 0 .. MaxAudits
  <2>1. base \in Nat
    BY SinkIs DEF AuditFits, AuditInv, FileIsOne, IsSince
  <2>2. QED
    BY <1>1, <1>4, <1>a, <2>1
<1>c. {disk, written} \subseteq Seq(1 .. MaxAudits)
  BY <1>3, <1>a
<1>6. \A t \in Threads : sink[t].step \in CallStates /\ sink[t].object \in Objects
  BY SinkIs DEF SinkCalls
<1>7. DOMAIN memory = Objects /\ DOMAIN cloud = Objects
  BY <1>1 DEF SinkTyped
<1>8. QED
  BY <1>1, <1>5, <1>6, <1>7, <1>b, <1>c DEF AuditTypeOK, SinkFlags

-----------------------------------------------------------------------------
(* One component runs, and the others stay as they start: so each makes     *)
(* only steps of its own.                                                   *)
CockpitFits ==
  /\ HomeFits /\ CursorFits /\ WalkFits /\ RawFits /\ ViewFits /\ DoctorFits
  /\ AuditFits /\ TokenFits /\ TelemetryFits

CockpitStep == [CockpitNext]_cockpitVars

LEMMA CockpitFitsStarts == CockpitInit => CockpitFits
<1> SUFFICES ASSUME CockpitInit PROVE CockpitFits
  OBVIOUS
<1>1. /\ HomeInit /\ WalkInit /\ RawInit /\ ViewInit /\ DoctorInit /\ AuditInit /\ TokenInit
      /\ TelemetryInit /\ (CursorInit \/ CursorAtRest)
  BY DEF CockpitInit
<1>2. QED
  BY <1>1, HomeFitsStarts, CursorFitsStarts, WalkFitsStarts, RawFitsStarts, ViewFitsStarts,
     DoctorFitsStarts, AuditFitsStarts, TokenFitsStarts, TelemetryFitsStarts DEF CockpitFits

LEMMA TerminalMakesItsSteps ==
  CockpitStep => /\ [HomeNext]_homeVars /\ [CursorNext]_cursorVars /\ [WalkNext]_walkVars
                 /\ [RawNext]_rawVars /\ [ViewNext]_viewVars
<1> SUFFICES ASSUME CockpitStep
             PROVE  /\ HomeNext \/ UNCHANGED homeVars
                    /\ CursorNext \/ UNCHANGED cursorVars
                    /\ WalkNext \/ UNCHANGED walkVars
                    /\ RawNext \/ UNCHANGED rawVars
                    /\ ViewNext \/ UNCHANGED viewVars
  OBVIOUS
<1>1. CASE CockpitNext
  BY <1>1 DEF CockpitNext, Only
<1>2. CASE UNCHANGED cockpitVars
  BY <1>2 DEF cockpitVars
<1>3. QED
  BY <1>1, <1>2 DEF CockpitStep

LEMMA ServicesMakeTheirSteps ==
  CockpitStep => /\ [DoctorNext]_doctorVars /\ [AuditNext]_auditVars /\ [TokenNext]_tokenVars
                 /\ [TelemetryNext]_telemetryVars
<1> SUFFICES ASSUME CockpitStep
             PROVE  /\ DoctorNext \/ UNCHANGED doctorVars
                    /\ AuditNext \/ UNCHANGED auditVars
                    /\ TokenNext \/ UNCHANGED tokenVars
                    /\ TelemetryNext \/ UNCHANGED telemetryVars
  OBVIOUS
<1>1. CASE CockpitNext
  BY <1>1 DEF CockpitNext, Only
<1>2. CASE UNCHANGED cockpitVars
  BY <1>2 DEF cockpitVars
<1>3. QED
  BY <1>1, <1>2 DEF CockpitStep

LEMMA CockpitFitsGoesOn == CockpitFits /\ CockpitStep => CockpitFits'
BY TerminalMakesItsSteps, ServicesMakeTheirSteps, HomeFitsGoesOn, CursorFitsGoesOn, WalkFitsGoesOn,
   RawFitsGoesOn, ViewFitsGoesOn, DoctorFitsGoesOn, AuditFitsGoesOn, TokenFitsGoesOn,
   TelemetryFitsGoesOn DEF CockpitFits

LEMMA CockpitAlwaysFits == CockpitSpec => []CockpitFits
<1>1. CockpitFits /\ [CockpitNext]_cockpitVars => CockpitFits'
  BY CockpitFitsGoesOn DEF CockpitStep
<1>2. QED
  BY <1>1, CockpitFitsStarts, PTL DEF CockpitSpec

(* Whatever the operator presses, however the clock, the processes and the  *)
(* writers interleave, and within every bound, the state of each component  *)
(* is what its code declares: no row, offset, step, counter or nesting      *)
(* leaves its range (shell.py, doctor.py, walk.py, keyboard.py, refresh.py, *)
(* obs/).                                                                   *)
THEOREM CockpitTypeCorrect == CockpitSpec => []CockpitTypeOK
<1>1. CockpitFits => CockpitTypeOK
  BY HomeTypes, CursorTypes, WalkTypes, RawTypes, ViewTypes, DoctorTypes, AuditTypes, TokenTypes,
     TelemetryTypes DEF CockpitFits, CockpitTypeOK
<1>2. QED
  BY <1>1, CockpitAlwaysFits, PTL

(* The specification the run checks is the components' own: what each one   *)
(* guarantees alone, Home and its cursor, the raw terminal, the viewport,   *)
(* the doctor's page, the audit mirror and the telemetry uploads, it        *)
(* guarantees in the composition, and no write is confirmed by type-ahead   *)
(* where every character comes whole (shell.py, keyboard.py, walk.py,       *)
(* doctor.py, obs/).                                                        *)
THEOREM CockpitAlwaysSafe ==
  CockpitSpec => []( /\ HomeSafe /\ CursorSafe /\ TerminalIsRestored /\ ViewportSafe
                     /\ DoctorSafe /\ MirrorIsTrue /\ ObjectsAreWholeRuns )
<1>1. CockpitFits => /\ HomeInv /\ CursorInv /\ RawInv /\ ViewInv /\ DoctorInv /\ AuditInv
                     /\ TelemetryInv
  BY DEF CockpitFits, HomeFits, CursorFits, RawFits, ViewFits, DoctorFits, AuditFits, TelemetryFits
<1>2. CockpitFits => /\ HomeSafe /\ CursorSafe /\ TerminalIsRestored /\ ViewportSafe
                     /\ DoctorSafe /\ MirrorIsTrue /\ ObjectsAreWholeRuns
  BY <1>1, HomeIsSafe, CursorIsSafe, RawIsSafe, ViewIsSafe, DoctorIsSafe, InvImplies, UploadsFit
<1>3. QED
  BY <1>2, CockpitAlwaysFits, PTL

(* And in the composition no write is confirmed by a key typed ahead of its *)
(* review page (walk.py), if every character comes whole.                   *)
THEOREM CockpitConfirmsBySight ==
  ASSUME "lead" \notin Presses
  PROVE  CockpitSpec => []AppliedByAKeySeen
<1>1. CockpitInit => WalkInv
  BY WalkStarts DEF CockpitInit
<1>2. WalkInv /\ [CockpitNext]_cockpitVars => WalkInv'
  BY TerminalMakesItsSteps, WalkKeepsOn DEF CockpitStep
<1>3. WalkInv => AppliedByAKeySeen
  BY DEF WalkInv
<1>4. QED
  BY <1>1, <1>2, <1>3, PTL DEF CockpitSpec

(* And in the composition a token is refreshed only when none is valid, and *)
(* an older one never replaces a newer one (refresh.py).                    *)
THEOREM CockpitRefreshesWhenDue == CockpitSpec => RefreshedOnlyWhenDue
<1>1. CockpitFits => TokenInv
  BY DEF CockpitFits, TokenFits
<1>2. [CockpitNext]_cockpitVars => [TokenNext]_tokenVars
  BY ServicesMakeTheirSteps DEF CockpitStep
<1>3. QED
  BY <1>1, <1>2, CockpitAlwaysFits, RefreshStep, PTL DEF CockpitSpec, RefreshedOnlyWhenDue

-----------------------------------------------------------------------------
=============================================================================
