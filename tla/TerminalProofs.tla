--------------------------- MODULE TerminalProofs ---------------------------
(***************************************************************************)
(* What the operator's terminal guarantees, for every bound, walk, worker, *)
(* page and roster: its mode is put back, a write is confirmed on its own  *)
(* page, Home shows an agent nothing but live Homes, Doctor runs what was  *)
(* chosen, frames fit, and the cursor is on a row that is drawn.           *)
(***************************************************************************)
EXTENDS TerminalWalk, RawSession, HomeLoop, HomeCursor, Viewport, DoctorLoop, FiniteSetTheorems,
        SequenceTheorems, WellFoundedInduction, TLAPS

----------------------------------------------------------------------------
(* The terminal's mode.  The contexts open are: before the session none    *)
(* that counts, then the session, then its inner ones; and the windows     *)
(* among them are as many as _cooked_depth says.                           *)

Contexts == {"session", "inner", "cooked", "nothing"}
Windows == {i \in DOMAIN contexts : contexts[i] = "cooked"}

RawTyped ==
  /\ contexts \in Seq(Contexts) /\ held \in BOOLEAN /\ depth \in Nat /\ tty \in {"raw", "cooked"}
  /\ handler \in BOOLEAN /\ phase \in {"out", "armed", "holding", "in", "releasing"}
  /\ alive \in BOOLEAN

SessionAt(k) ==
  /\ k \in DOMAIN contexts /\ contexts[k] = "session"
  /\ \A i \in 1 .. k - 1 : contexts[i] = "nothing"
  /\ \A i \in k + 1 .. Len(contexts) : contexts[i] \in {"inner", "cooked"}

SessionIsOne ==
  /\ phase = "out" => \A i \in DOMAIN contexts : contexts[i] = "nothing"
  /\ phase \in {"armed", "holding", "releasing"} => SessionAt(Len(contexts))
  /\ phase = "in" => \E k \in DOMAIN contexts : SessionAt(k)

FlagsFollow ==
  /\ held <=> phase \in {"holding", "in"}
  /\ phase \in {"out", "armed", "holding"} => ~handler
  /\ phase = "in" => handler
  /\ phase # "in" => depth = 0

DepthIsCount == phase = "in" => depth = Cardinality(Windows)

ModeIsRight ==
  /\ alive /\ phase = "out" => tty = "cooked"
  /\ alive /\ phase \in {"armed", "holding"} => tty = "raw"
  /\ alive /\ phase = "in" => (tty = "cooked" <=> depth > 0)
  /\ ~alive /\ handler => tty = "cooked"

RawInv == RawTyped /\ SessionIsOne /\ FlagsFollow /\ DepthIsCount /\ ModeIsRight

\* The windows a session has open are finitely many.
LEMMA WindowsFinite ==
  ASSUME contexts \in Seq(Contexts)
  PROVE  IsFiniteSet(Windows) /\ Cardinality(Windows) \in Nat
<1>1. Len(contexts) \in Nat /\ DOMAIN contexts = 1 .. Len(contexts)
  BY LenProperties
<1>2. IsFiniteSet(1 .. Len(contexts))
  BY <1>1, FS_Interval
<1>3. Windows \in SUBSET (1 .. Len(contexts))
  BY <1>1 DEF Windows
<1>4. IsFiniteSet(Windows)
  BY <1>2, <1>3, FS_Subset
<1> QED BY <1>4, FS_CardinalityType

\* One more window is open.
LEMMA OpensOne ==
  ASSUME contexts \in Seq(Contexts), NEW c \in Contexts, Open(c)
  PROVE  /\ contexts' \in Seq(Contexts) /\ Len(contexts') = Len(contexts) + 1
         /\ \A i \in 1 .. Len(contexts) : contexts'[i] = contexts[i]
         /\ contexts'[Len(contexts) + 1] = c
         /\ DOMAIN contexts' = 1 .. Len(contexts) + 1
         /\ DOMAIN contexts = 1 .. Len(contexts) /\ Len(contexts) \in Nat
  BY AppendProperties, LenProperties DEF Open

\* One window less is open.
LEMMA Closed ==
  ASSUME contexts \in Seq(Contexts), contexts # <<>>, CloseInnermost
  PROVE  /\ contexts' \in Seq(Contexts) /\ Len(contexts') = Len(contexts) - 1
         /\ \A i \in 1 .. Len(contexts) - 1 : contexts'[i] = contexts[i]
         /\ DOMAIN contexts' = 1 .. Len(contexts) - 1
         /\ DOMAIN contexts = 1 .. Len(contexts) /\ Len(contexts) \in Nat \ {0}
<1>1. Len(contexts) \in Nat \ {0} /\ DOMAIN contexts = 1 .. Len(contexts)
  BY LenProperties, EmptySeq
<1>2. contexts' \in Seq(Contexts) /\ Len(contexts') = Len(contexts) - 1
      /\ \A i \in 1 .. Len(contexts) - 1 : contexts'[i] = contexts[i]
  BY <1>1, SubSeqProperties DEF CloseInnermost
<1> QED BY <1>1, <1>2, LenProperties

\* The outermost session keeps the mode it found.
LEMMA OpensTheSession ==
  ASSUME RawInv, Arm
  PROVE  RawInv'
<1>1. /\ contexts' \in Seq(Contexts) /\ Len(contexts') = Len(contexts) + 1
      /\ \A i \in 1 .. Len(contexts) : contexts'[i] = contexts[i]
      /\ contexts'[Len(contexts) + 1] = "session"
      /\ DOMAIN contexts' = 1 .. Len(contexts) + 1
      /\ DOMAIN contexts = 1 .. Len(contexts) /\ Len(contexts) \in Nat
  BY OpensOne DEF Arm, RawInv, RawTyped, Contexts
<1>2. SessionAt(Len(contexts))'
  BY <1>1 DEF SessionAt, RawInv, SessionIsOne, Arm
<1>3. SessionIsOne'
  BY <1>2 DEF SessionIsOne, Arm
<1>4. RawTyped' /\ FlagsFollow' /\ DepthIsCount' /\ ModeIsRight'
  BY <1>1 DEF RawInv, RawTyped, FlagsFollow, DepthIsCount, ModeIsRight, Arm, CanOpen
<1> QED BY <1>3, <1>4 DEF RawInv

\* Steps that leave the contexts and stay out of the windows.
LEMMA SessionSteps ==
  ASSUME RawInv, Hold \/ InstallHandler \/ RemoveHandler \/ Sigterm
  PROVE  RawInv'
<1>1. contexts' = contexts /\ Windows' = Windows
      /\ \A k \in DOMAIN contexts : SessionAt(k)' <=> SessionAt(k)
  BY DEF Hold, InstallHandler, RemoveHandler, Sigterm, Windows, SessionAt
<1>2. SessionIsOne'
  <2>1. CASE phase' = phase
    BY <1>1, <2>1 DEF RawInv, SessionIsOne, SessionAt
  <2>2. CASE Hold \/ InstallHandler
    BY <1>1, <2>2 DEF RawInv, SessionIsOne, SessionAt, Hold, InstallHandler
  <2> QED BY <2>1, <2>2 DEF RemoveHandler, Sigterm
<1>3. DepthIsCount'
  <2>1. CASE InstallHandler
    <3>1. SessionAt(Len(contexts)) /\ depth = 0
      BY <2>1 DEF InstallHandler, RawInv, SessionIsOne, FlagsFollow
    <3>2. Windows = {}
      <4>1. Len(contexts) \in Nat /\ DOMAIN contexts = 1 .. Len(contexts)
        BY LenProperties DEF RawInv, RawTyped
      <4> QED BY <3>1, <4>1 DEF SessionAt, Windows
    <3> QED BY <1>1, <2>1, <3>1, <3>2, FS_EmptySet DEF InstallHandler, DepthIsCount
  <2>2. CASE Hold
    BY <2>2 DEF Hold, DepthIsCount
  <2>3. CASE RemoveHandler \/ Sigterm
    BY <1>1, <2>3 DEF RawInv, DepthIsCount, RemoveHandler, Sigterm
  <2> QED BY <2>1, <2>2, <2>3
<1>4. RawTyped' /\ FlagsFollow' /\ ModeIsRight'
  <2>1. CASE Hold
    BY <2>1 DEF RawInv, RawTyped, FlagsFollow, ModeIsRight, Hold
  <2>2. CASE InstallHandler
    BY <2>2 DEF RawInv, RawTyped, FlagsFollow, ModeIsRight, InstallHandler
  <2>3. CASE RemoveHandler
    BY <2>3 DEF RawInv, RawTyped, FlagsFollow, ModeIsRight, RemoveHandler
  <2>4. CASE Sigterm
    BY <2>4 DEF RawInv, RawTyped, FlagsFollow, ModeIsRight, Sigterm
  <2> QED BY <2>1, <2>2, <2>3, <2>4
<1> QED BY <1>2, <1>3, <1>4 DEF RawInv

\* A window inside a session has something to go back to.
LEMMA OpensInside ==
  ASSUME RawInv, EnterInner \/ EnterCooked
  PROVE  RawInv'
<1> PICK c \in {"inner", "cooked"} : Open(c) /\ (c = "cooked" <=> EnterCooked) /\ (c = "inner" <=> EnterInner)
  BY DEF EnterInner, EnterCooked, Open
<1>1. phase = "in" /\ phase' = "in" /\ held /\ alive /\ UNCHANGED <<held, handler, alive>>
  BY DEF RawInv, FlagsFollow, EnterInner, EnterCooked, CanOpen
<1>2. /\ contexts' \in Seq(Contexts) /\ Len(contexts') = Len(contexts) + 1
      /\ \A i \in 1 .. Len(contexts) : contexts'[i] = contexts[i]
      /\ contexts'[Len(contexts) + 1] = c
      /\ DOMAIN contexts' = 1 .. Len(contexts) + 1
      /\ DOMAIN contexts = 1 .. Len(contexts) /\ Len(contexts) \in Nat
  BY OpensOne DEF RawInv, RawTyped, Contexts
<1>3. SessionIsOne'
  <2>1. PICK k \in DOMAIN contexts : SessionAt(k)
    BY <1>1 DEF RawInv, SessionIsOne
  <2>2. SessionAt(k)'
    BY <1>2, <2>1 DEF SessionAt
  <2> QED BY <1>1, <1>2, <2>1, <2>2 DEF SessionIsOne
<1>4. Windows' = IF c = "cooked" THEN Windows \cup {Len(contexts) + 1} ELSE Windows
  BY <1>2 DEF Windows
<1>5. IsFiniteSet(Windows) /\ Len(contexts) + 1 \notin Windows /\ Cardinality(Windows) \in Nat
  BY <1>2, WindowsFinite DEF Windows, RawInv, RawTyped
<1>6. Cardinality(Windows') = IF c = "cooked" THEN Cardinality(Windows) + 1 ELSE Cardinality(Windows)
  BY <1>4, <1>5, FS_AddElement
<1>7. DepthIsCount' /\ RawTyped' /\ FlagsFollow' /\ ModeIsRight'
  <2>1. CASE EnterCooked
    BY <1>1, <1>2, <1>6, <2>1
       DEF EnterCooked, RawInv, RawTyped, DepthIsCount, FlagsFollow, ModeIsRight
  <2>2. CASE EnterInner
    BY <1>1, <1>2, <1>6, <2>2
       DEF EnterInner, RawInv, RawTyped, DepthIsCount, FlagsFollow, ModeIsRight
  <2> QED BY <2>1, <2>2
<1> QED BY <1>3, <1>7 DEF RawInv

\* A window without a session changes nothing.
LEMMA OpensOutside ==
  ASSUME RawInv, EnterNothing
  PROVE  RawInv'
<1>1. phase = "out" /\ phase' = "out" /\ UNCHANGED <<held, depth, tty, handler, alive>>
  BY DEF RawInv, FlagsFollow, EnterNothing, CanOpen
<1>2. /\ contexts' \in Seq(Contexts)
      /\ \A i \in 1 .. Len(contexts) : contexts'[i] = contexts[i]
      /\ contexts'[Len(contexts) + 1] = "nothing"
      /\ DOMAIN contexts' = 1 .. Len(contexts) + 1
      /\ DOMAIN contexts = 1 .. Len(contexts) /\ Len(contexts) \in Nat
  BY OpensOne DEF RawInv, RawTyped, Contexts, EnterNothing
<1> QED BY <1>1, <1>2
        DEF RawInv, RawTyped, SessionIsOne, FlagsFollow, DepthIsCount, ModeIsRight

\* What closes is innermost: the session stays where it is until it is last.
LEMMA SessionStays ==
  ASSUME RawTyped, contexts # <<>>, CloseInnermost, NEW k \in DOMAIN contexts, SessionAt(k),
         Innermost # "session"
  PROVE  SessionAt(k)' /\ k \in DOMAIN contexts'
  BY Closed DEF RawTyped, SessionAt, Innermost

\* A window that closes gives back what it found.
LEMMA ClosesWindow ==
  ASSUME RawInv, LeaveCooked
  PROVE  RawInv'
<1>1. phase = "in" /\ phase' = "in" /\ held /\ handler /\ UNCHANGED <<held, handler, alive>>
      /\ CloseInnermost /\ contexts[Len(contexts)] = "cooked"
  BY DEF RawInv, FlagsFollow, LeaveCooked, Innermost
<1>2. PICK k \in DOMAIN contexts : SessionAt(k)
  BY <1>1 DEF RawInv, SessionIsOne
<1>3. contexts # <<>>
  BY <1>2
<1>4. SessionIsOne'
  BY <1>1, <1>2, <1>3, SessionStays DEF RawInv, SessionIsOne, Innermost
<1>5. /\ contexts' \in Seq(Contexts)
      /\ \A i \in 1 .. Len(contexts) - 1 : contexts'[i] = contexts[i]
      /\ DOMAIN contexts' = 1 .. Len(contexts) - 1
      /\ DOMAIN contexts = 1 .. Len(contexts) /\ Len(contexts) \in Nat \ {0}
  BY <1>1, <1>3, Closed DEF RawInv, RawTyped
<1>6. Windows' = Windows \ {Len(contexts)} /\ Len(contexts) \in Windows
  BY <1>1, <1>5 DEF Windows
<1>7. IsFiniteSet(Windows) /\ Cardinality(Windows) \in Nat
  BY WindowsFinite DEF RawInv, RawTyped
<1>8. Cardinality(Windows') = Cardinality(Windows) - 1 /\ Cardinality(Windows) # 0
  BY <1>6, <1>7, FS_RemoveElement, FS_EmptySet
<1>9. depth = Cardinality(Windows) /\ depth' = depth - 1
  BY <1>1 DEF RawInv, DepthIsCount, LeaveCooked
<1>10. RawTyped' /\ FlagsFollow' /\ DepthIsCount' /\ ModeIsRight'
  BY <1>1, <1>5, <1>7, <1>8, <1>9
     DEF LeaveCooked, RawInv, RawTyped, FlagsFollow, DepthIsCount, ModeIsRight
<1> QED BY <1>4, <1>10 DEF RawInv

\* A nested session that ends leaves the outer one raw.
LEMMA ClosesInner ==
  ASSUME RawInv, LeaveInner
  PROVE  RawInv'
<1>1. CloseInnermost /\ contexts # <<>> /\ contexts[Len(contexts)] \in {"inner", "nothing"}
      /\ phase \in {"in", "out"} /\ UNCHANGED <<held, depth, tty, handler, phase, alive>>
  BY DEF LeaveInner, Innermost
<1>2. /\ contexts' \in Seq(Contexts)
      /\ \A i \in 1 .. Len(contexts) - 1 : contexts'[i] = contexts[i]
      /\ DOMAIN contexts' = 1 .. Len(contexts) - 1
      /\ DOMAIN contexts = 1 .. Len(contexts) /\ Len(contexts) \in Nat \ {0}
  BY <1>1, Closed DEF RawInv, RawTyped
<1>3. Windows' = Windows
  BY <1>1, <1>2 DEF Windows
<1>4. CASE phase = "out"
  BY <1>1, <1>2, <1>4
     DEF RawInv, RawTyped, SessionIsOne, FlagsFollow, DepthIsCount, ModeIsRight
<1>5. CASE phase = "in"
  <2>1. PICK k \in DOMAIN contexts : SessionAt(k)
    BY <1>5 DEF RawInv, SessionIsOne
  <2>2. SessionIsOne'
    BY <1>1, <1>5, <2>1, SessionStays DEF RawInv, SessionIsOne, Innermost
  <2> QED BY <1>1, <1>2, <1>3, <1>5, <2>2
          DEF RawInv, RawTyped, FlagsFollow, DepthIsCount, ModeIsRight
<1> QED BY <1>1, <1>4, <1>5

\* The outermost session lets go of its handler.
LEMMA ReleasesSession ==
  ASSUME RawInv, Release
  PROVE  RawInv'
<1>1. PICK k \in DOMAIN contexts : SessionAt(k)
  BY DEF RawInv, SessionIsOne, Release
<1>2. Len(contexts) \in Nat /\ DOMAIN contexts = 1 .. Len(contexts)
  BY LenProperties DEF RawInv, RawTyped
<1>3. k = Len(contexts)
  BY <1>1, <1>2 DEF SessionAt, Release, Innermost
<1>4. SessionAt(Len(contexts))'
  BY <1>1, <1>3 DEF SessionAt, Release
<1> QED BY <1>4 DEF RawInv, RawTyped, SessionIsOne, FlagsFollow, DepthIsCount, ModeIsRight, Release

\* The outermost session gives the mode back.
LEMMA RestoresTerminal ==
  ASSUME RawInv, Restore
  PROVE  RawInv'
<1>1. SessionAt(Len(contexts)) /\ contexts # <<>> /\ CloseInnermost
  BY DEF RawInv, SessionIsOne, Restore, SessionAt
<1>2. /\ contexts' \in Seq(Contexts)
      /\ \A i \in 1 .. Len(contexts) - 1 : contexts'[i] = contexts[i]
      /\ DOMAIN contexts' = 1 .. Len(contexts) - 1
  BY <1>1, Closed DEF RawInv, RawTyped
<1>3. SessionIsOne'
  BY <1>1, <1>2 DEF SessionAt, SessionIsOne, Restore
<1>4. RawTyped' /\ FlagsFollow' /\ DepthIsCount' /\ ModeIsRight'
  BY <1>2 DEF RawInv, RawTyped, FlagsFollow, DepthIsCount, ModeIsRight, Restore
<1> QED BY <1>3, <1>4 DEF RawInv

\* The invariant holds before any session.
LEMMA RawInvInit == RawInit => RawInv
<1> SUFFICES ASSUME RawInit PROVE RawInv
  OBVIOUS
<1>1. contexts = <<>> /\ contexts \in Seq(Contexts) /\ DOMAIN contexts = {}
  BY EmptySeq DEF RawInit
<1> QED BY <1>1 DEF RawInit, RawInv, RawTyped, SessionIsOne, FlagsFollow, DepthIsCount, ModeIsRight

\* Every step keeps the invariant.
LEMMA RawInvStep == RawInv /\ [RawNext]_rawVars => RawInv'
<1> SUFFICES ASSUME RawInv, [RawNext]_rawVars PROVE RawInv'
  OBVIOUS
<1>1. CASE UNCHANGED rawVars
  BY <1>1 DEF rawVars, RawInv, RawTyped, SessionIsOne, SessionAt, FlagsFollow, DepthIsCount, Windows,
              ModeIsRight
<1>2. CASE RawNext
  BY <1>2, OpensTheSession, SessionSteps, OpensInside, OpensOutside, ClosesWindow, ClosesInner,
     ReleasesSession, RestoresTerminal DEF RawNext
<1> QED BY <1>1, <1>2

\* The mode is the one the windows ask for.
LEMMA RawIsSafe == RawInv => TerminalIsRestored
<1> SUFFICES ASSUME RawInv PROVE TerminalIsRestored
  OBVIOUS
<1>1. phase = "in" => (depth > 0 <=> \E i \in DOMAIN contexts : contexts[i] = "cooked")
  <2>1. IsFiniteSet(Windows) /\ Cardinality(Windows) \in Nat
    BY WindowsFinite DEF RawInv, RawTyped
  <2>2. Cardinality(Windows) = 0 <=> Windows = {}
    BY <2>1, FS_EmptySet
  <2> QED BY <2>1, <2>2 DEF RawInv, DepthIsCount, Windows
<1> QED BY <1>1 DEF RawInv, ModeIsRight, TerminalIsRestored

\* Whatever opens, nests, ends or is interrupted by a SIGTERM, the terminal is
\* cooked outside a session and inside its windows, and raw in between
\* (raw_mode and cooked_mode of keys.py).
THEOREM TerminalAlwaysRestored == RawSpec => []TerminalIsRestored
<1> QED BY RawInvInit, RawInvStep, RawIsSafe, PTL DEF RawSpec

----------------------------------------------------------------------------
(* The gate at the terminal.  Nothing but a character cut short leaves a   *)
(* byte pushed back, so without one the discard empties what can be read:  *)
(* every press a gate finds was made on its page.                          *)

Pages == [name : PageNames, step : Nat]
Press == [byte : Bytes \ {"lead"}, page : Pages]
Terminals == [tty : Seq(Press), push : {<<>>}]

WalkTyped ==
  /\ steps \in Walks /\ at \in Nat /\ page \in Pages /\ term \in Terminals

\* The review page stays on screen until its gate is answered, and the gate
\* reads what was typed on it.
GateReadsItsPage ==
  /\ walkAt \in {"review", "gate"} => page = Page("review")
  /\ walkAt = "gate" => \A i \in DOMAIN term.tty : term.tty[i].page = page

WalkInv == WalkTyped /\ GateReadsItsPage /\ AppliedByAKeySeen

\* What is typed is known by the page it was typed on.
LEMMA PressTyped ==
  ASSUME NEW t \in Terminals, NEW b \in Bytes \ {"lead"}, NEW p \in Pages
  PROVE  /\ Typed(t, b, p) \in Terminals
         /\ (\A i \in DOMAIN t.tty : t.tty[i].page = p) =>
              \A i \in DOMAIN Typed(t, b, p).tty : Typed(t, b, p).tty[i].page = p
<1> DEFINE press == [byte |-> b, page |-> p]
<1>1. t.tty \in Seq(Press) /\ t.push = <<>> /\ press \in Press
  BY DEF Terminals, Press
<1>2. Typed(t, b, p) = [tty |-> Append(t.tty, press), push |-> <<>>]
  <2>1. t = [tty |-> t.tty, push |-> <<>>]
    BY DEF Terminals
  <2> QED BY <2>1 DEF Typed
<1>3. /\ Append(t.tty, press) \in Seq(Press)
      /\ DOMAIN Append(t.tty, press) = 1 .. Len(t.tty) + 1
      /\ DOMAIN t.tty = 1 .. Len(t.tty) /\ Len(t.tty) \in Nat
      /\ \A i \in 1 .. Len(t.tty) : Append(t.tty, press)[i] = t.tty[i]
      /\ Append(t.tty, press)[Len(t.tty) + 1] = press
  BY <1>1, AppendProperties, LenProperties
<1> QED BY <1>2, <1>3 DEF Terminals

\* A read takes one press off what was typed.
LEMMA ReadsOne ==
  ASSUME NEW t \in Terminals, Pending(t) # <<>>
  PROVE  /\ ReadKey(t).term \in Terminals
         /\ \E i \in DOMAIN t.tty : ReadKey(t).key.page = t.tty[i].page
<1>1. t.tty \in Seq(Press) /\ t.push = <<>> /\ Pending(t) = t.tty
  BY ConcatEmptySeq DEF Terminals, Pending
<1> DEFINE first == Head(t.tty)  rest == Tail(t.tty)
<1>2. first \in Press /\ rest \in Seq(Press) /\ 1 \in DOMAIN t.tty /\ first = t.tty[1]
  BY <1>1, HeadTailProperties, LenProperties, EmptySeq
<1>3. first.byte # "lead"
  BY <1>2 DEF Press
<1>4. CASE first.byte = "esc" /\ rest # <<>>
  <2>1. ReadKey(t) = [term |-> [tty |-> Beheaded(Head(rest)) \o Tail(rest), push |-> <<>>],
                      key |-> first]
    BY <1>1, <1>3, <1>4 DEF ReadKey
  <2>2. Head(rest) \in Press /\ Tail(rest) \in Seq(Press)
    BY <1>2, <1>4, HeadTailProperties
  <2>3. [Head(rest) EXCEPT !.byte = "no"] \in Press /\ [Head(rest) EXCEPT !.byte = "yes"] \in Press
    BY <2>2 DEF Press, Bytes
  <2>4. Beheaded(Head(rest)) \in Seq(Press)
    <3> DEFINE no == [Head(rest) EXCEPT !.byte = "no"]  yes == [Head(rest) EXCEPT !.byte = "yes"]
    <3>1. <<no, yes>> \in Seq(Press) /\ <<>> \in Seq(Press)
      <4>1. no \in Press /\ yes \in Press
        BY <2>3
      <4> HIDE DEF no, yes
      <4> QED BY <4>1
    <3> QED BY <3>1 DEF Beheaded
  <2>5. Beheaded(Head(rest)) \o Tail(rest) \in Seq(Press)
    BY <2>2, <2>4, ConcatProperties
  <2> QED BY <1>2, <2>1, <2>5 DEF Terminals
<1>5. CASE ~(first.byte = "esc" /\ rest # <<>>)
  <2>1. ReadKey(t) =
          [term |-> [tty |-> rest, push |-> <<>>],
           key |-> IF first.byte \in {"lead", "arrow"} THEN [first EXCEPT !.byte = "no"] ELSE first]
    BY <1>1, <1>3, <1>5 DEF ReadKey
  <2>2. ReadKey(t).key.page = first.page
    BY <1>2, <2>1 DEF Press
  <2> QED BY <1>2, <2>1, <2>2 DEF Terminals
<1> QED BY <1>4, <1>5

\* What a page and a reader of it do to the invariant, but for the gate's own.
LEMMA WalkGoesOn ==
  ASSUME WalkInv, term' \in Terminals, at' \in Nat, page' \in Pages, applied' = applied,
         steps' = steps, walkAt' \notin {"review", "gate"}
  PROVE  WalkInv'
  BY DEF WalkInv, WalkTyped, GateReadsItsPage, AppliedByAKeySeen

\* Reading a key takes from what was typed and adds nothing.
LEMMA ReadTyped ==
  ASSUME WalkInv, Pending(term) # <<>>, term' = ReadKey(term).term
  PROVE  term' \in Terminals
  BY ReadsOne DEF WalkInv, WalkTyped

\* The pages of a walk are pages.
LEMMA PageTyped ==
  ASSUME WalkInv, NEW name \in PageNames
  PROVE  Page(name) \in Pages
  BY DEF WalkInv, WalkTyped, Page, Pages

\* The pages before and after the steps.
LEMMA AroundTheSteps ==
  ASSUME WalkInv,
         DrawPreflight \/ Continue \/ OfferRemedy \/ ConfirmRemedy \/ DrawResult \/ Leave
  PROVE  WalkInv'
<1>1. term \in Terminals /\ page \in Pages /\ at \in Nat
  BY DEF WalkInv, WalkTyped
<1>2. applied' = applied /\ steps' = steps /\ at' \in Nat /\ walkAt' \notin {"review", "gate"}
  BY <1>1 DEF DrawPreflight, Continue, OfferRemedy, ConfirmRemedy, DrawResult, Leave, Reads
<1>3. page' \in Pages
  BY <1>1, PageTyped
     DEF DrawPreflight, Continue, OfferRemedy, ConfirmRemedy, DrawResult, Leave, Reads, PageNames
<1>4. term' = term \/ (Pending(term) # <<>> /\ term' = ReadKey(term).term)
  BY DEF DrawPreflight, Continue, OfferRemedy, ConfirmRemedy, DrawResult, Leave, Reads
<1> QED BY <1>1, <1>2, <1>3, <1>4, ReadTyped, WalkGoesOn

\* The steps, up to the review page.
LEMMA WithinTheSteps ==
  ASSUME WalkInv,
         JoinWorker \/ PollCancel \/ AwaitKey \/ AllStepsDone
  PROVE  WalkInv'
<1>1. term \in Terminals /\ page \in Pages /\ at \in Nat
  BY DEF WalkInv, WalkTyped
<1>2. applied' = applied /\ steps' = steps /\ at' \in Nat /\ walkAt' \notin {"review", "gate"}
      /\ page' = page
  BY <1>1 DEF JoinWorker, PollCancel, AwaitKey, AllStepsDone, Reads
<1>3. term' = term \/ (Pending(term) # <<>> /\ term' = ReadKey(term).term)
  BY DEF JoinWorker, PollCancel, AwaitKey, AllStepsDone, Reads
<1> QED BY <1>1, <1>2, <1>3, ReadTyped, WalkGoesOn

\* A worker that ends shows nothing and reads nothing.
LEMMA WorkerEndsAnywhere ==
  ASSUME WalkInv, WorkerEnds \/ UNCHANGED walkVars
  PROVE  WalkInv'
  BY DEF WorkerEnds, walkVars, WalkInv, WalkTyped, GateReadsItsPage, AppliedByAKeySeen, Page

\* A step of the walk opens on a page of its own.
LEMMA StartsStep ==
  ASSUME WalkInv, StartStep
  PROVE  WalkInv'
<1>1. steps[at] \in Kinds
  <2>1. steps \in Seq(Kinds) /\ at \in DOMAIN steps
    BY WalkAssumption DEF StartStep, WalkInv, WalkTyped
  <2> QED BY <2>1, LenProperties
<1>2. UNCHANGED <<steps, term, at, applied>>
      /\ \/ walkAt' = "animating" /\ page' = Page("progress")
         \/ walkAt' = "awaiting" /\ page' = Page("note")
         \/ walkAt' = "review" /\ page' = Page("review")
  BY <1>1 DEF StartStep, Kinds
<1>3. page' \in Pages
  BY <1>2, PageTyped DEF PageNames
<1> QED BY <1>2, <1>3 DEF WalkInv, WalkTyped, GateReadsItsPage, AppliedByAKeySeen, Page

\* What is discarded is all there is to read.
LEMMA Discards ==
  ASSUME WalkInv, DiscardTyped
  PROVE  WalkInv'
<1>1. term' = [tty |-> <<>>, push |-> <<>>]
  <2>1. term = [tty |-> term.tty, push |-> <<>>]
    BY DEF WalkInv, WalkTyped, Terminals
  <2> QED BY <2>1 DEF DiscardTyped, Discarded
<1>2. term' \in Terminals /\ DOMAIN term'.tty = {}
  BY <1>1, EmptySeq DEF Terminals
<1> QED BY <1>2 DEF DiscardTyped, WalkInv, WalkTyped, GateReadsItsPage, AppliedByAKeySeen, Page

\* What the gate reads was typed on its own page.
LEMMA AnswersGate ==
  ASSUME WalkInv, AnswerGate
  PROVE  WalkInv'
<1> DEFINE k == ReadKey(term).key
<1>1. term \in Terminals /\ Pending(term) # <<>> /\ term' = ReadKey(term).term /\ walkAt = "gate"
      /\ UNCHANGED <<steps, page>> /\ steps \in Walks /\ at \in Nat /\ page \in Pages
  BY DEF AnswerGate, Reads, WalkInv, WalkTyped
<1>2. \/ applied' = applied \cup {[step |-> at, page |-> k.page]} /\ walkAt' = "step" /\ at' = at + 1
      \/ applied' = applied /\ walkAt' = "result" /\ at' = at
  BY DEF AnswerGate, Answer
<1>3. k.page = Page("review") /\ term' \in Terminals
  BY <1>1, ReadsOne DEF WalkInv, GateReadsItsPage
<1>4. AppliedByAKeySeen'
  <2>1. [step |-> at, page |-> k.page].page = [name |-> "review", step |-> [step |-> at, page |-> k.page].step]
    BY <1>3 DEF Page
  <2> QED BY <1>2, <2>1 DEF WalkInv, AppliedByAKeySeen
<1> QED BY <1>1, <1>2, <1>3, <1>4 DEF WalkInv, WalkTyped, GateReadsItsPage

\* A key typed at the gate is typed on its page.
LEMMA OperatorPresses ==
  ASSUME "lead" \notin Presses, WalkInv, NEW b \in Presses, PressWalk(b)
  PROVE  WalkInv'
<1>1. b \in Bytes \ {"lead"}
  BY WalkAssumption
<1>2. term \in Terminals /\ page \in Pages /\ term' = Typed(term, b, page)
      /\ UNCHANGED <<steps, at, walkAt, page, applied>>
  BY DEF PressWalk, WalkInv, WalkTyped
<1>3. term' \in Terminals
  BY <1>1, <1>2, PressTyped
<1>4. walkAt = "gate" => \A i \in DOMAIN term'.tty : term'.tty[i].page = page
  BY <1>1, <1>2, PressTyped DEF WalkInv, GateReadsItsPage
<1> QED BY <1>2, <1>3, <1>4 DEF WalkInv, WalkTyped, GateReadsItsPage, AppliedByAKeySeen, Page

\* The walk begins with an empty terminal, at no gate.
LEMMA WalkStarts == WalkInit => WalkInv
<1> SUFFICES ASSUME WalkInit PROVE WalkInv
  OBVIOUS
<1>1. term \in Terminals /\ page \in Pages
  BY EmptySeq DEF WalkInit, EmptyTerminal, Terminals, Pages, PageNames
<1> QED BY <1>1 DEF WalkInit, WalkInv, WalkTyped, GateReadsItsPage, AppliedByAKeySeen

\* Every step keeps it, if every character comes whole.
LEMMA WalkKeepsOn ==
  ASSUME "lead" \notin Presses, WalkInv, [WalkNext]_walkVars
  PROVE  WalkInv'
<1>1. CASE \E b \in Presses : PressWalk(b)
  BY <1>1, OperatorPresses
<1> QED BY <1>1, AroundTheSteps, WithinTheSteps, WorkerEndsAnywhere, StartsStep, Discards,
           AnswersGate DEF WalkNext

\* No write is confirmed by a key typed ahead of its review page, whatever the
\* walk and however the keys come, if every character comes whole (confirm_apply
\* and discard_pending; the run gate_pushback shows why the condition is there).
THEOREM NoWriteByTypeAhead ==
  ASSUME "lead" \notin Presses
  PROVE  WalkSpec => []AppliedByAKeySeen
<1>1. WalkInv /\ [WalkNext]_walkVars => WalkInv'
  BY WalkKeepsOn
<1>2. WalkInv => AppliedByAKeySeen
  BY DEF WalkInv
<1> QED BY <1>1, <1>2, WalkStarts, PTL DEF WalkSpec

----------------------------------------------------------------------------
(* Home.  A capture nothing acted after has read the world as it is, and   *)
(* a Home without a capture in flight or a failed one shows it; what opens *)
(* something waits until no capture is in flight.                          *)

Refreshes == [status : {"none", "running", "ready", "raised"}, at : Nat, superseded : BOOLEAN]

RefreshTyped ==
  /\ refresh \in Refreshes /\ world \in Nat
  /\ refresh.at <= world
  /\ refresh.status = "none" => refresh = NoRefresh

\* A capture about to be dropped need not be fresh.
CaptureIsFresh ==
  /\ refresh.status \in {"running", "ready"} /\ ~refresh.superseded /\ home # "drop" =>
       refresh.at = world
  /\ home = "loading" => ~refresh.superseded

StateIsFresh ==
  /\ refresh = NoRefresh
  /\ ~failed
  /\ home \notin {"loading", "load_failed", "recapture", "drop", "closed"}
  => state = world

CaptureRunsAlone ==
  /\ ~Instant => refresh = NoRefresh /\ home \notin {"loading", "load_failed"}
  /\ mode # "actnow" /\ refresh # NoRefresh =>
       /\ home # "recapture"
       /\ home \in {"offer", "claimed", "nested"} => key.kind \in {"move", "grab", "r", "help"}

HomeInv ==
  RefreshTyped /\ CaptureIsFresh /\ StateIsFresh /\ CaptureRunsAlone /\ EmittedHomeIsLive

\* A capture begun now, field by field.
LEMMA CaptureNow ==
  ASSUME world \in Nat
  PROVE  /\ Capture \in Refreshes
         /\ Capture.status = "running" /\ Capture.at = world /\ ~Capture.superseded
         /\ Capture # NoRefresh
  BY DEF Capture, Refreshes, NoRefresh

\* A capture of the world w.
LEMMA CaptureOf ==
  ASSUME NEW w \in Nat, world \in Nat, NEW c, c = [Capture EXCEPT !.at = w]
  PROVE  /\ c \in Refreshes
         /\ c.status = "running" /\ c.at = w /\ ~c.superseded
<1>1. c = [status |-> Capture.status, at |-> w, superseded |-> Capture.superseded]
  BY CaptureNow DEF Refreshes
<1> QED BY <1>1, CaptureNow DEF Refreshes

\* No capture, field by field.
LEMMA NoCapture ==
  /\ NoRefresh \in Refreshes
  /\ NoRefresh.status = "none" /\ NoRefresh.at = 0 /\ ~NoRefresh.superseded
  BY DEF Refreshes, NoRefresh

\* What a request leaves: a capture of the world, or one to be followed.
LEMMA RequestFollows ==
  ASSUME RefreshTyped, NEW w \in Nat, w >= world, NEW supersede \in BOOLEAN,
         refresh' = Requested(w, supersede)
  PROVE  /\ refresh' \in Refreshes /\ refresh' # NoRefresh /\ refresh'.at <= w
         /\ refresh'.status # "none"
         /\ \/ refresh'.at = w
            \/ refresh'.superseded
            \/ /\ refresh'.at = refresh.at /\ refresh'.status = refresh.status
               /\ refresh'.superseded = refresh.superseded /\ ~supersede
<1>1. CASE refresh = NoRefresh
  <2>1. refresh' = [Capture EXCEPT !.at = w] /\ world \in Nat
    BY <1>1 DEF Requested, RefreshTyped
  <2>2. /\ refresh' \in Refreshes
        /\ refresh'.status = "running" /\ refresh'.at = w /\ ~refresh'.superseded
    BY <2>1, CaptureOf
  <2> QED BY <2>2, NoCapture
<1>2. CASE refresh # NoRefresh
  <2>1. refresh' = [status |-> refresh.status, at |-> refresh.at,
                    superseded |-> (refresh.superseded \/ supersede)]
    BY <1>2 DEF Requested, RefreshTyped, Refreshes
  <2>2. (refresh.superseded \/ supersede) \in BOOLEAN
    OBVIOUS
  <2>3. refresh.status # "none" /\ refresh.at \in Nat /\ refresh.at <= w
    BY <1>2 DEF RefreshTyped, Refreshes
  <2> QED BY <1>2, <2>1, <2>2, <2>3 DEF Refreshes, RefreshTyped, NoRefresh
<1> QED BY <1>1, <1>2

\* What is settled is the world, a failure, or a capture that follows.
LEMMA SettlesFresh ==
  ASSUME HomeInv, Settle, home # "drop", UNCHANGED world
  PROVE  /\ RefreshTyped'
         /\ refresh' # NoRefresh => refresh'.at = world /\ ~refresh'.superseded
         /\ refresh' = NoRefresh /\ ~failed' => state' = world
<1>1. refresh \in Refreshes /\ world \in Nat
  BY DEF HomeInv, RefreshTyped
<1>2. CASE refresh.superseded
  <2>1. refresh' = Capture /\ world' = world
    BY <1>2 DEF Settle
  <2> QED BY <1>1, <2>1, CaptureNow DEF RefreshTyped
<1>3. CASE ~refresh.superseded
  <2>1. refresh' = NoRefresh /\ world' = world
    BY <1>3 DEF Settle
  <2>2. RefreshTyped'
    BY <1>1, <2>1, NoCapture DEF RefreshTyped
  <2>3. ~failed' => state' = world
    BY <1>3 DEF Settle, Done, HomeInv, CaptureIsFresh
  <2> QED BY <2>1, <2>2, <2>3
<1> QED BY <1>2, <1>3

\* What a capture reads is no older than when it began.
LEMMA CaptureGoesOn ==
  ASSUME HomeInv, CaptureStep
  PROVE  HomeInv'
<1>1. CASE CaptureReads
  <2>1. PICK v \in refresh.at .. world : refresh' = [refresh EXCEPT !.status = "ready", !.at = v]
    BY <1>1 DEF CaptureReads
  <2>2. refresh' = [status |-> "ready", at |-> v, superseded |-> refresh.superseded]
    BY <2>1 DEF HomeInv, RefreshTyped, Refreshes
  <2>3. v \in Nat /\ v <= world
    BY <2>1 DEF HomeInv, RefreshTyped, Refreshes
  <2>4. RefreshTyped' /\ refresh' # NoRefresh
    BY <1>1, <2>2, <2>3 DEF CaptureReads, HomeInv, RefreshTyped, Refreshes, NoRefresh
  <2>5. CaptureIsFresh'
    BY <1>1, <2>1, <2>2, <2>3 DEF CaptureReads, HomeInv, CaptureIsFresh, RefreshTyped, Refreshes
  <2>6. refresh # NoRefresh
    BY <1>1 DEF CaptureReads, NoRefresh
  <2> QED BY <1>1, <2>4, <2>5, <2>6
          DEF CaptureReads, HomeInv, StateIsFresh, CaptureRunsAlone, EmittedHomeIsLive, Instant
<1>2. CASE CaptureRaises
  <2>1. refresh' = [status |-> "raised", at |-> refresh.at, superseded |-> refresh.superseded]
    BY <1>2 DEF CaptureRaises, HomeInv, RefreshTyped, Refreshes
  <2>2. RefreshTyped' /\ refresh' # NoRefresh /\ refresh # NoRefresh
    BY <1>2, <2>1 DEF CaptureRaises, HomeInv, RefreshTyped, Refreshes, NoRefresh
  <2>3. CaptureIsFresh'
    BY <1>2, <2>1 DEF CaptureRaises, HomeInv, CaptureIsFresh
  <2> QED BY <1>2, <2>2, <2>3
          DEF CaptureRaises, HomeInv, StateIsFresh, CaptureRunsAlone, EmittedHomeIsLive, Instant
<1> QED BY <1>1, <1>2 DEF CaptureStep

\* The loading page ends on the world as it is, or says it cannot.
LEMMA LoadingPage ==
  ASSUME HomeInv, LoadEnds \/ LoadPolls \/ LoadAgain
  PROVE  HomeInv'
<1>0. world \in Nat /\ Instant /\ (home = "loading" => ~refresh.superseded)
  BY DEF LoadEnds, LoadPolls, LoadAgain, HomeInv, RefreshTyped, CaptureRunsAlone, CaptureIsFresh
<1>1. CASE LoadEnds
  <2>1. refresh.status = "ready" => state' = world
    BY <1>1 DEF LoadEnds, HomeInv, CaptureIsFresh
  <2>2. RefreshTyped' /\ CaptureIsFresh'
    BY <1>0, <1>1, NoCapture DEF LoadEnds, RefreshTyped, CaptureIsFresh
  <2>3. StateIsFresh'
    BY <1>1, <2>1 DEF LoadEnds, StateIsFresh
  <2>4. CaptureRunsAlone' /\ EmittedHomeIsLive'
    BY <1>0, <1>1 DEF LoadEnds, CaptureRunsAlone, EmittedHomeIsLive, HomeInv, Instant
  <2> QED BY <2>2, <2>3, <2>4 DEF HomeInv
<1>2. CASE LoadPolls
  BY <1>2 DEF LoadPolls, HomeInv, RefreshTyped, CaptureIsFresh, StateIsFresh, CaptureRunsAlone,
              EmittedHomeIsLive, Instant
<1>3. CASE LoadAgain
  <2>1. CASE refresh' = refresh /\ home' = "closed"
    BY <1>3, <2>1 DEF LoadAgain, HomeInv, RefreshTyped, CaptureIsFresh, StateIsFresh,
                      CaptureRunsAlone, EmittedHomeIsLive, Instant
  <2>2. CASE refresh' = Capture /\ home' = "loading"
    <3>1. RefreshTyped' /\ CaptureIsFresh' /\ StateIsFresh'
      BY <1>0, <1>3, <2>2, CaptureNow DEF LoadAgain, RefreshTyped, CaptureIsFresh, StateIsFresh
    <3>2. CaptureRunsAlone' /\ EmittedHomeIsLive'
      BY <1>0, <1>3, <2>2 DEF LoadAgain, CaptureRunsAlone, EmittedHomeIsLive, HomeInv, Instant
    <3> QED BY <3>1, <3>2 DEF HomeInv
  <2> QED BY <1>3, <2>1, <2>2 DEF LoadAgain
<1> QED BY <1>1, <1>2, <1>3

\* Steps of the loop that leave the capture alone.
LEMMA LoopGoesOn ==
  ASSUME HomeInv,
         NothingToSwap \/ Paint \/ NoPaint \/ RefreshWakes \/ TakeKey \/ AnswerQuit
         \/ FinishingShown \/ NestedReads \/ Recapture \/ RecaptureRaises
         \/ (\E k \in Keys : PressHome(k)) \/ UNCHANGED homeVars
  PROVE  HomeInv'
<1>1. UNCHANGED <<mode, world, refresh>>
  BY DEF NothingToSwap, Paint, NoPaint, RefreshWakes, TakeKey, AnswerQuit, FinishingShown,
         NestedReads, Recapture, RecaptureRaises, PressHome, homeVars
<1>2. home' \notin {"loading", "load_failed", "drop"} \/ home' = home
  BY DEF NothingToSwap, Paint, NoPaint, RefreshWakes, TakeKey, AnswerQuit, FinishingShown,
         NestedReads, Recapture, RecaptureRaises, PressHome, homeVars
<1>3. RefreshTyped' /\ CaptureIsFresh'
  <2>1. home # "drop" \/ home' = home
    BY DEF NothingToSwap, Paint, NoPaint, RefreshWakes, TakeKey, AnswerQuit, FinishingShown,
           NestedReads, Recapture, RecaptureRaises, PressHome, homeVars
  <2> QED BY <1>1, <1>2, <2>1 DEF HomeInv, RefreshTyped, CaptureIsFresh
<1>4. StateIsFresh'
  BY <1>1 DEF HomeInv, StateIsFresh, NothingToSwap, Paint, NoPaint, RefreshWakes, TakeKey,
              AnswerQuit, FinishingShown, NestedReads, Recapture, RecaptureRaises, PressHome, homeVars
<1>5. CaptureRunsAlone'
  <2>1. CASE TakeKey
    BY <1>1, <2>1 DEF HomeInv, CaptureRunsAlone, TakeKey, Waits, Instant
  <2>2. CASE ~TakeKey
    <3>1. key' = key /\ (home' \notin {"offer", "claimed", "nested", "recapture"} \/ home' = home)
      BY <2>2 DEF NothingToSwap, Paint, NoPaint, RefreshWakes, AnswerQuit, FinishingShown,
             NestedReads, Recapture, RecaptureRaises, PressHome, homeVars
    <3> QED BY <1>1, <1>2, <3>1 DEF HomeInv, CaptureRunsAlone, Instant
  <2> QED BY <2>1, <2>2
<1>6. EmittedHomeIsLive'
  <2>1. CASE Paint
    <3>1. Mark = "live" => state = world
      BY <2>1 DEF Paint, Mark, HomeInv, StateIsFresh
    <3> QED BY <2>1, <3>1 DEF Paint, HomeInv, EmittedHomeIsLive
  <2>2. CASE ~Paint
    BY <2>2 DEF HomeInv, EmittedHomeIsLive, NothingToSwap, NoPaint, RefreshWakes, TakeKey,
              AnswerQuit, FinishingShown, NestedReads, Recapture, RecaptureRaises, PressHome, homeVars
  <2> QED BY <2>1, <2>2
<1> QED BY <1>3, <1>4, <1>5, <1>6 DEF HomeInv

\* A capture swapped in is the world, or is followed by another.
LEMMA LoopSettles ==
  ASSUME HomeInv, SwapIn \/ FinishRefresh
  PROVE  HomeInv'
<1>1. Settle /\ home \in {"top", "finish"} /\ Done /\ UNCHANGED <<mode, world, key, emitted>>
      /\ (home' \in {"paint", "finish"} \/ (home' = "offer" /\ refresh' = NoRefresh))
  BY DEF SwapIn, FinishRefresh, Settle
<1>2. RefreshTyped' /\ (refresh' # NoRefresh => refresh'.at = world /\ ~refresh'.superseded)
      /\ (refresh' = NoRefresh /\ ~failed' => state' = world)
  BY <1>1, SettlesFresh
<1>3. CaptureIsFresh'
  BY <1>1, <1>2 DEF CaptureIsFresh, NoRefresh
<1>4. Instant
  BY <1>1 DEF HomeInv, CaptureRunsAlone, Done, NoRefresh
<1> QED BY <1>1, <1>2, <1>3, <1>4 DEF HomeInv, StateIsFresh, CaptureRunsAlone, EmittedHomeIsLive, Instant

\* Once something has acted, no capture that joins is taken for a fresh one.
LEMMA Supersedes ==
  ASSUME HomeInv, world' \in {world, world + 1}, refresh' = Requested(world', TRUE),
         home' = "top", failed' = FALSE
  PROVE  RefreshTyped' /\ CaptureIsFresh' /\ StateIsFresh'
<1>1. world' \in Nat /\ world' >= world
  BY DEF HomeInv, RefreshTyped
<1>2. RefreshTyped
  BY DEF HomeInv
<1>3. /\ refresh' \in Refreshes /\ refresh' # NoRefresh /\ refresh'.at <= world'
      /\ refresh'.status # "none"
      /\ refresh'.at = world' \/ refresh'.superseded
  BY <1>1, <1>2, RequestFollows
<1> QED BY <1>1, <1>3 DEF RefreshTyped, CaptureIsFresh, StateIsFresh

\* A key is offered, and r asks for a capture or joins the one in flight.
LEMMA KeyIsOffered ==
  ASSUME HomeInv, Offer
  PROVE  HomeInv'
<1>1. home = "offer" /\ UNCHANGED <<mode, key, world, state, emitted>>
      /\ home' \in {"claimed", "nested", "top", "recapture"}
      /\ (home' = "recapture" => ~Instant)
  BY DEF Offer
<1>2. RefreshTyped' /\ CaptureIsFresh' /\ StateIsFresh'
  <2>1. CASE key.kind = "r" /\ Instant
    <3>1. refresh' = Requested(world, FALSE) /\ failed' = FALSE
      BY <2>1 DEF Offer
    <3>2. RefreshTyped /\ world \in Nat /\ world >= world
      BY DEF HomeInv, RefreshTyped
    <3>3. /\ refresh' \in Refreshes /\ refresh' # NoRefresh /\ refresh'.at <= world
          /\ refresh'.status # "none"
          /\ \/ refresh'.at = world
             \/ refresh'.superseded
             \/ /\ refresh'.at = refresh.at /\ refresh'.status = refresh.status
                /\ refresh'.superseded = refresh.superseded
      BY <3>1, <3>2, RequestFollows
    <3> QED BY <1>1, <3>2, <3>3 DEF HomeInv, RefreshTyped, CaptureIsFresh, StateIsFresh
  <2>2. CASE ~(key.kind = "r" /\ Instant)
    BY <1>1, <2>2 DEF Offer, HomeInv, RefreshTyped, CaptureIsFresh, StateIsFresh
  <2> QED BY <2>1, <2>2
<1>3. CaptureRunsAlone'
  <2>1. Instant => home' # "recapture"
    BY <1>1
  <2>2. ~Instant => refresh' = NoRefresh
    BY DEF Offer, HomeInv, CaptureRunsAlone
  <2>3. mode # "actnow" /\ refresh # NoRefresh => key.kind \in {"move", "grab", "r", "help"}
    BY <1>1 DEF HomeInv, CaptureRunsAlone
  <2>4. refresh = NoRefresh => refresh' = NoRefresh \/ home' = "top"
    BY DEF Offer
  <2> QED BY <1>1, <2>1, <2>2, <2>3, <2>4 DEF CaptureRunsAlone, Instant
<1> QED BY <1>1, <1>2, <1>3 DEF HomeInv, EmittedHomeIsLive

\* What a key opened ends, and Home is captured anew.
LEMMA KeyEnds ==
  ASSUME HomeInv, ClaimedEnds \/ DropRefresh \/ NestedEnds
  PROVE  HomeInv'
<1>1. CASE DropRefresh
  <2>1. world \in Nat
    BY DEF HomeInv, RefreshTyped
  <2> QED BY <1>1, <2>1, NoCapture
          DEF DropRefresh, HomeInv, RefreshTyped, CaptureIsFresh, StateIsFresh, CaptureRunsAlone,
              EmittedHomeIsLive, Instant
<1>2. CASE (ClaimedEnds /\ mode = "actnow") \/ (NestedEnds /\ Instant)
  <2>1. /\ world' \in {world, world + 1} /\ refresh' = Requested(world', TRUE)
        /\ home' = "top" /\ failed' = FALSE /\ mode' = mode /\ emitted' = emitted /\ Instant
    BY <1>2 DEF ClaimedEnds, NestedEnds, Instant
  <2>2. RefreshTyped' /\ CaptureIsFresh' /\ StateIsFresh'
    BY <2>1, Supersedes
  <2> QED BY <2>1, <2>2 DEF HomeInv, CaptureRunsAlone, EmittedHomeIsLive, Instant
<1>3. CASE (ClaimedEnds /\ mode # "actnow") \/ (NestedEnds /\ ~Instant)
  <2>1. /\ world' \in {world, world + 1} /\ refresh' = refresh
        /\ home' = IF refresh = NoRefresh THEN "recapture" ELSE "drop"
        /\ mode' = mode /\ emitted' = emitted /\ key' = key
    BY <1>3 DEF ClaimedEnds, NestedEnds, HomeInv, CaptureRunsAlone
  <2>2. RefreshTyped'
    BY <2>1 DEF HomeInv, RefreshTyped, Refreshes
  <2>3. CaptureIsFresh' /\ StateIsFresh'
    BY <2>1, NoCapture DEF CaptureIsFresh, StateIsFresh
  <2> QED BY <2>1, <2>2, <2>3 DEF HomeInv, CaptureRunsAlone, EmittedHomeIsLive, Instant
<1> QED BY <1>1, <1>2, <1>3

\* The invariant holds when Home opens.
LEMMA HomeOpens == HomeInit => HomeInv
<1> SUFFICES ASSUME HomeInit PROVE HomeInv
  OBVIOUS
<1>1. world = 1 /\ world \in Nat /\ mode \in {"plain", "instant", "actnow"}
      /\ emitted.at = emitted.world
  BY HomeAssumption DEF HomeInit
<1>2. CASE mode = "plain"
  <2>1. home = "top" /\ refresh = NoRefresh /\ state = world
    BY <1>2 DEF HomeInit
  <2> QED BY <1>1, <1>2, <2>1, NoCapture DEF HomeInv, RefreshTyped, CaptureIsFresh, StateIsFresh,
             CaptureRunsAlone, EmittedHomeIsLive, Instant
<1>3. CASE mode # "plain"
  <2>1. home \in {"top", "loading"} /\ refresh = Capture
    BY <1>3 DEF HomeInit
  <2> QED BY <1>1, <1>3, <2>1, CaptureNow DEF HomeInv, RefreshTyped, CaptureIsFresh, StateIsFresh,
             CaptureRunsAlone, EmittedHomeIsLive, Instant
<1> QED BY <1>2, <1>3

\* Every step keeps it.
LEMMA HomeGoesOn == HomeInv /\ [HomeNext]_homeVars => HomeInv'
<1> SUFFICES ASSUME HomeInv, [HomeNext]_homeVars PROVE HomeInv'
  OBVIOUS
<1> QED BY CaptureGoesOn, LoadingPage, LoopGoesOn, LoopSettles, KeyIsOffered, KeyEnds
        DEF HomeNext, MainStep

\* It makes Home safe.
LEMMA HomeIsSafe == HomeInv => HomeSafe
  BY DEF HomeInv, CaptureRunsAlone, HomeSafe, OneThreadAtATime, NoRefresh

\* However captures, keys and jobs fall, what reaches the observer was captured
\* after everything done before, and no job runs beside a capture unless the
\* worker allows it (the refresh loop of run_shell).
THEOREM HomeAlwaysSafe == HomeSpec => []HomeSafe
<1> QED BY HomeOpens, HomeGoesOn, HomeIsSafe, PTL DEF HomeSpec

----------------------------------------------------------------------------
(* Doctor.  The fixes that can be run are listed by rank: the k-th of them  *)
(* is the one with k of them up to it, which the least-element principle    *)
(* shows to be there.  The cursor follows the fix chosen, and not a number. *)

(* A set of natural numbers has a least one.                                *)
LEMMA LeastOf == ASSUME NEW T, T \subseteq Nat, T # {} PROVE \E m \in T : \A k \in T : m <= k
<1> DEFINE R == OpToRel(<, Nat)
<1>1. IsWellFoundedOn(R, Nat)
  BY NatLessThanWellFounded
<1>2. PICK m \in T : \A k \in T : ~(<<k, m>> \in R)
  <2> HIDE DEF R
  <2> QED BY <1>1, WFMin
<1>3. ASSUME NEW k \in T PROVE m <= k
  <2>1. m \in Nat /\ k \in Nat
    BY <1>2
  <2>2. ~(k < m)
    BY <1>2, <2>1 DEF OpToRel
  <2>3. QED
    BY <2>1, <2>2
<1>4. QED
  BY <1>2, <1>3

(* The k-th of the fixes that can be run.                                   *)
LEMMA KthKept ==
  ASSUME NEW s, s.fixes \in Seq({s.fixes[i] : i \in DOMAIN s.fixes}), NEW k \in 1 .. Cardinality(Kept(s))
  PROVE  \E i \in Kept(s) : Cardinality(KeptTo(s, i)) = k
<1> DEFINE n == Len(s.fixes)
<1>1. n \in Nat /\ DOMAIN s.fixes = 1 .. n
  BY LenProperties
<1>2. IsFiniteSet(Kept(s)) /\ Kept(s) \subseteq 1 .. n
  <2>1. IsFiniteSet(1 .. Len(s.fixes))
    <3>1. Len(s.fixes) \in Nat
      BY <1>1
    <3>2. QED
      BY <3>1, FS_Interval
  <2>2. Kept(s) \subseteq 1 .. n
    BY <1>1 DEF Kept
  <2>3. QED
    BY <2>1, <2>2, FS_Subset
<1>3. \A m \in Nat : IsFiniteSet(KeptTo(s, m)) /\ Cardinality(KeptTo(s, m)) \in Nat
  <2> TAKE m \in Nat
  <2>1. KeptTo(s, m) \subseteq Kept(s)
    BY DEF KeptTo
  <2>2. IsFiniteSet(KeptTo(s, m))
    BY <1>2, <2>1, FS_Subset
  <2>3. QED
    BY <2>2, FS_CardinalityType
<1>4. Cardinality(Kept(s)) \in Nat /\ k \in Nat \ {0} /\ k <= Cardinality(Kept(s))
  <2>1. Cardinality(Kept(s)) \in Nat
    BY <1>2, FS_CardinalityType
  <2>2. QED
    BY <2>1
<1> DEFINE T == {m \in Nat : Cardinality(KeptTo(s, m)) >= k}
<1>5. n \in T
  <2>1. KeptTo(s, n) = Kept(s)
    BY <1>1, <1>2 DEF KeptTo
  <2>2. QED
    BY <1>1, <1>4, <2>1
<1>6. PICK m \in T : \A j \in T : m <= j
  <2>1. T \subseteq Nat /\ T # {}
    BY <1>5
  <2> HIDE DEF T
  <2>2. QED
    BY <2>1, LeastOf
<1>7. m \in Nat /\ Cardinality(KeptTo(s, m)) >= k
  BY <1>6
<1>8. m # 0
  <2>1. KeptTo(s, 0) = {}
    BY <1>1, <1>2 DEF KeptTo
  <2>2. Cardinality(KeptTo(s, 0)) = 0
    BY <2>1, FS_EmptySet
  <2>3. QED
    BY <1>4, <1>7, <2>2
<1>9. PICK l \in Nat : m = l + 1
  BY <1>7, <1>8
<1>10. Cardinality(KeptTo(s, l)) < k
  <2>1. l \notin T
    BY <1>6, <1>9
  <2>2. ~(Cardinality(KeptTo(s, l)) >= k)
    BY <2>1
  <2>3. QED
    BY <1>3, <1>4, <2>2
<1>11. KeptTo(s, m) = IF m \in Kept(s) THEN KeptTo(s, l) \cup {m} ELSE KeptTo(s, l)
  <2>1. \A j \in Kept(s) : j \in Nat
    BY <1>1, <1>2
  <2>2. \A j \in Nat : j <= m <=> j <= l \/ j = m
    BY <1>9
  <2>3. QED
    BY <2>1, <2>2 DEF KeptTo
<1>12. m \in Kept(s)
  BY <1>3, <1>4, <1>7, <1>10, <1>11
<1>13. Cardinality(KeptTo(s, m)) = Cardinality(KeptTo(s, l)) + 1
  <2>1. m \notin KeptTo(s, l)
    BY <1>9 DEF KeptTo
  <2>2. KeptTo(s, m) = KeptTo(s, l) \cup {m}
    BY <1>11, <1>12
  <2>3. Cardinality(KeptTo(s, l) \cup {m}) = Cardinality(KeptTo(s, l)) + 1
    BY <1>3, <2>1, FS_AddElement
  <2>4. QED
    BY <2>2, <2>3
<1>14. Cardinality(KeptTo(s, m)) = k
  BY <1>3, <1>4, <1>7, <1>9, <1>10, <1>13
<1>15. QED
  BY <1>12, <1>14

(* They are a sequence, and each of them one that can be run.               *)
LEMMA RunnableRows ==
  ASSUME NEW s, s.fixes \in Seq({s.fixes[i] : i \in DOMAIN s.fixes})
  PROVE  /\ Runnable(s) \in Seq({f \in {s.fixes[i] : i \in DOMAIN s.fixes} : f.kind # "display"})
         /\ Len(Runnable(s)) \in Nat /\ DOMAIN Runnable(s) = 1 .. Len(Runnable(s))
<1> DEFINE S == {f \in {s.fixes[i] : i \in DOMAIN s.fixes} : f.kind # "display"}
<1>1. Cardinality(Kept(s)) \in Nat
  <2>1. IsFiniteSet(1 .. Len(s.fixes)) /\ DOMAIN s.fixes = 1 .. Len(s.fixes)
    <3>1. Len(s.fixes) \in Nat /\ DOMAIN s.fixes = 1 .. Len(s.fixes)
      BY LenProperties
    <3>2. QED
      BY <3>1, FS_Interval
  <2>2. Kept(s) \subseteq 1 .. Len(s.fixes)
    BY <2>1 DEF Kept
  <2>3. IsFiniteSet(Kept(s))
    BY <2>1, <2>2, FS_Subset
  <2>4. QED
    BY <2>3, FS_CardinalityType
<1>2. ASSUME NEW k \in 1 .. Cardinality(Kept(s))
      PROVE  s.fixes[CHOOSE i \in Kept(s) : Cardinality(KeptTo(s, i)) = k] \in S
  <2>1. (CHOOSE i \in Kept(s) : Cardinality(KeptTo(s, i)) = k) \in Kept(s)
    BY KthKept
  <2>2. \A i \in Kept(s) : s.fixes[i] \in S
    BY DEF Kept
  <2>3. QED
    BY <2>1, <2>2
<1>3. Runnable(s) \in [1 .. Cardinality(Kept(s)) -> S]
  <2> HIDE DEF S
  <2> QED BY <1>2 DEF Runnable
<1>4. Runnable(s) \in Seq(S)
  <2> HIDE DEF S
  <2> QED BY <1>1, <1>3, IsASeq
<1>5. QED
  <2> HIDE DEF S
  <2>1. Len(Runnable(s)) \in Nat /\ DOMAIN Runnable(s) = 1 .. Len(Runnable(s))
    BY <1>4, LenProperties
  <2>2. QED
    BY <1>4, <2>1 DEF S

(* The first of some rows is one of them.                                   *)
LEMMA FirstFound == ASSUME NEW found, found \subseteq Nat \ {0}, First(found) # 0 PROVE First(found) \in found
<1>1. found # {} /\ First(found) = CHOOSE i \in found : \A j \in found : i <= j
  BY DEF First
<1>2. \E i \in found : \A j \in found : i <= j
  <2>1. found \subseteq Nat
    OBVIOUS
  <2>2. QED
    BY <1>1, <2>1, LeastOf
<1>3. QED
  BY <1>1, <1>2


(* Doctor holds one of its reports and is at one of its steps.              *)
DoctorTyped ==
  /\ snap \in Rebuilt /\ serial \in Nat /\ attempts \in Nat /\ sel \in Nat \ {0}
  /\ pending \in BOOLEAN /\ explicit \in BOOLEAN
  /\ doctor \in {"top", "keys", "running", "closed"}

(* A choice is of the list at hand.                                         *)
ChoiceFits == (explicit => chosen = serial) /\ NoBlindRun

(* The cursor is on the fix last chosen or run, on one of its probe, or on  *)
(* the first; or a list that has it is still to come.                       *)
SameFix(f, t) == f.id = t.id \/ f.probe = t.probe
OnTheChosen ==
  sel \in DOMAIN Runnable(snap) /\ (sel = 1 \/ SameFix(Runnable(snap)[sel], target))
DoctorCursorFits ==
  /\ doctor \in {"keys", "running"} /\ Runnable(snap) # <<>> =>
       ~pending /\ anchor = Nothing /\ OnTheChosen
  /\ doctor = "running" => Runnable(snap) # <<>> /\ ran.fix # Nothing
  /\ doctor = "top" => pending \/ anchor # Nothing \/ (Runnable(snap) # <<>> /\ OnTheChosen)
  /\ doctor = "keys" /\ Runnable(snap) = <<>> => pending \/ anchor # Nothing
  /\ pending => anchor = Nothing
  /\ anchor # Nothing => anchor = target

(* A receipt is of the report it was written with, or of one before.        *)
ReceiptsFit ==
  /\ receipts \in Seq({receipts[i] : i \in DOMAIN receipts})
  /\ \A i \in DOMAIN receipts : receipts[i].serial \in Nat /\ receipts[i].serial <= serial
  /\ ReceiptsAreTrue

(* Together they are inductive.                                             *)
DoctorInv == DoctorTyped /\ ChoiceFits /\ DoctorCursorFits /\ RunsTheChosenFix /\ ReceiptsFit

(* The probes of a report and its fixes are sequences.                      *)
LEMMA ReportTyped ==
  ASSUME NEW s \in Rebuilt
  PROVE  /\ s.fixes \in Seq({s.fixes[i] : i \in DOMAIN s.fixes})
         /\ s.probes \in Seq({s.probes[i] : i \in DOMAIN s.probes})
<1>1. CASE s = Failure
  <2> DEFINE p == [id |-> FailureId, level |-> "error"]
  <2>1. s.fixes = <<>> /\ s.probes = <<p>>
    BY <1>1 DEF Failure
  <2>2. s.probes \in Seq({s.probes[1]}) /\ DOMAIN s.probes = {1}
    <3> HIDE DEF p
    <3>1. <<p>> \in Seq({p}) /\ <<p>>[1] = p /\ DOMAIN <<p>> = 1 .. 1
      OBVIOUS
    <3>2. QED
      BY <2>1, <3>1
  <2>3. {s.probes[i] : i \in DOMAIN s.probes} = {s.probes[1]}
    BY <2>2
  <2>4. QED
    BY <2>1, <2>2, <2>3
<1>2. CASE s \in Reports
  <2>1. PICK t \in Snapshots : s.probes = t.probes /\ s.fixes = t.fixes
    BY <1>2 DEF Reports
  <2>2. QED
    BY <2>1, SnapshotsAssumption
<1>3. QED
  BY <1>1, <1>2 DEF Rebuilt

(* The rows of a report: numbered from one, and none of them Nothing.       *)
LEMMA RowsTyped ==
  ASSUME NEW s \in Rebuilt
  PROVE  /\ Len(Runnable(s)) \in Nat /\ DOMAIN Runnable(s) = 1 .. Len(Runnable(s))
         /\ Runnable(s) # <<>> => 1 \in DOMAIN Runnable(s) /\ Len(Runnable(s)) \in Nat \ {0}
         /\ \A i \in DOMAIN Runnable(s) : Runnable(s)[i] # Nothing /\ Runnable(s) # <<>>
<1> DEFINE S == {f \in {s.fixes[i] : i \in DOMAIN s.fixes} : f.kind # "display"}
<1>1. /\ Runnable(s) \in Seq(S)
      /\ Len(Runnable(s)) \in Nat /\ DOMAIN Runnable(s) = 1 .. Len(Runnable(s))
  BY ReportTyped, RunnableRows
<1>2. \A f \in S : f # Nothing
  BY DEF Nothing
<1>3. \A i \in DOMAIN Runnable(s) : Runnable(s)[i] \in S
  <2> HIDE DEF S
  <2> QED BY <1>1
<1>4. Runnable(s) # <<>> => Len(Runnable(s)) # 0
  <2> HIDE DEF S
  <2> QED BY <1>1, EmptySeq
<1>5. \A i \in DOMAIN Runnable(s) : Runnable(s) # <<>>
  BY <1>1
<1>6. \A i \in DOMAIN Runnable(s) : Runnable(s)[i] # Nothing
  <2> HIDE DEF S
  <2> QED BY <1>2, <1>3
<1>7. QED
  <2> HIDE DEF S
  <2>1. Runnable(s) # <<>> => 1 \in 1 .. Len(Runnable(s)) /\ Len(Runnable(s)) \in Nat \ {0}
    BY <1>1, <1>4
  <2>2. QED
    BY <1>1, <1>5, <1>6, <2>1

(* The probes of one identity can be counted.                               *)
LEMMA ProbesCounted ==
  ASSUME NEW s \in Rebuilt, NEW id PROVE IsFiniteSet(ProbesOf(s, id)) /\ Cardinality(ProbesOf(s, id)) \in Nat
<1>1. Len(s.probes) \in Nat /\ DOMAIN s.probes = 1 .. Len(s.probes)
  BY ReportTyped, LenProperties
<1>2. IsFiniteSet(1 .. Len(s.probes))
  BY <1>1, FS_Interval
<1>3. ProbesOf(s, id) \subseteq 1 .. Len(s.probes)
  BY <1>1 DEF ProbesOf
<1>4. IsFiniteSet(ProbesOf(s, id))
  BY <1>2, <1>3, FS_Subset
<1>5. QED
  BY <1>4, FS_CardinalityType

(* The row the focus selects, if any, is one of those that can be run; and  *)
(* none is selected when its target is only there.                          *)
LEMMA DecisionRow ==
  ASSUME NEW s \in Rebuilt, Runnable(s) # <<>>
  PROVE  /\ Decision(s).row # 0 => Decision(s).row \in DOMAIN Runnable(s)
         /\ Decision(s).state = "present" => Decision(s).row = 0
<1> DEFINE byProbe == First(OfProbe(Runnable(s), focus))
           byRemedy == First(OfRemedy(Runnable(s), focus))
<1>1. 1 \in DOMAIN Runnable(s) /\ DOMAIN Runnable(s) \subseteq Nat \ {0}
  BY RowsTyped
<1>2. byProbe # 0 => byProbe \in DOMAIN Runnable(s)
  <2>1. OfProbe(Runnable(s), focus) \subseteq DOMAIN Runnable(s)
    BY DEF OfProbe
  <2>2. QED
    BY <1>1, <2>1, FirstFound
<1>3. byRemedy # 0 => byRemedy \in DOMAIN Runnable(s)
  <2>1. OfRemedy(Runnable(s), focus) \subseteq DOMAIN Runnable(s)
    BY DEF OfRemedy
  <2>2. QED
    BY <1>1, <2>1, FirstFound
<1> HIDE DEF byProbe, byRemedy
<1>a. Cardinality(ProbesOf(s, focus)) \in Nat
  BY ProbesCounted
<1>4. CASE focus = NoFocus
  <2>1. Decision(s) = [row |-> 1, state |-> "none"]
    BY <1>4 DEF Decision
  <2>2. QED
    BY <1>1, <2>1
<1>5. CASE focus # NoFocus /\ Cardinality(ProbesOf(s, focus)) > 1
  <2>1. Decision(s) = [row |-> 0, state |-> "ambiguous"]
    BY <1>5, <1>a DEF Decision
  <2>2. QED
    BY <2>1
<1>6. CASE focus # NoFocus /\ ~(Cardinality(ProbesOf(s, focus)) > 1)
  <2>1. \/ Decision(s) = [row |-> byProbe, state |-> "matched"]
        \/ Decision(s) = [row |-> byRemedy, state |-> "matched"]
        \/ \E kind \in {"ambiguous", "present", "unknown"} : Decision(s) = [row |-> 0, state |-> kind]
    BY <1>6, <1>a DEF Decision, byProbe, byRemedy
  <2>2. QED
    BY <1>2, <1>3, <2>1
<1>7. QED
  BY <1>4, <1>5, <1>6

(* A remedy found again is the same, or of the same probe.                  *)
LEMMA PreservedRow ==
  ASSUME NEW s \in Rebuilt, NEW was, Preserved(Runnable(s), was) # 0
  PROVE  /\ Preserved(Runnable(s), was) \in DOMAIN Runnable(s)
         /\ SameFix(Runnable(s)[Preserved(Runnable(s), was)], was)
<1> DEFINE listed == Runnable(s)
<1>1. DOMAIN listed \subseteq Nat \ {0}
  BY RowsTyped
<1> HIDE DEF listed
<1>2. ASSUME NEW found \in SUBSET DOMAIN listed, Unique(found) # 0 PROVE Unique(found) \in found
  BY <1>1, <1>2, FirstFound DEF Unique
<1>3. /\ Unique(OfRemedy(listed, was.id)) # 0 => Unique(OfRemedy(listed, was.id)) \in OfRemedy(listed, was.id)
      /\ Unique(OfProbe(listed, was.probe)) # 0 => Unique(OfProbe(listed, was.probe)) \in OfProbe(listed, was.probe)
  <2>1. OfRemedy(listed, was.id) \subseteq DOMAIN listed /\ OfProbe(listed, was.probe) \subseteq DOMAIN listed
    BY DEF OfRemedy, OfProbe
  <2>2. QED
    BY <1>2, <2>1
<1>4. Preserved(listed, was) \in {Unique(OfRemedy(listed, was.id)), Unique(OfProbe(listed, was.probe))}
  BY DEF Preserved
<1>5. Preserved(listed, was) \in OfRemedy(listed, was.id) \cup OfProbe(listed, was.probe)
  BY <1>3, <1>4 DEF listed
<1>6. QED
  BY <1>5 DEF OfRemedy, OfProbe, SameFix, listed


(* A receipt joins those there are.                                         *)
LEMMA ReceiptJoins ==
  ASSUME NEW q, q \in Seq({q[i] : i \in DOMAIN q}), NEW e
  PROVE  /\ Append(q, e) \in Seq({Append(q, e)[i] : i \in DOMAIN Append(q, e)})
         /\ Len(q) \in Nat /\ Len(Append(q, e)) = Len(q) + 1
         /\ DOMAIN q = 1 .. Len(q) /\ DOMAIN Append(q, e) = 1 .. Len(q) + 1
         /\ Append(q, e)[Len(q) + 1] = e /\ \A i \in 1 .. Len(q) : Append(q, e)[i] = q[i]
<1> DEFINE S == {q[i] : i \in DOMAIN q} \cup {e}
           r == Append(q, e)
<1>1. q \in Seq(S) /\ e \in S
  <2>1. {q[i] : i \in DOMAIN q} \subseteq S
    OBVIOUS
  <2>2. QED
    BY <2>1, SeqMonotonic
<1> HIDE DEF S
<1>2. /\ r \in Seq(S) /\ Len(q) \in Nat /\ Len(r) = Len(q) + 1
      /\ DOMAIN q = 1 .. Len(q) /\ DOMAIN r = 1 .. Len(q) + 1
      /\ r[Len(q) + 1] = e /\ \A i \in 1 .. Len(q) : r[i] = q[i]
  BY <1>1, AppendProperties, LenProperties
<1> HIDE DEF r
<1>3. r \in [1 .. Len(r) -> {r[i] : i \in DOMAIN r}] /\ Len(r) \in Nat
  BY <1>2
<1>4. r \in Seq({r[i] : i \in DOMAIN r})
  BY <1>3, SeqDef
<1>5. QED
  BY <1>2, <1>4 DEF r

(* Doctor opens on a report read just now, or handed in.                    *)
LEMMA DoctorStarts == DoctorInit => DoctorInv
<1> SUFFICES ASSUME DoctorInit PROVE DoctorInv
  OBVIOUS
<1>1. DoctorTyped /\ ChoiceFits /\ RunsTheChosenFix
  <2>1. DoctorTyped
    <3>1. snap \in Rebuilt /\ doctor = "top" /\ pending = TRUE /\ explicit = FALSE
      BY DEF DoctorInit
    <3>2. serial = 1 /\ attempts = 0 /\ sel = 1
      BY DEF DoctorInit
    <3>3. serial \in Nat /\ attempts \in Nat /\ sel \in Nat \ {0}
      BY <3>2
    <3>4. pending \in BOOLEAN /\ explicit \in BOOLEAN
      BY <3>1
    <3>5. QED
      BY <3>1, <3>3, <3>4 DEF DoctorTyped
  <2>2. ran.first /\ ~ran.blind /\ ~explicit
    BY DEF DoctorInit
  <2>3. QED
    BY <2>1, <2>2 DEF ChoiceFits, NoBlindRun, RunsTheChosenFix
<1>2. DoctorCursorFits
  BY DEF DoctorInit, DoctorCursorFits
<1>3. ReceiptsFit
  <2>1. receipts = <<>> /\ attempts = 0 /\ doctor = "top"
    BY DEF DoctorInit
  <2>2. DOMAIN receipts = {} /\ Len(receipts) = 0 /\ receipts \in Seq({receipts[i] : i \in DOMAIN receipts})
    BY <2>1, EmptySeq
  <2>3. QED
    BY <2>1, <2>2 DEF ReceiptsFit, ReceiptsAreTrue
<1>4. QED
  BY <1>1, <1>2, <1>3 DEF DoctorInv

(* The head of the loop puts the cursor on a row, and a rebuilt list keeps  *)
(* what was chosen.                                                         *)
LEMMA PlaceKeeps == ASSUME DoctorInv, Place PROVE DoctorInv'
<1> DEFINE listed == Runnable(snap)
<1>1. /\ doctor = "top" /\ doctor' = "keys" /\ pending' = (pending /\ listed = <<>>)
      /\ UNCHANGED <<focus, snap, serial, explicit, chosen, ran, attempts, receipts>>
      /\ anchor' = IF listed # <<>> /\ ~pending THEN Nothing ELSE anchor
  BY DEF Place
<1>2. DoctorTyped /\ snap \in Rebuilt
  BY DEF DoctorInv, DoctorTyped
<1>3. /\ Len(listed) \in Nat /\ DOMAIN listed = 1 .. Len(listed)
      /\ listed # <<>> => 1 \in DOMAIN listed /\ Len(listed) \in Nat \ {0}
  BY <1>2, RowsTyped
<1>4. CASE listed = <<>>
  <2>1. sel' = sel /\ anchor' = anchor /\ target' = target /\ pending' = pending
    <3>1. sel' = sel
      BY <1>4 DEF Place
    <3>2. pending' = pending
      BY <1>1, <1>2, <1>4 DEF DoctorTyped
    <3>3. QED
      BY <1>1, <1>4, <3>1, <3>2 DEF Place
  <2>2. /\ DoctorTyped' /\ ChoiceFits' /\ RunsTheChosenFix'
    BY <1>1, <2>1 DEF DoctorInv, DoctorTyped, ChoiceFits, NoBlindRun, RunsTheChosenFix
  <2>3. Runnable(snap)' = <<>>
    BY <1>1, <1>4 DEF Runnable, Kept, KeptTo
  <2>4. ~(Runnable(snap) # <<>>)
    BY <1>4
  <2>5. DoctorCursorFits'
    BY <1>1, <2>1, <2>3, <2>4 DEF DoctorInv, DoctorCursorFits
  <2>6. QED
    BY <1>1, <2>2, <2>5 DEF DoctorInv, ReceiptsFit, ReceiptsAreTrue, ProbesOf
<1>5. CASE listed # <<>>
  <2>1. /\ sel' \in DOMAIN listed /\ ~pending' /\ anchor' = Nothing
        /\ sel' = 1 \/ SameFix(listed[sel'], target')
    <3>1. CASE pending
      <4>1. sel' = (IF Decision(snap).row # 0 THEN Decision(snap).row ELSE 1) /\ target' = listed[sel']
        BY <1>5, <3>1 DEF Place
      <4>2. anchor = Nothing
        BY <3>1 DEF DoctorInv, DoctorCursorFits
      <4>3. sel' \in DOMAIN listed
        BY <1>2, <1>3, <1>5, <4>1, DecisionRow
      <4>4. QED
        BY <1>1, <1>5, <3>1, <4>1, <4>2, <4>3 DEF SameFix
    <3>2. CASE ~pending /\ anchor # Nothing
      <4>1. /\ sel' = (IF Preserved(listed, anchor) # 0 THEN Preserved(listed, anchor) ELSE 1)
            /\ target' = target
        BY <1>5, <3>2 DEF Place
      <4>2. anchor = target
        BY <3>2 DEF DoctorInv, DoctorCursorFits
      <4>3. Preserved(listed, anchor) # 0 =>
              Preserved(listed, anchor) \in DOMAIN listed /\ SameFix(listed[Preserved(listed, anchor)], target)
        BY <1>2, <4>2, PreservedRow
      <4>4. sel' \in DOMAIN listed /\ (sel' = 1 \/ SameFix(listed[sel'], target))
        BY <1>3, <1>5, <4>1, <4>3
      <4>5. QED
        BY <1>1, <1>5, <3>2, <4>1, <4>4
    <3>3. CASE ~pending /\ anchor = Nothing
      <4>1. sel \in DOMAIN listed /\ (sel = 1 \/ SameFix(listed[sel], target))
        BY <1>1, <3>3 DEF DoctorInv, DoctorCursorFits, OnTheChosen
      <4>2. sel' = ((sel - 1) % Len(listed)) + 1 /\ target' = target
        BY <1>5, <3>3 DEF Place
      <4>3. (sel - 1) % Len(listed) = sel - 1
        <5>1. sel - 1 \in 0 .. Len(listed) - 1 /\ Len(listed) \in Nat \ {0}
          BY <1>3, <1>5, <4>1
        <5>2. QED
          BY <5>1
      <4>4. sel' = sel
        BY <1>2, <4>2, <4>3 DEF DoctorTyped
      <4>5. QED
        BY <1>1, <1>5, <3>3, <4>1, <4>2, <4>4
    <3>4. QED
      BY <1>2, <3>1, <3>2, <3>3 DEF DoctorTyped
  <2>2. pending' = FALSE
    BY <1>1, <1>5
  <2>3. sel' \in Nat \ {0}
    BY <1>3, <2>1
  <2>4. DoctorTyped' /\ ChoiceFits' /\ RunsTheChosenFix'
    BY <1>1, <2>2, <2>3 DEF DoctorInv, DoctorTyped, ChoiceFits, NoBlindRun, RunsTheChosenFix
  <2>5. Runnable(snap)' = listed
    BY <1>1 DEF Runnable, Kept, KeptTo
  <2>6. OnTheChosen'
    <3> HIDE DEF listed
    <3> QED BY <2>1, <2>5 DEF OnTheChosen
  <2>7. DoctorCursorFits'
    BY <1>1, <1>5, <2>1, <2>5, <2>6 DEF DoctorCursorFits
  <2>8. QED
    BY <1>1, <2>4, <2>7 DEF DoctorInv, ReceiptsFit, ReceiptsAreTrue, ProbesOf
<1>6. QED
  BY <1>4, <1>5


(* Where no report is read and no fix starts or ends, the receipts stand.   *)
LEMMA ReceiptsStand ==
  ASSUME ReceiptsFit,
         UNCHANGED <<snap, serial, receipts, attempts>>, (doctor = "running") = (doctor' = "running")
  PROVE  ReceiptsFit'
  BY DEF ReceiptsFit, ReceiptsAreTrue, ProbesOf

(* The rows follow the report.                                              *)
LEMMA RowsStand == ASSUME snap' = snap PROVE Runnable(snap)' = Runnable(snap)
  BY DEF Runnable, Kept, KeptTo

(* A fix starts: an attempt more, with no receipt yet.                      *)
LEMMA RunReceipts ==
  ASSUME ReceiptsFit, UNCHANGED <<snap, serial, receipts>>, attempts' = attempts + 1, attempts \in Nat,
         doctor = "keys", doctor' = "running"
  PROVE  ReceiptsFit'
<1>1. Len(receipts') = attempts' - 1
  BY LenProperties DEF ReceiptsFit, ReceiptsAreTrue
<1>2. QED
  BY <1>1 DEF ReceiptsFit, ReceiptsAreTrue, ProbesOf

(* A choice with the keys.                                                  *)
LEMMA MoveKeeps == ASSUME DoctorInv, Move PROVE DoctorInv'
<1> DEFINE listed == Runnable(snap)
<1>1. /\ doctor = "keys" /\ listed # <<>>
      /\ UNCHANGED <<focus, snap, serial, doctor, pending, anchor, ran, attempts, receipts>>
  BY DEF Move
<1>2. DoctorTyped /\ snap \in Rebuilt
  BY DEF DoctorInv, DoctorTyped
<1>3. Len(listed) \in Nat \ {0} /\ DOMAIN listed = 1 .. Len(listed)
  BY <1>1, <1>2, RowsTyped
<1>a. ~pending /\ anchor = Nothing
  BY <1>1 DEF DoctorInv, DoctorCursorFits
<1>4. sel \in DOMAIN listed
  BY <1>1 DEF DoctorInv, DoctorCursorFits, OnTheChosen
<1>5. PICK row \in DOMAIN listed : Choose(row)
  <2>1. CASE ~Visible(snap)
    BY <1>4, <2>1 DEF Move
  <2>2. CASE Visible(snap)
    <3>1. PICK step \in {1, Len(listed) - 1} : Choose(((sel - 1 + step) % Len(listed)) + 1)
      BY <2>2 DEF Move
    <3> HIDE DEF listed
    <3>2. PICK n \in Nat \ {0} : n = Len(listed) /\ DOMAIN listed = 1 .. n
      BY <1>3
    <3>3. sel \in 1 .. n
      BY <1>4, <3>2
    <3>4. step \in {1, n - 1}
      BY <3>2
    <3>5. sel - 1 + step \in Nat
      BY <3>3, <3>4
    <3>6. ((sel - 1 + step) % n) + 1 \in 1 .. n
      BY <3>5
    <3>7. ((sel - 1 + step) % Len(listed)) + 1 \in DOMAIN listed
      BY <3>2, <3>6
    <3>8. QED
      BY <3>1, <3>7
  <2>3. QED
    BY <2>1, <2>2
<1>6. sel' = row /\ explicit' = TRUE /\ chosen' = serial /\ target' = listed[row]
  BY <1>5 DEF Choose
<1>7. DoctorTyped'
  <2>1. sel' \in Nat \ {0}
    BY <1>3, <1>6
  <2>2. QED
    BY <1>1, <1>2, <1>6, <2>1 DEF DoctorTyped
<1>8. ChoiceFits' /\ RunsTheChosenFix'
  BY <1>1, <1>6 DEF DoctorInv, ChoiceFits, NoBlindRun, RunsTheChosenFix
<1>9. DoctorCursorFits'
  <2>1. Runnable(snap)' = listed
    BY <1>1, RowsStand
  <2>2. OnTheChosen'
    <3> HIDE DEF listed
    <3> QED BY <1>6, <2>1 DEF OnTheChosen, SameFix
  <2>3. ~pending' /\ anchor' = Nothing /\ doctor' = "keys"
    BY <1>1, <1>a
  <2>4. QED
    BY <1>1, <2>1, <2>2, <2>3 DEF DoctorCursorFits
<1>10. QED
  BY <1>1, <1>7, <1>8, <1>9, ReceiptsStand DEF DoctorInv

(* A fix starts, the one the cursor or the digit is on.                     *)
LEMMA RunKeeps ==
  ASSUME DoctorInv, doctor = "keys", NEW row \in DOMAIN Runnable(snap), Run(row),
         sel' = row, explicit' \in BOOLEAN,
         explicit' => chosen' = serial,
         Decision(snap).state = "present" => chosen' = serial,
         row = 1 \/ SameFix(Runnable(snap)[row], target')
  PROVE  DoctorInv'
<1> DEFINE listed == Runnable(snap)
<1>1. /\ attempts' = attempts + 1 /\ doctor' = "running"
      /\ ran' = [fix |-> listed[row], first |-> (row = 1), aimed |-> target', serial |-> serial,
                 chosen |-> chosen', blind |-> Decision(snap).state = "present"]
      /\ UNCHANGED <<focus, snap, serial, pending, anchor, receipts>>
  BY DEF Run
<1>2. DoctorTyped /\ snap \in Rebuilt
  BY DEF DoctorInv, DoctorTyped
<1>3. /\ listed # <<>> /\ listed[row] # Nothing /\ row \in Nat \ {0}
  BY <1>2, RowsTyped
<1>4. ~pending /\ anchor = Nothing
  BY <1>3 DEF DoctorInv, DoctorCursorFits
<1>5. DoctorTyped'
  BY <1>1, <1>2, <1>3 DEF DoctorTyped
<1> HIDE DEF listed
<1>6. /\ ran'.fix = listed[row] /\ ran'.aimed = target' /\ ran'.serial = serial /\ ran'.chosen = chosen'
      /\ ran'.first <=> row = 1
      /\ ran'.blind <=> Decision(snap).state = "present"
  BY <1>1
<1>7. ChoiceFits'
  BY <1>1, <1>6 DEF ChoiceFits, NoBlindRun
<1>8. RunsTheChosenFix'
  BY <1>6 DEF RunsTheChosenFix, SameFix, listed
<1>9. DoctorCursorFits'
  <2>1. Runnable(snap)' = listed
    BY <1>1, RowsStand DEF listed
  <2>2. OnTheChosen'
    BY <2>1 DEF OnTheChosen, listed
  <2>3. ~pending' /\ anchor' = Nothing
    BY <1>1, <1>4
  <2>4. QED
    BY <1>1, <1>3, <1>6, <2>1, <2>2, <2>3 DEF DoctorCursorFits
<1>10. ReceiptsFit'
  BY <1>1, <1>2, RunReceipts DEF DoctorInv, DoctorTyped
<1>11. QED
  BY <1>5, <1>7, <1>8, <1>9, <1>10 DEF DoctorInv

(* Enter runs the fix under the cursor.                                     *)
LEMMA RunSelectedKeeps == ASSUME DoctorInv, RunSelected PROVE DoctorInv'
<1>1. /\ doctor = "keys" /\ Runnable(snap) # <<>> /\ Visible(snap) /\ Run(sel)
      /\ UNCHANGED <<sel, explicit, chosen, target>>
  BY DEF RunSelected
<1>2. OnTheChosen /\ snap \in Rebuilt /\ explicit \in BOOLEAN
  BY <1>1 DEF DoctorInv, DoctorCursorFits, DoctorTyped
<1>3. Decision(snap).state = "present" => explicit
  <2>1. Decision(snap).state = "present" => Decision(snap).row = 0
    BY <1>1, <1>2, DecisionRow
  <2>2. QED
    BY <1>1, <2>1 DEF Visible
<1>4. explicit => chosen = serial
  BY DEF DoctorInv, ChoiceFits
<1>5. QED
  BY <1>1, <1>2, <1>3, <1>4, RunKeeps DEF OnTheChosen

(* A digit runs the fix of its number.                                      *)
LEMMA RunNumberedKeeps == ASSUME DoctorInv, RunNumbered PROVE DoctorInv'
<1>1. PICK row \in DOMAIN Runnable(snap) : Choose(row) /\ Run(row)
  BY DEF RunNumbered
<1>2. /\ doctor = "keys" /\ sel' = row /\ explicit' = TRUE /\ chosen' = serial
      /\ target' = Runnable(snap)[row]
  BY <1>1 DEF RunNumbered, Choose
<1>3. SameFix(Runnable(snap)[row], target')
  BY <1>2 DEF SameFix
<1>4. QED
  BY <1>1, <1>2, <1>3, RunKeeps


(* "resolved" is said of a report the worker made, and the probe not in it. *)
LEMMA ResolvedIsGone ==
  ASSUME NEW s \in Rebuilt, NEW before, NEW comparable \in BOOLEAN,
         Closure(before, s, comparable) = "resolved"
  PROVE  comparable /\ ProbesOf(s, before.id) = {}
<1> DEFINE after == ProbesOf(s, before.id)
<1>1. IsFiniteSet(after) /\ Cardinality(after) \in Nat /\ (Cardinality(after) = 0 <=> after = {})
  BY ProbesCounted, FS_EmptySet
<1>2. CASE before = Nothing \/ ~comparable \/ Cardinality(after) > 1
  <2>1. Closure(before, s, comparable) = "unknown"
    BY <1>1, <1>2 DEF Closure
  <2>2. QED
    BY <2>1
<1>3. CASE before # Nothing /\ comparable /\ Cardinality(after) = 1
  <2>1. after # {} /\ ~(Cardinality(after) > 1)
    BY <1>1, <1>3
  <2>2. Closure(before, s, comparable) \in {"still_present", "changed"}
    BY <1>3, <2>1 DEF Closure
  <2>3. QED
    BY <2>2
<1>4. QED
  BY <1>1, <1>2, <1>3

(* A fix ended leaves its receipt, which says no more than the report does. *)
LEMMA EndReceipts ==
  ASSUME DoctorTyped, ReceiptsFit, doctor = "running", doctor' # "running", UNCHANGED attempts,
         NEW s \in Rebuilt, snap' = s, NEW comparable \in BOOLEAN, Receipt(s, comparable),
         \/ serial' = serial + 1 /\ comparable = Comparable(s)
         \/ UNCHANGED <<snap, serial>> /\ comparable = FALSE
  PROVE  ReceiptsFit'
<1> DEFINE origin == Origin(snap, ran.fix)
           e == [probe |-> origin.id, serial |-> serial', closure |-> Closure(origin, s, comparable)]
<1>1. receipts' = Append(receipts, e)
  BY DEF Receipt
<1>2. e.serial = serial' /\ e.probe = origin.id /\ e.closure = Closure(origin, s, comparable)
  OBVIOUS
<1> HIDE DEF e
<1>3. /\ receipts' \in Seq({receipts'[i] : i \in DOMAIN receipts'})
      /\ Len(receipts) \in Nat /\ Len(receipts') = Len(receipts) + 1
      /\ DOMAIN receipts = 1 .. Len(receipts) /\ DOMAIN receipts' = 1 .. Len(receipts) + 1
      /\ receipts'[Len(receipts) + 1] = e /\ \A i \in 1 .. Len(receipts) : receipts'[i] = receipts[i]
  BY <1>1, ReceiptJoins DEF ReceiptsFit
<1>4. serial \in Nat /\ serial' \in Nat /\ serial <= serial' /\ attempts \in Nat
  BY DEF DoctorTyped
<1>5. \A i \in 1 .. Len(receipts) : receipts[i].serial \in Nat /\ receipts[i].serial <= serial
  BY <1>3 DEF ReceiptsFit
<1>a. \A i \in 1 .. Len(receipts) :
        receipts[i].closure = "resolved" /\ receipts[i].serial = serial =>
          snap.report /\ ProbesOf(snap, receipts[i].probe) = {}
  BY <1>3 DEF ReceiptsFit, ReceiptsAreTrue
<1>6. \A i \in DOMAIN receipts' : receipts'[i].serial \in Nat /\ receipts'[i].serial <= serial'
  <2> TAKE i \in DOMAIN receipts'
  <2>1. CASE i \in 1 .. Len(receipts)
    <3>1. receipts'[i] = receipts[i] /\ receipts[i].serial \in Nat /\ receipts[i].serial <= serial
      BY <1>3, <1>5, <2>1
    <3>2. QED
      BY <1>4, <3>1
  <2>2. CASE i = Len(receipts) + 1
    BY <1>2, <1>3, <1>4, <2>2
  <2>3. QED
    BY <1>3, <2>1, <2>2
<1>7. ASSUME NEW i \in DOMAIN receipts', receipts'[i].closure = "resolved", receipts'[i].serial = serial'
      PROVE  snap'.report /\ {j \in DOMAIN s.probes : s.probes[j].id = receipts'[i].probe} = {}
  <2>1. CASE i = Len(receipts) + 1
    <3>1. Closure(origin, s, comparable) = "resolved"
      BY <1>2, <1>3, <1>7, <2>1
    <3> HIDE DEF origin
    <3>2. comparable /\ ProbesOf(s, origin.id) = {}
      BY <3>1, ResolvedIsGone
    <3>3. Comparable(s)
      BY <3>2
    <3>4. s.report
      BY <3>2, <3>3 DEF Comparable, origin
    <3>5. receipts'[i].probe = origin.id
      BY <1>2, <1>3, <2>1
    <3>6. QED
      BY <3>2, <3>4, <3>5 DEF ProbesOf
  <2>2. CASE i \in 1 .. Len(receipts)
    <3>1. receipts'[i] = receipts[i]
      BY <1>3, <2>2
    <3>2. receipts[i].serial = serial' /\ receipts[i].serial <= serial /\ receipts[i].closure = "resolved"
      BY <1>5, <1>7, <2>2, <3>1
    <3>3. serial' = serial
      BY <1>4, <3>2
    <3>4. snap' = snap
      BY <1>4, <3>3
    <3>5. snap.report /\ ProbesOf(snap, receipts[i].probe) = {}
      BY <1>a, <2>2, <3>2, <3>3
    <3>6. QED
      BY <3>1, <3>4, <3>5 DEF ProbesOf
  <2>3. QED
    BY <1>3, <2>1, <2>2
<1>8. Len(receipts') = attempts'
  <2>1. Len(receipts) = attempts - 1
    BY DEF ReceiptsFit, ReceiptsAreTrue
  <2>2. QED
    BY <1>3, <1>4, <2>1
<1>9. ReceiptsAreTrue'
  <2>1. Len(receipts') = attempts' - 0
    BY <1>4, <1>8
  <2>2. QED
    BY <1>7, <2>1 DEF ReceiptsAreTrue, ProbesOf
<1>10. QED
  BY <1>3, <1>6, <1>9 DEF ReceiptsFit

(* A fix ends, and the report is made anew.                                 *)
LEMMA FixEndsKeeps == ASSUME DoctorInv, FixEnds PROVE DoctorInv'
<1>1. PICK s \in Rebuilt :
        /\ serial' = serial + 1 /\ Receipt(s, Comparable(s)) /\ snap' = s
  BY DEF FixEnds
<1>2. /\ doctor = "running" /\ doctor' = "top" /\ anchor' = ran.fix /\ target' = ran.fix
      /\ UNCHANGED <<focus, sel, pending, chosen, ran, attempts>>
      /\ explicit' = FALSE
  BY DEF FixEnds, Explicit
<1>3. /\ DoctorTyped /\ ReceiptsFit /\ ~pending /\ ran.fix # Nothing
  BY <1>2 DEF DoctorInv, DoctorCursorFits
<1>4. ReceiptsFit'
  <2>1. Comparable(s) \in BOOLEAN
    BY DEF Comparable
  <2>2. QED
    BY <1>1, <1>2, <1>3, <2>1, EndReceipts
<1>5. DoctorTyped'
  <2>1. serial' \in Nat
    BY <1>1, <1>3 DEF DoctorTyped
  <2>2. explicit' \in BOOLEAN
    BY <1>2
  <2>3. QED
    BY <1>1, <1>2, <1>3, <2>1, <2>2 DEF DoctorTyped
<1>6. ChoiceFits' /\ RunsTheChosenFix'
  BY <1>2 DEF DoctorInv, ChoiceFits, NoBlindRun, RunsTheChosenFix
<1>7. DoctorCursorFits'
  BY <1>2, <1>3 DEF DoctorCursorFits
<1>8. QED
  BY <1>4, <1>5, <1>6, <1>7 DEF DoctorInv

(* A fix ends that leaves the terminal.                                     *)
LEMMA FixEndsSessionKeeps == ASSUME DoctorInv, FixEndsSession PROVE DoctorInv'
<1>1. /\ doctor = "running" /\ doctor' = "closed" /\ Receipt(snap, FALSE) /\ UNCHANGED serial
      /\ UNCHANGED <<focus, snap, sel, pending, explicit, anchor, chosen, ran, attempts, target>>
  BY DEF FixEndsSession
<1>2. DoctorTyped /\ ReceiptsFit /\ snap \in Rebuilt
  BY DEF DoctorInv, DoctorTyped
<1>3. ReceiptsFit'
  BY <1>1, <1>2, EndReceipts
<1>4. DoctorTyped'
  BY <1>1, <1>2 DEF DoctorTyped
<1>5. ChoiceFits' /\ RunsTheChosenFix'
  BY <1>1 DEF DoctorInv, ChoiceFits, NoBlindRun, RunsTheChosenFix
<1>6. DoctorCursorFits'
  BY <1>1 DEF DoctorInv, DoctorCursorFits
<1>7. QED
  BY <1>3, <1>4, <1>5, <1>6 DEF DoctorInv

(* A fix whose capability is gone is not run.                               *)
LEMMA CapabilityMissingKeeps == ASSUME DoctorInv, CapabilityMissing PROVE DoctorInv'
<1>1. /\ doctor = "running" /\ doctor' = "top" /\ Receipt(snap, FALSE) /\ UNCHANGED serial
      /\ UNCHANGED <<focus, snap, sel, pending, explicit, anchor, chosen, ran, attempts, target>>
  BY DEF CapabilityMissing
<1>2. DoctorTyped /\ ReceiptsFit /\ snap \in Rebuilt
  BY DEF DoctorInv, DoctorTyped
<1>3. ReceiptsFit'
  BY <1>1, <1>2, EndReceipts
<1>4. DoctorTyped'
  BY <1>1, <1>2 DEF DoctorTyped
<1>5. ChoiceFits' /\ RunsTheChosenFix'
  BY <1>1 DEF DoctorInv, ChoiceFits, NoBlindRun, RunsTheChosenFix
<1>6. Runnable(snap) # <<>> /\ OnTheChosen /\ ~pending
  BY <1>1 DEF DoctorInv, DoctorCursorFits
<1>7. Runnable(snap)' = Runnable(snap)
  BY <1>1, RowsStand
<1>8. OnTheChosen'
  BY <1>1, <1>6, <1>7 DEF OnTheChosen
<1>9. DoctorCursorFits'
  BY <1>1, <1>6, <1>7, <1>8 DEF DoctorInv, DoctorCursorFits
<1>10. QED
  BY <1>3, <1>4, <1>5, <1>9 DEF DoctorInv

(* The report read anew, or Doctor left.                                    *)
LEMMA RefreshKeeps == ASSUME DoctorInv, RefreshReport PROVE DoctorInv'
<1>1. /\ doctor = "keys" /\ Runnable(snap) = <<>>
      /\ UNCHANGED <<focus, sel, pending, anchor, chosen, ran, attempts, receipts, target>>
  BY DEF RefreshReport
<1>2. DoctorTyped /\ ReceiptsFit /\ serial \in Nat
  BY DEF DoctorInv, DoctorTyped
<1>3. RunsTheChosenFix'
  BY <1>1 DEF DoctorInv, RunsTheChosenFix
<1>4. CASE snap' \in Rebuilt /\ doctor' = "top" /\ explicit' = FALSE /\ serial' = serial + 1
  <2>1. DoctorTyped'
    <3>1. serial' \in Nat
      BY <1>2, <1>4
    <3>2. explicit' \in BOOLEAN
      BY <1>4
    <3>3. QED
      BY <1>1, <1>2, <1>4, <3>1, <3>2 DEF DoctorTyped
  <2>2. ChoiceFits'
    BY <1>1, <1>4 DEF DoctorInv, ChoiceFits, NoBlindRun
  <2>3. DoctorCursorFits'
    <3>1. pending \/ anchor # Nothing
      BY <1>1 DEF DoctorInv, DoctorCursorFits
    <3>2. QED
      BY <1>1, <1>4, <3>1 DEF DoctorInv, DoctorCursorFits
  <2>4. ReceiptsFit'
    <3>1. \A i \in DOMAIN receipts : receipts[i].serial \in Nat /\ receipts[i].serial < serial'
      BY <1>2, <1>4 DEF ReceiptsFit
    <3>2. Len(receipts') = attempts' - 0
      BY <1>1 DEF DoctorInv, ReceiptsFit, ReceiptsAreTrue
    <3>3. \A i \in DOMAIN receipts : receipts[i].serial <= serial' /\ receipts[i].serial # serial'
      BY <1>2, <1>4, <3>1
    <3>4. ReceiptsAreTrue'
      BY <1>1, <1>4, <3>2, <3>3 DEF ReceiptsAreTrue
    <3>5. QED
      BY <1>1, <1>2, <3>1, <3>3, <3>4 DEF ReceiptsFit
  <2>5. QED
    BY <1>3, <2>1, <2>2, <2>3, <2>4 DEF DoctorInv
<1>5. CASE doctor' = "closed" /\ UNCHANGED <<snap, explicit, serial>>
  <2>1. DoctorTyped' /\ ChoiceFits'
    BY <1>1, <1>2, <1>5 DEF DoctorInv, DoctorTyped, ChoiceFits, NoBlindRun
  <2>2. DoctorCursorFits'
    BY <1>1, <1>5 DEF DoctorInv, DoctorCursorFits
  <2>3. ReceiptsFit'
    BY <1>1, <1>2, <1>5, ReceiptsStand
  <2>4. QED
    BY <1>3, <2>1, <2>2, <2>3 DEF DoctorInv
<1>6. QED
  BY <1>4, <1>5 DEF RefreshReport

(* Doctor is left.                                                          *)
LEMMA CloseKeeps == ASSUME DoctorInv, CloseDoctor PROVE DoctorInv'
<1>1. /\ doctor = "keys" /\ doctor' = "closed"
      /\ UNCHANGED <<focus, snap, serial, sel, pending, explicit, anchor, chosen, ran, attempts,
                     receipts, target>>
  BY DEF CloseDoctor
<1>2. DoctorTyped' /\ ChoiceFits' /\ RunsTheChosenFix'
  BY <1>1 DEF DoctorInv, DoctorTyped, ChoiceFits, NoBlindRun, RunsTheChosenFix
<1>3. DoctorCursorFits'
  BY <1>1 DEF DoctorInv, DoctorCursorFits
<1>4. ReceiptsFit'
  BY <1>1, ReceiptsStand DEF DoctorInv
<1>5. QED
  BY <1>2, <1>3, <1>4 DEF DoctorInv

(* Every step of the Doctor keeps it.                                       *)
LEMMA DoctorGoesOn == DoctorInv /\ [DoctorNext]_doctorVars => DoctorInv'
<1> SUFFICES ASSUME DoctorInv, [DoctorNext]_doctorVars PROVE DoctorInv'
  OBVIOUS
<1>1. CASE UNCHANGED doctorVars
  <2>1. DoctorTyped' /\ ChoiceFits' /\ RunsTheChosenFix'
    BY <1>1 DEF doctorVars, DoctorInv, DoctorTyped, ChoiceFits, NoBlindRun, RunsTheChosenFix
  <2>2. Runnable(snap)' = Runnable(snap)
    BY <1>1, RowsStand DEF doctorVars
  <2>3. DoctorCursorFits'
    BY <1>1, <2>2 DEF doctorVars, DoctorInv, DoctorCursorFits, OnTheChosen
  <2>4. ReceiptsFit'
    BY <1>1, ReceiptsStand DEF doctorVars, DoctorInv
  <2>5. QED
    BY <2>1, <2>3, <2>4 DEF DoctorInv
<1>2. CASE DoctorNext
  BY <1>2, PlaceKeeps, MoveKeeps, RunSelectedKeeps, RunNumberedKeeps, RefreshKeeps, FixEndsKeeps,
     FixEndsSessionKeeps, CapabilityMissingKeeps, CloseKeeps DEF DoctorNext
<1>3. QED
  BY <1>1, <1>2

(* It makes the Doctor safe.                                                *)
LEMMA DoctorIsSafe == DoctorInv => DoctorSafe
  BY DEF DoctorInv, DoctorSafe, ChoiceFits, ReceiptsFit

(* What Doctor runs was chosen, wherever a rebuild has moved it, and its    *)
(* receipts are true, for every worker, focus and number of fixes.          *)
THEOREM DoctorAlwaysSafe == DoctorSpec => []DoctorSafe
<1> QED BY DoctorStarts, DoctorGoesOn, DoctorIsSafe, PTL DEF DoctorSpec


----------------------------------------------------------------------------
(* The frames.  The pins give way line by line until they fit, at most as   *)
(* often as there are lines of them; the window is clamped around the row   *)
(* that is selected; and a resize is followed by a frame of its height.     *)

(* The shrinking of the pins is defined, turn by turn.                      *)
LEMMA ShrinkIsDefined ==
  ASSUME NEW h \in Heights
  PROVE  \E f : /\ f = [k \in 0 .. Top + Bottom |-> IF k = 0 THEN Unpinned ELSE Shrunk(f[k - 1], h)]
                /\ Pins(h) = f[Top + Bottom]
<1> DEFINE n == Top + Bottom
           Runs(f, m) == f = [k \in 0 .. m |-> IF k = 0 THEN Unpinned ELSE Shrunk(f[k - 1], h)]
           T == {m \in Nat : ~ \E f : Runs(f, m)}
<1>1. Runs([k \in 0 .. 0 |-> Unpinned], 0)
  OBVIOUS
<1>2. ASSUME NEW m \in Nat, NEW f, Runs(f, m) PROVE \E g : Runs(g, m + 1)
  <2> DEFINE g == [k \in 0 .. m + 1 |-> IF k = m + 1 THEN Shrunk(f[m], h) ELSE f[k]]
  <2>1. \A k \in 0 .. m + 1 : g[k] = IF k = 0 THEN Unpinned ELSE Shrunk(g[k - 1], h)
    <3> TAKE k \in 0 .. m + 1
    <3>1. CASE k = m + 1
      <4>1. k # 0 /\ k - 1 = m /\ m \in 0 .. m + 1 /\ m # m + 1
        BY <3>1
      <4>2. QED
        BY <3>1, <4>1
    <3>2. CASE k \in 0 .. m /\ k # 0
      <4>1. k - 1 \in 0 .. m + 1 /\ k - 1 # m + 1 /\ k # m + 1
        BY <3>2
      <4>2. g[k] = f[k] /\ g[k - 1] = f[k - 1]
        BY <4>1
      <4>3. f[k] = Shrunk(f[k - 1], h)
        BY <1>2, <3>2
      <4>4. QED
        BY <3>2, <4>2, <4>3
    <3>3. CASE k = 0
      <4>1. g[k] = f[0] /\ f[0] = Unpinned
        BY <1>2, <3>3
      <4>2. QED
        BY <3>3, <4>1
    <3>4. QED
      BY <3>1, <3>2, <3>3
  <2>2. g = [k \in 0 .. m + 1 |-> g[k]]
    OBVIOUS
  <2> HIDE DEF g
  <2>3. Runs(g, m + 1)
    BY <2>1, <2>2
  <2>4. QED
    BY <2>3
<1>3. T = {}
  <2> SUFFICES ASSUME T # {} PROVE FALSE
    OBVIOUS
  <2>1. PICK m \in T : \A j \in T : m <= j
    <3>1. T \subseteq Nat
      OBVIOUS
    <3> HIDE DEF T
    <3>2. QED
      BY <3>1, LeastOf
  <2>2. m \in Nat /\ m # 0
    BY <1>1, <2>1
  <2>3. PICK l \in Nat : m = l + 1
    BY <2>2
  <2>4. l \notin T
    BY <2>1, <2>3
  <2>5. PICK f : Runs(f, l)
    BY <2>4
  <2> HIDE DEF Runs
  <2>6. \E g : Runs(g, l + 1)
    BY <1>2, <2>5
  <2>7. QED
    BY <2>1, <2>3, <2>6
<1>4. \E f : Runs(f, n)
  <2>1. n \in Nat
    BY ViewAssumption
  <2> HIDE DEF n, Runs
  <2>2. QED
    BY <1>3, <2>1
<1>5. QED
  BY <1>4 DEF Pins


(* Some lines at the top, and the footer with its rule.                     *)
PinPairs == [top : Nat, bottom : Nat \ {0}]

(* A shrinking takes a line, unless the pins fit; the footer keeps one.     *)
LEMMA ShrinksOrFits ==
  ASSUME NEW p \in PinPairs, NEW h \in Nat
  PROVE  /\ Shrunk(p, h) \in PinPairs
         /\ PinsFit(p, h) => Shrunk(p, h) = p
         /\ ~PinsFit(p, h) => Shrunk(p, h).top + Shrunk(p, h).bottom = p.top + p.bottom - 1
<1>1. p.top \in Nat /\ p.bottom \in Nat \ {0} /\ p = [top |-> p.top, bottom |-> p.bottom]
  BY DEF PinPairs
<1>2. CASE PinsFit(p, h)
  BY <1>2 DEF Shrunk
<1>3. CASE ~PinsFit(p, h) /\ p.top > 0 /\ (p.top >= p.bottom \/ p.bottom <= 1)
  <2>1. Shrunk(p, h) = [p EXCEPT !.top = @ - 1]
    BY <1>3 DEF Shrunk
  <2>2. Shrunk(p, h) = [top |-> p.top - 1, bottom |-> p.bottom]
    BY <1>1, <2>1
  <2>3. p.top - 1 \in Nat
    BY <1>1, <1>3
  <2>4. QED
    BY <1>1, <1>3, <2>2, <2>3 DEF PinPairs
<1>4. CASE ~PinsFit(p, h) /\ ~(p.top > 0 /\ (p.top >= p.bottom \/ p.bottom <= 1))
  <2>1. Shrunk(p, h) = [p EXCEPT !.bottom = @ - 1]
    BY <1>4 DEF Shrunk
  <2>2. Shrunk(p, h) = [top |-> p.top, bottom |-> p.bottom - 1]
    BY <1>1, <2>1
  <2>3. p.bottom - 1 \in Nat \ {0}
    BY <1>1, <1>4 DEF PinsFit
  <2>4. QED
    BY <1>1, <1>4, <2>2, <2>3 DEF PinPairs
<1>5. QED
  BY <1>2, <1>3, <1>4

(* In Top + Bottom turns the pins fit.                                      *)
LEMMA PinsAlwaysFit == ASSUME NEW h \in Heights PROVE Pins(h) \in PinPairs /\ PinsFit(Pins(h), h)
<1> DEFINE n == Top + Bottom
<1>1. PICK f : /\ f = [k \in 0 .. Top + Bottom |-> IF k = 0 THEN Unpinned ELSE Shrunk(f[k - 1], h)]
               /\ Pins(h) = f[Top + Bottom]
  BY ShrinkIsDefined
<1>2. n \in Nat /\ h \in Nat \ {0} /\ Top \in Nat /\ Bottom \in Nat
  BY ViewAssumption
<1> DEFINE Good(k) == /\ f[k] \in PinPairs
                      /\ PinsFit(f[k], h) \/ f[k].top + f[k].bottom <= Unpinned.top + Unpinned.bottom - k
           T == {k \in Nat : k <= n /\ ~Good(k)}
<1>3. /\ Unpinned \in PinPairs /\ Unpinned.top = Top /\ Unpinned.bottom \in {Bottom, Bottom + 1}
      /\ Unpinned.bottom \in Nat /\ (Unpinned.bottom = Bottom + 1 => Bottom = 0)
  BY <1>2 DEF Unpinned, PinPairs
<1>4. Good(0)
  <2>1. f[0] = Unpinned
    BY <1>1, <1>2
  <2>2. QED
    BY <1>2, <1>3, <2>1
<1>5. ASSUME NEW k \in Nat, k + 1 <= n, Good(k) PROVE Good(k + 1)
  <2>1. f[k + 1] = Shrunk(f[k], h)
    <3>1. k + 1 \in 0 .. Top + Bottom /\ k + 1 # 0 /\ (k + 1) - 1 = k
      BY <1>2, <1>5
    <3>2. QED
      BY <1>1, <3>1
  <2>2. PICK p \in PinPairs : p = f[k]
    BY <1>5
  <2>3. p.top \in Nat /\ p.bottom \in Nat
    BY DEF PinPairs
  <2>4. CASE PinsFit(p, h)
    BY <1>2, <2>1, <2>2, <2>4, ShrinksOrFits
  <2>5. CASE ~PinsFit(p, h)
    <3>1. f[k + 1] \in PinPairs /\ f[k + 1].top + f[k + 1].bottom = p.top + p.bottom - 1
      BY <1>2, <2>1, <2>2, <2>5, ShrinksOrFits
    <3>2. p.top + p.bottom <= Unpinned.top + Unpinned.bottom - k
      BY <1>5, <2>2, <2>5
    <3>3. p.top + p.bottom - 1 <= Unpinned.top + Unpinned.bottom - (k + 1)
      BY <1>2, <1>3, <2>3, <3>2
    <3>4. QED
      BY <3>1, <3>3
  <2>6. QED
    BY <2>4, <2>5
<1>6. T = {}
  <2> SUFFICES ASSUME T # {} PROVE FALSE
    OBVIOUS
  <2>1. PICK m \in T : \A j \in T : m <= j
    <3>1. T \subseteq Nat
      OBVIOUS
    <3> HIDE DEF T
    <3>2. QED
      BY <3>1, LeastOf
  <2>2. m \in Nat /\ m <= n /\ ~Good(m) /\ m # 0
    <3>1. m \in Nat /\ m <= n /\ ~Good(m)
      BY <2>1
    <3> HIDE DEF Good
    <3>2. QED
      BY <1>4, <3>1
  <2>3. PICK l \in Nat : m = l + 1
    BY <2>2
  <2>4. l <= n /\ l \notin T
    BY <1>2, <2>1, <2>2, <2>3
  <2>5. Good(l)
    <3> HIDE DEF Good
    <3> QED BY <2>4
  <2> HIDE DEF Good
  <2>6. QED
    BY <1>5, <2>2, <2>3, <2>5
<1>7. Good(n)
  <2> HIDE DEF Good, n
  <2>1. n <= n
    BY <1>2
  <2>2. QED
    BY <1>2, <1>6, <2>1
<1>8. PICK p \in PinPairs : p = Pins(h)
  BY <1>1, <1>7
<1>9. p.top \in Nat /\ p.bottom \in Nat \ {0}
  BY DEF PinPairs
<1>10. PinsFit(p, h) \/ p.top + p.bottom <= Unpinned.top + Unpinned.bottom - n
  BY <1>1, <1>7, <1>8
<1>11. Unpinned.top + Unpinned.bottom - n \in {0, 1}
  BY <1>2, <1>3
<1>12. PinsFit(p, h)
  <2>1. CASE p.top + p.bottom <= Unpinned.top + Unpinned.bottom - n
    <3>1. p.top = 0 /\ p.bottom <= 1
      BY <1>9, <1>11, <2>1
    <3>2. QED
      BY <3>1 DEF PinsFit
  <2>2. QED
    BY <1>10, <2>1
<1>13. QED
  BY <1>8, <1>12

(* A clamped offset is in its bounds.                                       *)
LEMMA ClampedIn ==
  ASSUME NEW x \in Int, NEW low \in Int, NEW high \in Int
  PROVE  /\ Clamped(x, low, high) \in Int /\ (low <= high => Clamped(x, low, high) \in low .. high)
         /\ x \in low .. high => Clamped(x, low, high) = x
         /\ low <= high /\ x > high => Clamped(x, low, high) = high
         /\ x < low => Clamped(x, low, high) = low
BY DEF Clamped

(* A window moved to a line of the body shows it.                           *)
LEMMA FollowedShows ==
  ASSUME NEW o \in Int, NEW n \in Nat \ {0}, NEW length \in Nat, length > n, NEW c \in 0 .. length - 1
  PROVE  /\ Followed(o, c, n) \in Int
         /\ c \in Clamped(Followed(o, c, n), 0, length - n) .. Clamped(Followed(o, c, n), 0, length - n) + n - 1
<1> DEFINE w == Followed(o, c, n)
<1>1. w \in Int /\ w <= c /\ c <= w + n - 1
  BY DEF Followed
<1> HIDE DEF w
<1>2. CASE w < 0
  <2>1. Clamped(w, 0, length - n) = 0
    BY <1>1, <1>2, ClampedIn
  <2>2. QED
    BY <1>1, <1>2, <2>1 DEF w
<1>3. CASE w > length - n
  <2>1. Clamped(w, 0, length - n) = length - n
    BY <1>1, <1>3, ClampedIn
  <2>2. QED
    BY <1>1, <1>3, <2>1 DEF w
<1>4. CASE w \in 0 .. length - n
  <2>1. Clamped(w, 0, length - n) = w
    BY <1>4 DEF Clamped
  <2>2. QED
    BY <1>1, <1>4, <2>1 DEF w
<1>5. QED
  BY <1>1, <1>2, <1>3, <1>4

(* What is shown fills the terminal, is of the page, and has the selected   *)
(* row in it when the frame follows it.                                     *)
FrameSound(f) ==
  f.sheet.lines > f.height =>
    /\ f.shown >= 0
    /\ f.top + f.shown + f.note + f.bottom = f.height
    /\ f.top + f.from + f.shown + f.bottom <= f.sheet.lines
    /\ f.follows /\ CursorOf(f.sheet) # -1 /\ f.shown > 0 =>
         \/ CursorOf(f.sheet) < f.top \/ CursorOf(f.sheet) >= f.sheet.lines - f.bottom
         \/ CursorOf(f.sheet) \in (f.top + f.from) .. (f.top + f.from + f.shown - 1)

(* A frame drawn is sound, whatever the offset it starts from.              *)
LEMMA DrawnSound ==
  ASSUME NEW s \in Sheets, NEW h \in Heights, offset \in Int
  PROVE  /\ Drawn(s, h).offset \in Int /\ Drawn(s, h).rows \in Nat /\ Drawn(s, h).body \in Nat
         /\ offset \in Nat => Drawn(s, h).offset \in Nat
         /\ Drawn(s, h).frame.sheet = s /\ Drawn(s, h).frame.height = h
         /\ FrameSound(Drawn(s, h).frame)
<1> DEFINE c == CursorOf(s)
           isNew == fresh /\ s.id # identity
           scrolled == manual /\ ~isNew /\ ~(fresh /\ c # cursor)
           o == IF isNew THEN 0 ELSE offset
           p == Pins(h)
           length == s.lines - p.bottom - p.top
           note == IF h - p.top - p.bottom >= 2 THEN 1 ELSE 0
           n == h - p.top - p.bottom - note
           followed == IF ~scrolled /\ c # -1 THEN Followed(o, c - p.top, n) ELSE o
           window == Clamped(followed, 0, length - n)
           shown == IF length - window < n THEN length - window ELSE n
           whole == [sheet |-> s, height |-> h, top |-> s.lines, from |-> 0, shown |-> 0,
                     note |-> 0, bottom |-> 0, follows |-> ~scrolled]
           part == [sheet |-> s, height |-> h, top |-> p.top, from |-> window, shown |-> shown,
                    note |-> note, bottom |-> p.bottom, follows |-> ~scrolled]
<1>1. Drawn(s, h) = IF s.lines <= h
                    THEN [offset |-> o, manual |-> scrolled, rows |-> 0, body |-> 0, frame |-> whole]
                    ELSE [offset |-> window, manual |-> scrolled, rows |-> n, body |-> length,
                          frame |-> part]
  BY DEF Drawn
<1>2. /\ s.lines \in Nat /\ h \in Nat \ {0} /\ Top \in Nat /\ Bottom \in Nat
      /\ o \in Int /\ (offset \in Nat => o \in Nat)
  BY ViewAssumption
<1>3. CASE s.lines <= h
  <2>1. /\ Drawn(s, h).offset = o /\ Drawn(s, h).rows = 0 /\ Drawn(s, h).body = 0
        /\ Drawn(s, h).frame = whole
    <3> HIDE DEF o, whole, scrolled
    <3> QED BY <1>1, <1>3
  <2>2. whole.sheet = s /\ whole.height = h
    OBVIOUS
  <2>3. FrameSound(whole)
    <3> HIDE DEF whole
    <3> QED BY <1>2, <1>3, <2>2 DEF FrameSound
  <2>4. QED
    <3> HIDE DEF o, whole, scrolled
    <3> QED BY <1>2, <2>1, <2>2, <2>3
<1>4. CASE s.lines > h
  <2>1. p \in PinPairs /\ PinsFit(p, h)
    BY PinsAlwaysFit
  <2>2. p.top \in Nat /\ p.bottom \in Nat \ {0}
    <3> HIDE DEF p
    <3> QED BY <2>1 DEF PinPairs
  <2>3. /\ note \in {0, 1} /\ n \in Nat /\ p.top + n + note + p.bottom = h
    <3> HIDE DEF p
    <3>1. note \in {0, 1} /\ n \in Int /\ p.top + n + note + p.bottom = h
      BY <1>2, <2>2
    <3>2. n >= 0
      <4>1. CASE p.top + p.bottom + 1 + 3 <= h
        BY <1>2, <2>2, <4>1
      <4>2. CASE p.top = 0 /\ p.bottom <= 1
        BY <1>2, <2>2, <4>2
      <4>3. QED
        BY <2>1, <4>1, <4>2 DEF PinsFit, MinBody
    <3>3. QED
      BY <3>1, <3>2
  <2>4. length \in Nat /\ length > n
    <3> HIDE DEF p, note
    <3> QED BY <1>2, <1>4, <2>2, <2>3
  <2>5. c \in Int
    BY <1>2, ViewAssumption DEF CursorOf
  <2>6. followed \in Int
    <3> HIDE DEF p, n, c, o
    <3> QED BY <1>2, <2>2, <2>3, <2>5 DEF Followed
  <2>7. window \in 0 .. length - n
    <3>1. 0 <= length - n /\ length - n \in Int
      <4> HIDE DEF length, n
      <4> QED BY <2>3, <2>4
    <3> DEFINE high == length - n
    <3>2. high \in Int /\ 0 <= high
      <4> HIDE DEF length, n
      <4> QED BY <3>1
    <3> HIDE DEF followed, high
    <3>3. Clamped(followed, 0, high) \in 0 .. high
      BY <2>6, <3>2, ClampedIn
    <3>4. QED
      BY <3>3 DEF high
  <2>8. shown = n
    <3> HIDE DEF window, length, n
    <3> QED BY <2>3, <2>4, <2>7
  <2>9. ~scrolled /\ c # -1 /\ n > 0 =>
           \/ c < p.top \/ c >= s.lines - p.bottom
           \/ c \in (p.top + window) .. (p.top + window + n - 1)
    <3> SUFFICES ASSUME ~scrolled, c # -1, n > 0, c >= p.top, c < s.lines - p.bottom
                 PROVE  c \in (p.top + window) .. (p.top + window + n - 1)
      <4> HIDE DEF c, p, window, n, scrolled
      <4> QED BY <1>2, <2>2, <2>5
    <3>1. followed = Followed(o, c - p.top, n)
      <4> HIDE DEF c, p, n, scrolled, o
      <4> QED OBVIOUS
    <3>2. c - p.top \in 0 .. length - 1
      <4> HIDE DEF c, p
      <4> QED BY <1>2, <2>2, <2>5
    <3>3. n \in Nat \ {0}
      <4> HIDE DEF n
      <4> QED BY <2>3
    <3> DEFINE b == c - p.top
               w == Clamped(Followed(o, b, n), 0, length - n)
    <3>4. b \in w .. w + n - 1
      <4> HIDE DEF b, o, n, length
      <4> QED BY <1>2, <2>4, <3>2, <3>3, FollowedShows DEF b
    <3>5. window = w
      BY <3>1
    <3>6. c - p.top \in window .. window + n - 1
      <4> HIDE DEF c, p, w, window, n
      <4> QED BY <3>4, <3>5
    <3>7. window \in Int
      <4> HIDE DEF window, length, n
      <4> QED BY <2>3, <2>4, <2>7
    <3>8. QED
      <4> HIDE DEF c, p, window, n
      <4> QED BY <2>2, <2>3, <2>5, <3>6, <3>7
  <2>10. FrameSound(part)
    <3> HIDE DEF window, shown, note, p, n, scrolled
    <3>1. /\ part.sheet = s /\ part.height = h /\ part.top = p.top /\ part.from = window
          /\ part.shown = n /\ part.note = note /\ part.bottom = p.bottom
          /\ (part.follows <=> ~scrolled)
      BY <2>8
    <3>2. n >= 0 /\ p.top + n + note + p.bottom = h /\ p.top + window + n + p.bottom <= s.lines
      BY <1>2, <2>2, <2>3, <2>7
    <3> HIDE DEF part
    <3>3. part.follows /\ CursorOf(part.sheet) # -1 /\ part.shown > 0 =>
            \/ CursorOf(part.sheet) < part.top \/ CursorOf(part.sheet) >= part.sheet.lines - part.bottom
            \/ CursorOf(part.sheet) \in (part.top + part.from) .. (part.top + part.from + part.shown - 1)
      BY <2>9, <3>1
    <3>4. QED
      BY <3>1, <3>2, <3>3 DEF FrameSound
  <2>11. /\ Drawn(s, h).offset = window /\ Drawn(s, h).rows = n /\ Drawn(s, h).body = length
         /\ Drawn(s, h).frame = part
    <3> HIDE DEF window, n, length, part, o, whole, scrolled
    <3> QED BY <1>1, <1>2, <1>4
  <2>12. part.sheet = s /\ part.height = h
    OBVIOUS
  <2>13. window \in Nat /\ n \in Nat /\ length \in Nat
    <3> HIDE DEF window, n, length
    <3> QED BY <2>3, <2>4, <2>7
  <2>14. QED
    <3> HIDE DEF window, n, length, part
    <3> QED BY <2>10, <2>11, <2>12, <2>13
<1>5. QED
  BY <1>2, <1>3, <1>4


(* What is on the page and in the terminal, and the step each reader is at. *)
ViewTyped ==
  /\ sheet \in Sheets \cup {NoSheet} /\ height \in Heights
  /\ offset \in Int /\ rows \in Int /\ body \in Int /\ aim \in Int
  /\ reader \in {"idle", "set", "draw", "aimed", "scrolled"}
  /\ drawing \in {"none", "begin", "measure", "paint", "check", "leave"}
  /\ drawing = "paint" => measured \in Heights
  /\ drawing # "none" \/ reader # "idle" => sheet \in Sheets

(* A frame of another height than the terminal's is drawn again: the        *)
(* handler is to run, another pass is asked for, or the page is about to be *)
(* drawn.                                                                   *)
ResizeFollowed ==
  /\ drawing = "paint" => measured = height \/ winch \/ again
  /\ attached /\ sheet # NoSheet /\ drawing \in {"none", "check", "leave"} =>
       \/ frame.height = height \/ winch \/ again
       \/ drawing = "none" /\ reader \in {"set", "draw"}

(* The frame is of the page set last, but while that one is to be drawn.    *)
SheetFollowed ==
  /\ drawing \in {"check", "leave"} => frame.sheet = sheet
  /\ drawing = "none" /\ reader \notin {"set", "draw"} /\ sheet # NoSheet => frame.sheet = sheet

(* Who has left the viewport draws no more.                                 *)
Detached == ~attached => reader = "idle" /\ drawing = "none" /\ kept = {}

(* Together they are inductive.                                             *)
ViewInv == ViewTyped /\ FrameSound(frame) /\ ResizeFollowed /\ SheetFollowed /\ Detached

(* A page is set before it is drawn.                                        *)
LEMMA UpdateKeeps == ASSUME ViewInv, NEW s \in Sheets, Update(s) PROVE ViewInv'
<1>1. ViewTyped'
  BY DEF Update, Free, pageVars, ViewInv, ViewTyped
<1>2. frame' = frame
  BY DEF Update, pageVars
<1>3. FrameSound(frame')
  BY <1>2 DEF ViewInv
<1>4. ResizeFollowed' /\ SheetFollowed' /\ Detached'
  BY DEF Update, Free, pageVars, ViewInv, ViewTyped, ResizeFollowed, SheetFollowed, Detached
<1>5. QED
  BY <1>1, <1>3, <1>4 DEF ViewInv

(* It is marked as new.                                                     *)
LEMMA MarkFreshKeeps == ASSUME ViewInv, MarkFresh PROVE ViewInv'
<1>1. ViewTyped'
  BY DEF MarkFresh, Free, pageVars, ViewInv, ViewTyped
<1>2. frame' = frame
  BY DEF MarkFresh, pageVars
<1>3. FrameSound(frame')
  BY <1>2 DEF ViewInv
<1>4. ResizeFollowed' /\ SheetFollowed' /\ Detached'
  BY DEF MarkFresh, Free, pageVars, ViewInv, ViewTyped, ResizeFollowed, SheetFollowed, Detached
<1>5. QED
  BY <1>1, <1>3, <1>4 DEF ViewInv

(* A scroll aims at an offset.                                              *)
LEMMA ScrollKeeps == ASSUME ViewInv, Scroll PROVE ViewInv'
<1>1. ViewTyped'
  <2>1. aim' \in Int
    <3>1. offset \in Int /\ rows \in Int /\ body \in Int
      BY DEF ViewInv, ViewTyped
    <3>2. \A step \in {rows - 1, 1} : offset + step \in Int /\ offset - step \in Int
      BY <3>1
    <3>3. (IF rows > 2 THEN rows - 1 ELSE 1) \in {rows - 1, 1}
      OBVIOUS
    <3>4. QED
      BY <3>1, <3>2, <3>3 DEF Scroll
  <2>2. reader = "idle" /\ drawing = "none" /\ sheet # NoSheet /\ reader' = "aimed" /\ UNCHANGED <<drawing, height, measured, pageVars>>
    BY DEF Scroll, Free
  <2>3. QED
    BY <2>1, <2>2 DEF ViewInv, ViewTyped, pageVars
<1>2. frame' = frame
  BY DEF Scroll, pageVars
<1>3. FrameSound(frame')
  BY <1>2 DEF ViewInv
<1>4. ResizeFollowed' /\ SheetFollowed' /\ Detached'
  BY DEF Scroll, Free, pageVars, ViewInv, ViewTyped, ResizeFollowed, SheetFollowed, Detached
<1>5. QED
  BY <1>1, <1>3, <1>4 DEF ViewInv

(* The offset aimed at is clamped.                                          *)
LEMMA SetOffsetKeeps == ASSUME ViewInv, SetOffset PROVE ViewInv'
<1>1. ViewTyped'
  <2>1. offset' \in Int
    <3>1. aim \in Int /\ body - rows \in Int
      BY DEF ViewInv, ViewTyped
    <3>2. QED
      BY <3>1, ClampedIn DEF SetOffset
  <2>2. QED
    BY <2>1 DEF SetOffset, ViewInv, ViewTyped
<1>2. frame' = frame
  BY DEF SetOffset, pageVars
<1>3. FrameSound(frame')
  BY <1>2 DEF ViewInv
<1>4. ResizeFollowed' /\ SheetFollowed' /\ Detached'
  BY DEF SetOffset, Free, pageVars, ViewInv, ViewTyped, ResizeFollowed, SheetFollowed, Detached
<1>5. QED
  BY <1>1, <1>3, <1>4 DEF ViewInv

(* The operator has scrolled.                                               *)
LEMMA MarkManualKeeps == ASSUME ViewInv, MarkManual PROVE ViewInv'
<1>1. ViewTyped'
  BY DEF MarkManual, Free, pageVars, ViewInv, ViewTyped
<1>2. frame' = frame
  BY DEF MarkManual, pageVars
<1>3. FrameSound(frame')
  BY <1>2 DEF ViewInv
<1>4. ResizeFollowed' /\ SheetFollowed' /\ Detached'
  BY DEF MarkManual, Free, pageVars, ViewInv, ViewTyped, ResizeFollowed, SheetFollowed, Detached
<1>5. QED
  BY <1>1, <1>3, <1>4 DEF ViewInv

(* The viewport is left, and the console has its size back.                 *)
LEMMA DetachKeeps == ASSUME ViewInv, Detach PROVE ViewInv'
<1>1. ViewTyped'
  BY DEF Detach, Free, pageVars, ViewInv, ViewTyped
<1>2. frame' = frame
  BY DEF Detach, pageVars
<1>3. FrameSound(frame')
  BY <1>2 DEF ViewInv
<1>4. ResizeFollowed' /\ SheetFollowed' /\ Detached'
  BY DEF Detach, Free, pageVars, ViewInv, ViewTyped, ResizeFollowed, SheetFollowed, Detached
<1>5. QED
  BY <1>1, <1>3, <1>4 DEF ViewInv

(* The terminal is resized: the handler is to run.                          *)
LEMMA ResizeKeeps == ASSUME ViewInv, NEW h \in Heights, Resize(h) PROVE ViewInv'
<1>1. ViewTyped'
  BY DEF Resize, Free, pageVars, ViewInv, ViewTyped
<1>2. frame' = frame
  BY DEF Resize, pageVars
<1>3. FrameSound(frame')
  BY <1>2 DEF ViewInv
<1>4. ResizeFollowed' /\ SheetFollowed' /\ Detached'
  BY DEF Resize, Free, pageVars, ViewInv, ViewTyped, ResizeFollowed, SheetFollowed, Detached
<1>5. QED
  BY <1>1, <1>3, <1>4 DEF ViewInv

(* The handler interrupts a drawing, and asks for one more pass.            *)
LEMMA InterruptKeeps == ASSUME ViewInv, Interrupt PROVE ViewInv'
<1>1. ViewTyped'
  BY DEF Interrupt, Free, pageVars, ViewInv, ViewTyped
<1>2. frame' = frame
  BY DEF Interrupt, pageVars
<1>3. FrameSound(frame')
  BY <1>2 DEF ViewInv
<1>4. ResizeFollowed' /\ SheetFollowed' /\ Detached'
  BY DEF Interrupt, Free, pageVars, ViewInv, ViewTyped, ResizeFollowed, SheetFollowed, Detached
<1>5. QED
  BY <1>1, <1>3, <1>4 DEF ViewInv

(* The handler draws, when nothing is being drawn.                          *)
LEMMA HandlerDrawsKeeps == ASSUME ViewInv, HandlerDraws PROVE ViewInv'
<1>1. ViewTyped'
  BY DEF HandlerDraws, Free, pageVars, ViewInv, ViewTyped
<1>2. frame' = frame
  BY DEF HandlerDraws, pageVars
<1>3. FrameSound(frame')
  BY <1>2 DEF ViewInv
<1>4. ResizeFollowed' /\ SheetFollowed' /\ Detached'
  BY DEF HandlerDraws, Free, pageVars, ViewInv, ViewTyped, ResizeFollowed, SheetFollowed, Detached
<1>5. QED
  BY <1>1, <1>3, <1>4 DEF ViewInv

(* The main thread draws.                                                   *)
LEMMA MainDrawsKeeps == ASSUME ViewInv, MainDraws PROVE ViewInv'
<1>1. ViewTyped'
  BY DEF MainDraws, Free, pageVars, ViewInv, ViewTyped
<1>2. frame' = frame
  BY DEF MainDraws, pageVars
<1>3. FrameSound(frame')
  BY <1>2 DEF ViewInv
<1>4. ResizeFollowed' /\ SheetFollowed' /\ Detached'
  BY DEF MainDraws, Free, pageVars, ViewInv, ViewTyped, ResizeFollowed, SheetFollowed, Detached
<1>5. QED
  BY <1>1, <1>3, <1>4 DEF ViewInv

(* A pass answers what was asked for before it.                             *)
LEMMA BeginPassKeeps == ASSUME ViewInv, BeginPass PROVE ViewInv'
<1>1. ViewTyped'
  BY DEF BeginPass, Free, pageVars, ViewInv, ViewTyped
<1>2. frame' = frame
  BY DEF BeginPass, pageVars
<1>3. FrameSound(frame')
  BY <1>2 DEF ViewInv
<1>4. ResizeFollowed' /\ SheetFollowed' /\ Detached'
  BY DEF BeginPass, Free, pageVars, ViewInv, ViewTyped, ResizeFollowed, SheetFollowed, Detached
<1>5. QED
  BY <1>1, <1>3, <1>4 DEF ViewInv

(* The terminal is measured: a resize from now on asks for another pass.    *)
LEMMA MeasureKeeps == ASSUME ViewInv, Measure PROVE ViewInv'
<1>1. ViewTyped'
  BY DEF Measure, Free, pageVars, ViewInv, ViewTyped
<1>2. frame' = frame
  BY DEF Measure, pageVars
<1>3. FrameSound(frame')
  BY <1>2 DEF ViewInv
<1>4. ResizeFollowed' /\ SheetFollowed' /\ Detached'
  BY DEF Measure, Free, pageVars, ViewInv, ViewTyped, ResizeFollowed, SheetFollowed, Detached
<1>5. QED
  BY <1>1, <1>3, <1>4 DEF ViewInv

(* Another pass, or the end.                                                *)
LEMMA CheckAgainKeeps == ASSUME ViewInv, CheckAgain PROVE ViewInv'
<1>1. ViewTyped'
  BY DEF CheckAgain, Free, pageVars, ViewInv, ViewTyped
<1>2. frame' = frame
  BY DEF CheckAgain, pageVars
<1>3. FrameSound(frame')
  BY <1>2 DEF ViewInv
<1>4. ResizeFollowed' /\ SheetFollowed' /\ Detached'
  BY DEF CheckAgain, Free, pageVars, ViewInv, ViewTyped, ResizeFollowed, SheetFollowed, Detached
<1>5. QED
  BY <1>1, <1>3, <1>4 DEF ViewInv

(* The drawing ends.                                                        *)
LEMMA EndDrawKeeps == ASSUME ViewInv, EndDraw PROVE ViewInv'
<1>1. ViewTyped'
  BY DEF EndDraw, Free, pageVars, ViewInv, ViewTyped
<1>2. frame' = frame
  BY DEF EndDraw, pageVars
<1>3. FrameSound(frame')
  BY <1>2 DEF ViewInv
<1>4. ResizeFollowed' /\ SheetFollowed' /\ Detached'
  BY DEF EndDraw, Free, pageVars, ViewInv, ViewTyped, ResizeFollowed, SheetFollowed, Detached
<1>5. QED
  BY <1>1, <1>3, <1>4 DEF ViewInv

(* The frame painted is sound, and of the page and the terminal measured.   *)
LEMMA PaintKeeps == ASSUME ViewInv, PaintSheet PROVE ViewInv'
<1> DEFINE d == Drawn(sheet, measured)
<1>1. sheet \in Sheets /\ measured \in Heights /\ offset \in Int /\ drawing = "paint"
  BY DEF PaintSheet, ViewInv, ViewTyped
<1>2. /\ d.offset \in Int /\ d.rows \in Int /\ d.body \in Int
      /\ d.frame.sheet = sheet /\ d.frame.height = measured /\ FrameSound(d.frame)
  BY <1>1, DrawnSound
<1>3. /\ offset' = d.offset /\ rows' = d.rows /\ body' = d.body /\ frame' = d.frame /\ drawing' = "check"
      /\ UNCHANGED <<attached, reader, height, winch, kept, sheet, again, measured, aim>>
  BY DEF PaintSheet
<1> HIDE DEF d
<1>4. ViewTyped'
  BY <1>1, <1>2, <1>3 DEF ViewInv, ViewTyped
<1>5. FrameSound(frame')
  BY <1>2, <1>3
<1>6. ResizeFollowed' /\ SheetFollowed' /\ Detached'
  BY <1>1, <1>2, <1>3 DEF ViewInv, ResizeFollowed, SheetFollowed, Detached
<1>7. QED
  BY <1>4, <1>5, <1>6 DEF ViewInv

(* A viewport is entered before a page is set.                              *)
LEMMA ViewStarts == ViewInit => ViewInv
<1> SUFFICES ASSUME ViewInit PROVE ViewInv
  OBVIOUS
<1>1. ViewTyped
  BY DEF ViewInit, ViewTyped
<1>2. FrameSound(frame)
  <2>1. frame.sheet.lines = 0 /\ frame.height = 0
    BY DEF ViewInit, NoSheet
  <2>2. QED
    BY <2>1 DEF FrameSound
<1>3. ResizeFollowed /\ SheetFollowed /\ Detached
  BY DEF ViewInit, ResizeFollowed, SheetFollowed, Detached
<1>4. QED
  BY <1>1, <1>2, <1>3 DEF ViewInv

(* Every step of the viewport keeps it.                                     *)
LEMMA ViewGoesOn == ViewInv /\ [ViewNext]_viewVars => ViewInv'
<1> SUFFICES ASSUME ViewInv, [ViewNext]_viewVars PROVE ViewInv'
  OBVIOUS
<1>1. CASE UNCHANGED viewVars
  <2>1. frame' = frame
    BY <1>1 DEF viewVars
  <2>2. FrameSound(frame')
    BY <2>1 DEF ViewInv
  <2>3. ViewTyped'
    BY <1>1 DEF viewVars, ViewInv, ViewTyped
  <2>4. ResizeFollowed' /\ SheetFollowed' /\ Detached'
    BY <1>1 DEF viewVars, ViewInv, ResizeFollowed, SheetFollowed, Detached
  <2>5. QED
    BY <2>2, <2>3, <2>4 DEF ViewInv
<1>2. CASE ViewNext
  BY <1>2, UpdateKeeps, MarkFreshKeeps, ScrollKeeps, SetOffsetKeeps, MarkManualKeeps, DetachKeeps, ResizeKeeps, InterruptKeeps, HandlerDrawsKeeps, MainDrawsKeeps, BeginPassKeeps, MeasureKeeps, CheckAgainKeeps, EndDrawKeeps, PaintKeeps DEF ViewNext
<1>3. QED
  BY <1>1, <1>2

(* It makes the viewport safe.                                              *)
LEMMA ViewIsSafe == ViewInv => ViewportSafe
<1> SUFFICES ASSUME ViewInv PROVE ViewportSafe
  OBVIOUS
<1>1. FrameFits /\ CursorIsShown
  BY DEF ViewInv, FrameSound, FrameFits, CursorIsShown
<1>2. NoResizeIsLost /\ ConsoleIsRestored
  BY DEF ViewInv, ResizeFollowed, SheetFollowed, Detached, NoResizeIsLost, ConsoleIsRestored
<1>3. QED
  BY <1>1, <1>2 DEF ViewportSafe

(* Every frame fits the terminal it was made for and shows the selected     *)
(* row, a resize is followed, and leaving puts the console back, for every  *)
(* page, pin and terminal.                                                  *)
THEOREM ViewportAlwaysSafe == ViewSpec => []ViewportSafe
<1> QED BY ViewStarts, ViewGoesOn, ViewIsSafe, PTL DEF ViewSpec

----------------------------------------------------------------------------
(* The cursor.  The rows of Home are pills, needs, the worker's and shelves, *)
(* in this order; each of ours has one cell in the lines drawn; and left and *)
(* right name a row by its pill or letter, which is the one in the cell     *)
(* beside.  The letters of a roster are distinct, or a shelf would have two. *)

(* A sequence is a function on its indices.                                 *)
LEMMA IsIndexed ==
  ASSUME NEW s, IsASequence(s)
  PROVE  /\ Len(s) \in Nat /\ DOMAIN s = 1 .. Len(s)
         /\ s # <<>> => Len(s) \in Nat \ {0}
<1>1. Len(s) \in Nat /\ DOMAIN s = 1 .. Len(s)
  BY LenProperties DEF IsASequence
<1>2. s # <<>> => Len(s) # 0
  BY <1>1, EmptySeq DEF IsASequence
<1>3. QED
  BY <1>1, <1>2

(* A function on indices is a sequence.                                     *)
LEMMA IndexedIs ==
  ASSUME NEW n \in Nat, NEW s, s = [i \in 1 .. n |-> s[i]]
  PROVE  IsASequence(s) /\ Len(s) = n /\ DOMAIN s = 1 .. n
<1>1. s \in [1 .. n -> {s[i] : i \in DOMAIN s}]
  OBVIOUS
<1>2. s \in Seq({s[i] : i \in DOMAIN s})
  BY <1>1, SeqDef
<1>3. Len(s) = n
  BY <1>1, <1>2, LenProperties
<1>4. QED
  BY <1>2, <1>3 DEF IsASequence

(* Two sequences after each other.                                          *)
LEMMA Joined ==
  ASSUME NEW s, NEW t, IsASequence(s), IsASequence(t)
  PROVE  /\ IsASequence(s \o t) /\ Len(s \o t) = Len(s) + Len(t)
         /\ \A i \in 1 .. Len(s) : (s \o t)[i] = s[i]
         /\ \A i \in 1 .. Len(t) : (s \o t)[Len(s) + i] = t[i]
<1> DEFINE S == {s[i] : i \in DOMAIN s} \cup {t[i] : i \in DOMAIN t}
           r == s \o t
<1>1. s \in Seq(S) /\ t \in Seq(S)
  <2>1. {s[i] : i \in DOMAIN s} \subseteq S /\ {t[i] : i \in DOMAIN t} \subseteq S
    OBVIOUS
  <2>2. QED
    BY <2>1, SeqMonotonic DEF IsASequence
<1> HIDE DEF S
<1>2. /\ r \in Seq(S) /\ Len(r) = Len(s) + Len(t)
      /\ \A i \in 1 .. Len(s) + Len(t) : r[i] = IF i <= Len(s) THEN s[i] ELSE t[i - Len(s)]
  BY <1>1, ConcatProperties
<1>3. Len(s) \in Nat /\ Len(t) \in Nat /\ Len(r) \in Nat /\ DOMAIN r = 1 .. Len(r)
  BY <1>1, <1>2, LenProperties
<1>4. r = [i \in 1 .. Len(r) |-> r[i]]
  <2>1. r \in [1 .. Len(r) -> S]
    BY <1>2, LenProperties
  <2>2. QED
    BY <2>1
<1>5. IsASequence(r)
  BY <1>3, <1>4, IndexedIs
<1>6. \A i \in 1 .. Len(s) : r[i] = s[i]
  BY <1>2, <1>3
<1>7. \A i \in 1 .. Len(t) : r[Len(s) + i] = t[i]
  <2> TAKE i \in 1 .. Len(t)
  <2>1. Len(s) + i \in 1 .. Len(s) + Len(t) /\ ~(Len(s) + i <= Len(s)) /\ (Len(s) + i) - Len(s) = i
    BY <1>3
  <2>2. QED
    BY <1>2, <2>1
<1>8. QED
  BY <1>2, <1>5, <1>6, <1>7

(* To be somewhere in a sequence.                                           *)
Within(x, s) == \E i \in DOMAIN s : s[i] = x

(* What is in the first or the second is in both joined, and nothing else.  *)
LEMMA JoinedHas ==
  ASSUME NEW s, NEW t, IsASequence(s), IsASequence(t), NEW x
  PROVE  Within(x, s \o t) <=> Within(x, s) \/ Within(x, t)
<1>1. /\ Len(s) \in Nat /\ DOMAIN s = 1 .. Len(s) /\ Len(t) \in Nat /\ DOMAIN t = 1 .. Len(t)
      /\ DOMAIN (s \o t) = 1 .. Len(s) + Len(t)
  BY Joined, IsIndexed
<1>2. ASSUME Within(x, s \o t) PROVE Within(x, s) \/ Within(x, t)
  <2>1. PICK i \in 1 .. Len(s) + Len(t) : (s \o t)[i] = x
    BY <1>1, <1>2 DEF Within
  <2>2. CASE i \in 1 .. Len(s)
    BY <1>1, <2>1, <2>2, Joined DEF Within
  <2>3. CASE i \notin 1 .. Len(s)
    <3>1. PICK j \in 1 .. Len(t) : i = Len(s) + j
      <4>1. i - Len(s) \in 1 .. Len(t) /\ i = Len(s) + (i - Len(s))
        BY <1>1, <2>3
      <4>2. QED
        BY <4>1
    <3>2. (s \o t)[Len(s) + j] = t[j]
      BY <3>1, Joined
    <3>3. QED
      BY <1>1, <2>1, <3>1, <3>2 DEF Within
  <2>4. QED
    BY <2>2, <2>3
<1>3. ASSUME Within(x, s) PROVE Within(x, s \o t)
  <2>1. PICK i \in 1 .. Len(s) : s[i] = x
    BY <1>1, <1>3 DEF Within
  <2>2. i \in 1 .. Len(s) + Len(t)
    BY <1>1
  <2>3. QED
    BY <1>1, <2>1, <2>2, Joined DEF Within
<1>4. ASSUME Within(x, t) PROVE Within(x, s \o t)
  <2>1. PICK i \in 1 .. Len(t) : t[i] = x
    BY <1>1, <1>4 DEF Within
  <2>2. Len(s) + i \in 1 .. Len(s) + Len(t)
    BY <1>1
  <2>3. (s \o t)[Len(s) + i] = t[i]
    BY Joined
  <2>4. QED
    BY <1>1, <2>1, <2>2, <2>3 DEF Within
<1>5. QED
  BY <1>2, <1>3, <1>4

(* Numbered rows, one by one.                                               *)
LEMMA NumberedIs ==
  ASSUME NEW kind, NEW n \in Nat
  PROVE  /\ IsASequence(Numbered(kind, n)) /\ Len(Numbered(kind, n)) = n
         /\ \A i \in 1 .. n : Numbered(kind, n)[i] = <<kind, i - 1>>
<1> DEFINE q == Numbered(kind, n)
<1>1. q = [i \in 1 .. n |-> q[i]] /\ \A i \in 1 .. n : q[i] = <<kind, i - 1>>
  BY DEF Numbered
<1> HIDE DEF q
<1>2. IsASequence(q) /\ Len(q) = n
  BY <1>1, IndexedIs
<1>3. QED
  BY <1>1, <1>2 DEF q

(* Shelves, one by one.                                                     *)
LEMMA LetteredIs ==
  ASSUME NEW letters, IsASequence(letters)
  PROVE  /\ IsASequence(Lettered(letters)) /\ Len(Lettered(letters)) = Len(letters)
         /\ \A i \in 1 .. Len(letters) : Lettered(letters)[i] = <<"shelf", letters[i]>>
<1> DEFINE q == Lettered(letters)
           n == Len(letters)
<1>1. n \in Nat /\ DOMAIN letters = 1 .. n
  BY IsIndexed
<1>2. q = [i \in 1 .. n |-> q[i]] /\ \A i \in 1 .. n : q[i] = <<"shelf", letters[i]>>
  BY <1>1 DEF Lettered
<1> HIDE DEF q, n
<1>3. IsASequence(q) /\ Len(q) = n
  BY <1>1, <1>2, IndexedIs
<1>4. QED
  BY <1>2, <1>3 DEF q, n

(* The letters drawn are a roster's.                                        *)
LEMMA LettersAre ==
  ASSUME NEW l \in Layouts
  PROVE  /\ ShelfLetters(l) \in Rosters /\ IsASequence(ShelfLetters(l)) /\ Distinct(ShelfLetters(l))
         /\ Len(ShelfLetters(l)) \in Nat \ {0} /\ DOMAIN ShelfLetters(l) = 1 .. Len(ShelfLetters(l))
<1>1. ShelfLetters(l) \in Rosters
  BY DEF ShelfLetters, Rosters
<1>2. ShelfLetters(l) # <<>> /\ IsASequence(ShelfLetters(l)) /\ Distinct(ShelfLetters(l))
  BY <1>1, CursorAssumption
<1>3. QED
  BY <1>1, <1>2, IsIndexed

(* A row of Home: a pill, a need, one of the worker's or a shelf.           *)
IsRow(l, row) ==
  \/ \E k \in 0 .. l.pills - 1 : row = <<"pill", k>>
  \/ \E k \in 0 .. l.needs - 1 : row = <<"need", k>>
  \/ Within(row, l.extras)
  \/ \E j \in DOMAIN ShelfLetters(l) : row = <<"shelf", ShelfLetters(l)[j]>>

(* What the numbered rows are.                                              *)
LEMMA NumberedHas ==
  ASSUME NEW kind, NEW n \in Nat, NEW row
  PROVE  Within(row, Numbered(kind, n)) <=> \E k \in 0 .. n - 1 : row = <<kind, k>>
<1>1. /\ DOMAIN Numbered(kind, n) = 1 .. n
      /\ \A i \in 1 .. n : Numbered(kind, n)[i] = <<kind, i - 1>>
  BY NumberedIs, IsIndexed
<1>2. ASSUME NEW k \in 0 .. n - 1, row = <<kind, k>> PROVE Within(row, Numbered(kind, n))
  <2>1. k + 1 \in 1 .. n /\ (k + 1) - 1 = k
    OBVIOUS
  <2>2. Numbered(kind, n)[k + 1] = <<kind, k>>
    BY <1>1, <2>1
  <2>3. QED
    BY <1>1, <1>2, <2>1, <2>2 DEF Within
<1>3. ASSUME Within(row, Numbered(kind, n)) PROVE \E k \in 0 .. n - 1 : row = <<kind, k>>
  <2>1. PICK i \in 1 .. n : Numbered(kind, n)[i] = row
    BY <1>1, <1>3 DEF Within
  <2>2. i - 1 \in 0 .. n - 1
    OBVIOUS
  <2>3. QED
    BY <1>1, <2>1, <2>2
<1>4. QED
  BY <1>2, <1>3

(* What the shelves are.                                                    *)
LEMMA LetteredHas ==
  ASSUME NEW letters, IsASequence(letters), NEW row
  PROVE  Within(row, Lettered(letters)) <=> \E j \in DOMAIN letters : row = <<"shelf", letters[j]>>
  BY LetteredIs, IsIndexed DEF Within

(* The rows of Home are these, and there is one at least.                   *)
LEMMA RowsAre ==
  ASSUME NEW l \in Layouts
  PROVE  /\ IsASequence(Selectables[l]) /\ RowCount(l) \in Nat \ {0}
         /\ DOMAIN Selectables[l] = 1 .. RowCount(l) /\ l.pills + l.needs < RowCount(l)
         /\ \A row : Within(row, Selectables[l]) <=> IsRow(l, row)
<1> DEFINE p == Numbered("pill", l.pills)
           n == Numbered("need", l.needs)
           e == l.extras
           t == Lettered(ShelfLetters(l))
<1>1. l.pills \in Nat /\ l.needs \in Nat /\ IsASequence(e)
  BY CursorAssumption
<1>2. /\ IsASequence(p) /\ Len(p) = l.pills /\ IsASequence(n) /\ Len(n) = l.needs
      /\ IsASequence(t) /\ Len(t) \in Nat \ {0} /\ Len(e) \in Nat
  BY <1>1, NumberedIs, LetteredIs, LettersAre, IsIndexed
<1>3. /\ \A row : Within(row, p) <=> \E k \in 0 .. l.pills - 1 : row = <<"pill", k>>
      /\ \A row : Within(row, n) <=> \E k \in 0 .. l.needs - 1 : row = <<"need", k>>
      /\ \A row : Within(row, t) <=> \E j \in DOMAIN ShelfLetters(l) : row = <<"shelf", ShelfLetters(l)[j]>>
  BY <1>1, NumberedHas, LetteredHas, LettersAre
<1>4. Selectables[l] = ((p \o n) \o e) \o t
  BY DEF Selectables
<1> HIDE DEF p, n, e, t
<1>5. /\ IsASequence(p \o n) /\ Len(p \o n) = l.pills + l.needs
      /\ \A row : Within(row, p \o n) <=> Within(row, p) \/ Within(row, n)
  <2>1. \A s, q : IsASequence(s) /\ IsASequence(q) =>
                   IsASequence(s \o q) /\ Len(s \o q) = Len(s) + Len(q)
    BY Joined
  <2>2. \A s, q, row : IsASequence(s) /\ IsASequence(q) =>
                        (Within(row, s \o q) <=> Within(row, s) \/ Within(row, q))
    BY JoinedHas
  <2>3. QED
    BY <1>2, <2>1, <2>2
<1>6. /\ IsASequence((p \o n) \o e) /\ Len((p \o n) \o e) = l.pills + l.needs + Len(e)
      /\ \A row : Within(row, (p \o n) \o e) <=> Within(row, p \o n) \/ Within(row, e)
  BY <1>1, <1>5, Joined, JoinedHas
<1>7. /\ IsASequence(((p \o n) \o e) \o t) /\ Len(((p \o n) \o e) \o t) = l.pills + l.needs + Len(e) + Len(t)
      /\ \A row : Within(row, ((p \o n) \o e) \o t) <=> Within(row, (p \o n) \o e) \/ Within(row, t)
  BY <1>2, <1>6, Joined, JoinedHas
<1>8. \A row : Within(row, Selectables[l]) <=> IsRow(l, row)
  BY <1>3, <1>4, <1>5, <1>6, <1>7 DEF IsRow, e
<1>9. RowCount(l) = l.pills + l.needs + Len(e) + Len(t)
  BY <1>4, <1>7 DEF RowCount
<1>10. RowCount(l) \in Nat \ {0} /\ l.pills + l.needs < RowCount(l)
  BY <1>1, <1>2, <1>9
<1>11. QED
  BY <1>4, <1>7, <1>8, <1>10, IsIndexed DEF RowCount


(* The lines of the pulse and of the toolkit, two cells each.               *)
PulseHeight(l) == (l.pills + 1) \div 2
HalfOf(l) == (Len(ShelfLetters(l)) + 1) \div 2

(* The lines hold the pills and the letters two by two.                     *)
LEMMA SizesAre ==
  ASSUME NEW l \in Layouts
  PROVE  /\ l.pills \in Nat /\ l.needs \in Nat /\ PulseHeight(l) \in Nat /\ HalfOf(l) \in Nat \ {0}
         /\ l.pills \in {2 * PulseHeight(l), 2 * PulseHeight(l) - 1}
         /\ Len(ShelfLetters(l)) \in {2 * HalfOf(l), 2 * HalfOf(l) - 1}
         /\ Len(ShelfLetters(l)) \in Nat \ {0}
<1>1. \A n \in Nat : (n + 1) \div 2 \in Nat /\ n \in {2 * ((n + 1) \div 2), 2 * ((n + 1) \div 2) - 1}
  OBVIOUS
<1>2. l.pills \in Nat /\ l.needs \in Nat /\ Len(ShelfLetters(l)) \in Nat \ {0}
  BY CursorAssumption, LettersAre
<1>3. PulseHeight(l) \in Nat /\ l.pills \in {2 * PulseHeight(l), 2 * PulseHeight(l) - 1}
  BY <1>1, <1>2 DEF PulseHeight
<1>4. HalfOf(l) \in Nat /\ Len(ShelfLetters(l)) \in {2 * HalfOf(l), 2 * HalfOf(l) - 1}
  BY <1>1, <1>2 DEF HalfOf
<1>5. HalfOf(l) # 0
  BY <1>2, <1>4
<1>6. QED
  BY <1>2, <1>3, <1>4, <1>5

(* What is on the r-th line of each part.                                   *)
PulseLine(l, r) ==
  <<<<"pill", 2 * r - 2>>, IF 2 * r - 1 < l.pills THEN <<"pill", 2 * r - 1>> ELSE Blank>>
ToolkitLine(l, r) ==
  <<<<"shelf", ShelfLetters(l)[r]>>,
    IF HalfOf(l) + r <= Len(ShelfLetters(l)) THEN <<"shelf", ShelfLetters(l)[HalfOf(l) + r]>> ELSE Blank>>

(* The lines are the pulse's, the needs' and the toolkit's, one after another. *)
LEMMA LinesAre ==
  ASSUME NEW l \in Layouts
  PROVE  /\ DOMAIN Lines[l] = 1 .. PulseHeight(l) + l.needs + HalfOf(l)
         /\ \A r \in 1 .. PulseHeight(l) : Lines[l][r] = PulseLine(l, r)
         /\ \A r \in 1 .. l.needs : Lines[l][PulseHeight(l) + r] = <<<<"need", r - 1>>>>
         /\ \A r \in 1 .. HalfOf(l) : Lines[l][PulseHeight(l) + l.needs + r] = ToolkitLine(l, r)
<1> DEFINE p == PulseLines(l)
           n == NeedsLines(l)
           t == ToolkitLines(l)
           P == PulseHeight(l)
           N == l.needs
           H == HalfOf(l)
<1>1. P \in Nat /\ N \in Nat /\ H \in Nat
  BY SizesAre
<1>2. /\ p = [r \in 1 .. P |-> p[r]] /\ \A r \in 1 .. P : p[r] = PulseLine(l, r)
  BY DEF PulseLines, PulseLine, PulseHeight
<1>3. /\ n = [r \in 1 .. N |-> n[r]] /\ \A r \in 1 .. N : n[r] = <<<<"need", r - 1>>>>
  BY DEF NeedsLines
<1>4. /\ t = [r \in 1 .. H |-> t[r]] /\ \A r \in 1 .. H : t[r] = ToolkitLine(l, r)
  BY DEF ToolkitLines, ToolkitLine, HalfOf
<1>5. Lines[l] = (p \o n) \o t
  BY DEF Lines
<1> HIDE DEF p, n, t, P, N, H
<1>6. IsASequence(p) /\ Len(p) = P /\ IsASequence(n) /\ Len(n) = N /\ IsASequence(t) /\ Len(t) = H
  BY <1>1, <1>2, <1>3, <1>4, IndexedIs
<1>7. /\ IsASequence(p \o n) /\ Len(p \o n) = P + N
      /\ \A i \in 1 .. P : (p \o n)[i] = p[i]
      /\ \A i \in 1 .. N : (p \o n)[P + i] = n[i]
  BY <1>6, Joined
<1>8. /\ IsASequence((p \o n) \o t) /\ Len((p \o n) \o t) = P + N + H
      /\ \A i \in 1 .. P + N : ((p \o n) \o t)[i] = (p \o n)[i]
      /\ \A i \in 1 .. H : ((p \o n) \o t)[P + N + i] = t[i]
  <2> DEFINE q == p \o n
  <2>1. IsASequence(q) /\ Len(q) = P + N
    BY <1>7
  <2> HIDE DEF q
  <2>2. /\ IsASequence(q \o t) /\ Len(q \o t) = Len(q) + Len(t)
        /\ \A i \in 1 .. Len(q) : (q \o t)[i] = q[i]
        /\ \A i \in 1 .. Len(t) : (q \o t)[Len(q) + i] = t[i]
    <3>1. IsASequence(q) /\ IsASequence(t)
      BY <1>6, <2>1
    <3>2. QED
      BY ONLY <3>1, Joined
  <2>3. /\ IsASequence(q \o t) /\ Len(q \o t) = P + N + H
        /\ \A i \in 1 .. P + N : (q \o t)[i] = q[i]
        /\ \A i \in 1 .. H : (q \o t)[P + N + i] = t[i]
    BY <1>6, <2>1, <2>2
  <2>4. QED
    BY <2>3 DEF q
<1>9. DOMAIN Lines[l] = 1 .. P + N + H
  BY <1>5, <1>8, IsIndexed
<1>10. \A r \in 1 .. P : Lines[l][r] = PulseLine(l, r)
  <2> TAKE r \in 1 .. P
  <2>1. r \in 1 .. P + N
    BY <1>1
  <2>2. QED
    BY <1>2, <1>5, <1>7, <1>8, <2>1
<1>11. \A r \in 1 .. N : Lines[l][P + r] = <<<<"need", r - 1>>>>
  <2> TAKE r \in 1 .. N
  <2>1. P + r \in 1 .. P + N
    BY <1>1
  <2>2. QED
    BY <1>3, <1>5, <1>7, <1>8, <2>1
<1>12. \A r \in 1 .. H : Lines[l][P + N + r] = ToolkitLine(l, r)
  BY <1>4, <1>5, <1>8
<1>13. QED
  BY <1>9, <1>10, <1>11, <1>12 DEF P, N, H

(* Pairs are equal part by part.                                            *)
LEMMA PairsEqual == \A a, b, c, d : <<a, b>> = <<c, d>> <=> a = c /\ b = d
  OBVIOUS

(* Every cell is of one of the three parts.                                 *)
LEMMA CellCases ==
  ASSUME NEW l \in Layouts, NEW row, NEW cell \in CellsOf(l, row)
  PROVE  /\ cell = <<cell[1], cell[2]>> /\ cell[1] \in DOMAIN Lines[l] /\ cell[2] \in {1, 2}
         /\ Lines[l][cell[1]][cell[2]] = row
         /\ \/ \E r \in 1 .. PulseHeight(l) : cell[1] = r
            \/ \E r \in 1 .. l.needs : cell[1] = PulseHeight(l) + r /\ cell[2] = 1
            \/ \E r \in 1 .. HalfOf(l) : cell[1] = PulseHeight(l) + l.needs + r
<1>1. /\ cell \in (DOMAIN Lines[l]) \X {1, 2}
      /\ cell[2] \in DOMAIN Lines[l][cell[1]] /\ Lines[l][cell[1]][cell[2]] = row
  BY DEF CellsOf
<1>2. cell = <<cell[1], cell[2]>> /\ cell[1] \in DOMAIN Lines[l] /\ cell[2] \in {1, 2}
  BY <1>1
<1>3. PICK P \in Nat, N \in Nat, H \in Nat : P = PulseHeight(l) /\ N = l.needs /\ H = HalfOf(l)
  BY SizesAre
<1>4. cell[1] \in 1 .. P + N + H
  BY <1>2, <1>3, LinesAre
<1>5. CASE cell[1] \in 1 .. P
  BY <1>1, <1>2, <1>3, <1>5
<1>6. CASE cell[1] \in P + 1 .. P + N
  <2>1. cell[1] - P \in 1 .. N /\ cell[1] = P + (cell[1] - P)
    BY <1>3, <1>6
  <2>2. PICK r \in 1 .. N : cell[1] = P + r
    BY <2>1
  <2>3. Lines[l][cell[1]] = <<<<"need", r - 1>>>>
    BY <1>3, <2>2, LinesAre
  <2>4. cell[2] = 1
    BY <1>1, <1>2, <2>3
  <2>5. QED
    BY <1>1, <1>2, <1>3, <2>2, <2>4
<1>7. CASE cell[1] \in P + N + 1 .. P + N + H
  <2>1. cell[1] - (P + N) \in 1 .. H /\ cell[1] = P + N + (cell[1] - (P + N))
    BY <1>3, <1>7
  <2>2. QED
    BY <1>1, <1>2, <1>3, <2>1
<1>8. QED
  BY <1>3, <1>4, <1>5, <1>6, <1>7

(* A pill is drawn once, the even ones on the left.                         *)
LEMMA PillCell ==
  ASSUME NEW l \in Layouts, NEW k \in 0 .. l.pills - 1
  PROVE  LET cell == <<(k \div 2) + 1, (k % 2) + 1>> IN
         /\ CellsOf(l, <<"pill", k>>) = {cell}
         /\ Lines[l][cell[1]] = PulseLine(l, cell[1])
<1> DEFINE r == (k \div 2) + 1
           side == (k % 2) + 1
           row == <<"pill", k>>
<1>1. PICK P \in Nat, m \in Nat : P = PulseHeight(l) /\ m = l.pills /\ m \in {2 * P, 2 * P - 1}
  BY SizesAre
<1>2. k \in Nat /\ k < m
  BY <1>1
<1>3. r \in 1 .. P /\ side \in {1, 2} /\ k = 2 * r - 3 + side
  BY <1>1, <1>2
<1> HIDE DEF r, side
<1>4. Lines[l][r] = PulseLine(l, r) /\ r \in DOMAIN Lines[l]
  <2>1. r \in 1 .. P + l.needs + HalfOf(l)
    BY <1>1, <1>3, SizesAre
  <2>2. QED
    BY <1>1, <1>3, <2>1, LinesAre
<1>5. PulseLine(l, r)[side] = row /\ side \in DOMAIN PulseLine(l, r)
  <2>1. CASE side = 1
    <3>1. 2 * r - 2 = k
      BY <1>2, <1>3, <2>1
    <3>2. QED
      BY <2>1, <3>1 DEF PulseLine
  <2>2. CASE side = 2
    <3>1. 2 * r - 1 = k /\ 2 * r - 1 < l.pills
      BY <1>1, <1>2, <1>3, <2>2
    <3>2. QED
      BY <2>2, <3>1 DEF PulseLine
  <2>3. QED
    BY <1>3, <2>1, <2>2
<1>6. <<r, side>> \in CellsOf(l, row)
  BY <1>3, <1>4, <1>5 DEF CellsOf
<1>7. ASSUME NEW cell \in CellsOf(l, row) PROVE cell = <<r, side>>
  <2>1. cell = <<cell[1], cell[2]>> /\ cell[2] \in {1, 2} /\ Lines[l][cell[1]][cell[2]] = row
    BY <1>7, CellCases
  <2>2. CASE \E s \in 1 .. PulseHeight(l) : cell[1] = s
    <3>1. PICK s \in 1 .. PulseHeight(l) : cell[1] = s
      BY <2>2
    <3>2. PulseLine(l, s)[cell[2]] = <<"pill", k>>
      BY <2>1, <3>1, LinesAre
    <3>3. s \in Nat /\ s \in 1 .. P
      BY <1>1
    <3>4. CASE cell[2] = 1
      <4>1. <<"pill", 2 * s - 2>> = <<"pill", k>>
        BY <3>2, <3>4 DEF PulseLine
      <4>2. 2 * s - 2 = k
        BY <4>1
      <4>3. side = 1 /\ r = s
        BY <1>2, <1>3, <3>3, <4>2
      <4>4. QED
        BY <2>1, <3>1, <3>4, <4>3
    <3>5. CASE cell[2] = 2
      <4>1. (IF 2 * s - 1 < l.pills THEN <<"pill", 2 * s - 1>> ELSE Blank) = <<"pill", k>>
        BY <3>2, <3>5 DEF PulseLine
      <4>2. Blank # <<"pill", k>>
        BY DEF Blank
      <4>3. <<"pill", 2 * s - 1>> = <<"pill", k>>
        BY <4>1, <4>2
      <4>4. 2 * s - 1 = k
        BY <4>3
      <4>5. side = 2 /\ r = s
        BY <1>2, <1>3, <3>3, <4>4
      <4>6. QED
        BY <2>1, <3>1, <3>5, <4>5
    <3>6. QED
      BY <2>1, <3>4, <3>5
  <2>3. CASE \E s \in 1 .. l.needs : cell[1] = PulseHeight(l) + s /\ cell[2] = 1
    <3>1. PICK s \in 1 .. l.needs : cell[1] = PulseHeight(l) + s /\ cell[2] = 1
      BY <2>3
    <3>2. <<"need", s - 1>> = <<"pill", k>>
      BY <2>1, <3>1, LinesAre
    <3>3. QED
      BY <3>2
  <2>4. CASE \E s \in 1 .. HalfOf(l) : cell[1] = PulseHeight(l) + l.needs + s
    <3>1. PICK s \in 1 .. HalfOf(l) : cell[1] = PulseHeight(l) + l.needs + s
      BY <2>4
    <3>2. ToolkitLine(l, s)[cell[2]] = <<"pill", k>>
      BY <2>1, <3>1, LinesAre
    <3>3. ToolkitLine(l, s)[1] = <<"shelf", ShelfLetters(l)[s]>>
      BY DEF ToolkitLine
    <3>4. ToolkitLine(l, s)[2] \in {Blank, <<"shelf", ShelfLetters(l)[HalfOf(l) + s]>>}
      BY DEF ToolkitLine
    <3>5. /\ <<"shelf", ShelfLetters(l)[s]>> # <<"pill", k>> /\ Blank # <<"pill", k>>
          /\ <<"shelf", ShelfLetters(l)[HalfOf(l) + s]>> # <<"pill", k>>
      BY DEF Blank
    <3>6. QED
      BY <2>1, <3>2, <3>3, <3>4, <3>5
  <2>5. QED
    BY <1>7, <2>2, <2>3, <2>4, CellCases
<1>8. QED
  BY <1>4, <1>6, <1>7 DEF r, side


(* A need is drawn once, alone on its line.                                 *)
LEMMA NeedCell ==
  ASSUME NEW l \in Layouts, NEW k \in 0 .. l.needs - 1
  PROVE  /\ CellsOf(l, <<"need", k>>) = {<<PulseHeight(l) + k + 1, 1>>}
         /\ Lines[l][PulseHeight(l) + k + 1] = <<<<"need", k>>>>
<1> DEFINE row == <<"need", k>>
<1>1. PICK P \in Nat, N \in Nat, H \in Nat : P = PulseHeight(l) /\ N = l.needs /\ H = HalfOf(l)
  BY SizesAre
<1>2. k \in Nat /\ k + 1 \in 1 .. N /\ (k + 1) - 1 = k /\ P + (k + 1) = P + k + 1
  BY <1>1
<1>3. Lines[l][P + k + 1] = <<row>>
  BY <1>1, <1>2, LinesAre
<1>4. P + k + 1 \in DOMAIN Lines[l]
  <2>1. P + k + 1 \in 1 .. P + N + H
    BY <1>1, <1>2
  <2>2. QED
    BY <1>1, <2>1, LinesAre
<1>5. <<P + k + 1, 1>> \in CellsOf(l, row)
  BY <1>3, <1>4 DEF CellsOf
<1>6. ASSUME NEW cell \in CellsOf(l, row) PROVE cell = <<P + k + 1, 1>>
  <2>1. cell = <<cell[1], cell[2]>> /\ cell[2] \in {1, 2} /\ Lines[l][cell[1]][cell[2]] = row
    BY <1>6, CellCases
  <2>2. CASE \E s \in 1 .. PulseHeight(l) : cell[1] = s
    <3>1. PICK s \in 1 .. PulseHeight(l) : cell[1] = s
      BY <2>2
    <3>2. PulseLine(l, s)[cell[2]] = row
      BY <2>1, <3>1, LinesAre
    <3>3. PulseLine(l, s)[1] = <<"pill", 2 * s - 2>>
      BY DEF PulseLine
    <3>4. PulseLine(l, s)[2] \in {Blank, <<"pill", 2 * s - 1>>}
      BY DEF PulseLine
    <3>5. <<"pill", 2 * s - 2>> # row /\ Blank # row /\ <<"pill", 2 * s - 1>> # row
      BY DEF Blank
    <3>6. QED
      BY <2>1, <3>2, <3>3, <3>4, <3>5
  <2>3. CASE \E s \in 1 .. l.needs : cell[1] = PulseHeight(l) + s /\ cell[2] = 1
    <3>1. PICK s \in 1 .. l.needs : cell[1] = PulseHeight(l) + s /\ cell[2] = 1
      BY <2>3
    <3>2. <<"need", s - 1>> = row
      BY <2>1, <3>1, LinesAre
    <3>3. s - 1 = k
      BY <3>2
    <3>4. cell[1] = P + k + 1
      BY <1>1, <1>2, <3>1, <3>3
    <3>5. QED
      BY <2>1, <3>1, <3>4
  <2>4. CASE \E s \in 1 .. HalfOf(l) : cell[1] = PulseHeight(l) + l.needs + s
    <3>1. PICK s \in 1 .. HalfOf(l) : cell[1] = PulseHeight(l) + l.needs + s
      BY <2>4
    <3>2. ToolkitLine(l, s)[cell[2]] = row
      BY <2>1, <3>1, LinesAre
    <3>3. ToolkitLine(l, s)[1] = <<"shelf", ShelfLetters(l)[s]>>
      BY DEF ToolkitLine
    <3>4. ToolkitLine(l, s)[2] \in {Blank, <<"shelf", ShelfLetters(l)[HalfOf(l) + s]>>}
      BY DEF ToolkitLine
    <3>5. /\ <<"shelf", ShelfLetters(l)[s]>> # row /\ Blank # row
          /\ <<"shelf", ShelfLetters(l)[HalfOf(l) + s]>> # row
      BY DEF Blank
    <3>6. QED
      BY <2>1, <3>2, <3>3, <3>4, <3>5
  <2>5. QED
    BY <1>6, <2>2, <2>3, <2>4, CellCases
<1>7. QED
  BY <1>1, <1>3, <1>5, <1>6

(* The shelves stand in two columns, the first half of them on the left.    *)
ShelfCellOf(l, j) ==
  IF j <= HalfOf(l) THEN <<PulseHeight(l) + l.needs + j, 1>>
  ELSE <<PulseHeight(l) + l.needs + (j - HalfOf(l)), 2>>

(* A shelf is drawn once.                                                   *)
LEMMA ShelfCell ==
  ASSUME NEW l \in Layouts, NEW j \in 1 .. Len(ShelfLetters(l))
  PROVE  /\ CellsOf(l, <<"shelf", ShelfLetters(l)[j]>>) = {ShelfCellOf(l, j)}
         /\ j <= HalfOf(l) => Lines[l][ShelfCellOf(l, j)[1]] = ToolkitLine(l, j)
         /\ j > HalfOf(l) => Lines[l][ShelfCellOf(l, j)[1]] = ToolkitLine(l, j - HalfOf(l))
<1> DEFINE letters == ShelfLetters(l)
           row == <<"shelf", letters[j]>>
           base == PulseHeight(l) + l.needs
           side == IF j <= HalfOf(l) THEN 1 ELSE 2
           r == IF j <= HalfOf(l) THEN j ELSE j - HalfOf(l)
<1>1. PICK P \in Nat, N \in Nat, H \in Nat \ {0}, n \in Nat \ {0} :
             P = PulseHeight(l) /\ N = l.needs /\ H = HalfOf(l) /\ n = Len(letters) /\ n \in {2 * H, 2 * H - 1}
  BY SizesAre
<1>2. /\ j \in 1 .. n /\ DOMAIN letters = 1 .. n
      /\ \A i \in 1 .. n : letters[i] = letters[j] => i = j
  BY <1>1, LettersAre DEF Distinct
<1>3. base \in Nat /\ base = P + N
  BY <1>1
<1>4. r \in 1 .. H /\ side \in {1, 2} /\ j = (IF side = 1 THEN r ELSE H + r)
  BY <1>1, <1>2
<1>5. ShelfCellOf(l, j) = <<base + r, side>>
  BY DEF ShelfCellOf
<1>6. r = (IF j <= H THEN j ELSE j - H) /\ side = (IF j <= H THEN 1 ELSE 2)
  BY <1>1
<1> HIDE DEF r, side
<1>7. Lines[l][base + r] = ToolkitLine(l, r)
  BY <1>1, <1>4, LinesAre
<1>8. base + r \in DOMAIN Lines[l]
  <2>1. base + r \in 1 .. P + N + H
    BY <1>1, <1>3, <1>4
  <2>2. QED
    BY <1>1, <2>1, LinesAre
<1> HIDE DEF base
<1>9. /\ ToolkitLine(l, r)[1] = <<"shelf", letters[r]>>
      /\ ToolkitLine(l, r)[2] = IF H + r <= n THEN <<"shelf", letters[H + r]>> ELSE Blank
      /\ DOMAIN ToolkitLine(l, r) = {1, 2}
  <2>1. \A x, y : <<x, y>>[1] = x /\ <<x, y>>[2] = y /\ DOMAIN <<x, y>> = {1, 2}
    OBVIOUS
  <2>2. QED
    BY <1>1, <2>1 DEF ToolkitLine
<1>10. ToolkitLine(l, r)[side] = row
  <2>1. CASE side = 1
    BY <1>4, <1>9, <2>1
  <2>2. CASE side = 2
    <3>1. H + r <= n /\ H + r = j
      BY <1>2, <1>4, <2>2
    <3>2. QED
      BY <1>9, <2>2, <3>1
  <2>3. QED
    BY <1>4, <2>1, <2>2
<1>11. <<base + r, side>> \in CellsOf(l, row)
  <2> HIDE DEF row
  <2> QED BY <1>4, <1>7, <1>8, <1>9, <1>10 DEF CellsOf
<1>12. ASSUME NEW cell \in CellsOf(l, row) PROVE cell = <<base + r, side>>
  <2>1. cell = <<cell[1], cell[2]>> /\ cell[2] \in {1, 2} /\ Lines[l][cell[1]][cell[2]] = row
    BY <1>12, CellCases
  <2>2. CASE \E s \in 1 .. PulseHeight(l) : cell[1] = s
    <3>1. PICK s \in 1 .. PulseHeight(l) : cell[1] = s
      BY <2>2
    <3>2. PulseLine(l, s)[cell[2]] = row
      BY <2>1, <3>1, LinesAre
    <3>3. PulseLine(l, s)[1] = <<"pill", 2 * s - 2>>
      BY DEF PulseLine
    <3>4. PulseLine(l, s)[2] \in {Blank, <<"pill", 2 * s - 1>>}
      BY DEF PulseLine
    <3>5. <<"pill", 2 * s - 2>> # row /\ Blank # row /\ <<"pill", 2 * s - 1>> # row
      BY DEF Blank
    <3>6. QED
      BY <2>1, <3>2, <3>3, <3>4, <3>5
  <2>3. CASE \E s \in 1 .. l.needs : cell[1] = PulseHeight(l) + s /\ cell[2] = 1
    <3>1. PICK s \in 1 .. l.needs : cell[1] = PulseHeight(l) + s /\ cell[2] = 1
      BY <2>3
    <3>2. <<"need", s - 1>> = row
      BY <2>1, <3>1, LinesAre
    <3>3. QED
      BY <3>2
  <2>4. CASE \E s \in 1 .. HalfOf(l) : cell[1] = PulseHeight(l) + l.needs + s
    <3>1. PICK s \in 1 .. H : cell[1] = base + s
      BY <1>1, <2>4 DEF base
    <3>2. ToolkitLine(l, s)[cell[2]] = row
      BY <1>1, <2>1, <3>1, LinesAre DEF base
    <3>3. /\ ToolkitLine(l, s)[1] = <<"shelf", letters[s]>>
          /\ ToolkitLine(l, s)[2] = IF H + s <= n THEN <<"shelf", letters[H + s]>> ELSE Blank
      <4>1. \A x, y : <<x, y>>[1] = x /\ <<x, y>>[2] = y
        OBVIOUS
      <4>2. QED
        BY <1>1, <4>1 DEF ToolkitLine
    <3>4. CASE cell[2] = 1
      <4>1. <<"shelf", letters[s]>> = <<"shelf", letters[j]>>
        BY <3>2, <3>3, <3>4
      <4>2. letters[s] = letters[j]
        BY ONLY <4>1, PairsEqual
      <4>3. s \in 1 .. n
        BY <1>1, <3>1
      <4>4. s = j
        BY <1>2, <4>2, <4>3
      <4>5. side = 1 /\ r = s
        BY <1>1, <1>2, <1>6, <3>1, <4>4
      <4>6. QED
        BY <2>1, <3>1, <3>4, <4>5
    <3>5. CASE cell[2] = 2
      <4>1. Blank # row
        BY DEF Blank
      <4>2. H + s <= n /\ <<"shelf", letters[H + s]>> = <<"shelf", letters[j]>>
        BY <3>2, <3>3, <3>5, <4>1
      <4>3. letters[H + s] = letters[j]
        BY ONLY <4>2, PairsEqual
      <4>4. H + s \in 1 .. n
        BY <1>1, <3>1, <4>2
      <4>5. H + s = j
        BY <1>2, <4>3, <4>4
      <4>6. side = 2 /\ r = s
        BY <1>1, <1>2, <1>6, <3>1, <4>5
      <4>7. QED
        BY <2>1, <3>1, <3>5, <4>6
    <3>6. QED
      BY <2>1, <3>4, <3>5
  <2>5. QED
    BY <1>12, <2>2, <2>3, <2>4, CellCases
<1>13. CellsOf(l, row) = {<<base + r, side>>}
  BY <1>11, <1>12
<1>14. ShelfCellOf(l, j)[1] = base + r
  BY <1>5
<1>15. CellsOf(l, <<"shelf", ShelfLetters(l)[j]>>) = {ShelfCellOf(l, j)}
  BY <1>5, <1>13
<1>16. Lines[l][ShelfCellOf(l, j)[1]] = ToolkitLine(l, r)
  BY <1>7, <1>14
<1>17. /\ j <= HalfOf(l) => r = j
       /\ j > HalfOf(l) => r = j - HalfOf(l)
  BY <1>1, <1>2, <1>6
<1>18. QED
  BY ONLY <1>15, <1>16, <1>17

(* A row of the worker is not drawn here.                                   *)
LEMMA NoCell ==
  ASSUME NEW l \in Layouts, NEW row, row[1] \notin {"pill", "need", "shelf", "blank"}
  PROVE  CellsOf(l, row) = {}
<1>1. SUFFICES ASSUME NEW cell \in CellsOf(l, row) PROVE FALSE
  OBVIOUS
<1>2. cell[2] \in {1, 2} /\ Lines[l][cell[1]][cell[2]] = row
  BY CellCases
<1>3. \A x : <<"pill", x>> # row /\ <<"need", x>> # row /\ <<"shelf", x>> # row /\ <<"blank", x>> # row
  OBVIOUS
<1>4. CASE \E s \in 1 .. PulseHeight(l) : cell[1] = s
  <2>1. PICK s \in 1 .. PulseHeight(l) : PulseLine(l, s)[cell[2]] = row
    BY <1>2, <1>4, LinesAre
  <2>2. PulseLine(l, s)[1] = <<"pill", 2 * s - 2>>
    BY DEF PulseLine
  <2>3. PulseLine(l, s)[2] \in {<<"blank", "">>, <<"pill", 2 * s - 1>>}
    BY DEF PulseLine, Blank
  <2>4. QED
    BY <1>2, <1>3, <2>1, <2>2, <2>3
<1>5. CASE \E s \in 1 .. l.needs : cell[1] = PulseHeight(l) + s /\ cell[2] = 1
  <2>1. PICK s \in 1 .. l.needs : <<<<"need", s - 1>>>>[1] = row
    BY <1>2, <1>5, LinesAre
  <2>2. QED
    BY <1>3, <2>1
<1>6. CASE \E s \in 1 .. HalfOf(l) : cell[1] = PulseHeight(l) + l.needs + s
  <2>1. PICK s \in 1 .. HalfOf(l) : ToolkitLine(l, s)[cell[2]] = row
    BY <1>2, <1>6, LinesAre
  <2>2. ToolkitLine(l, s)[1] = <<"shelf", ShelfLetters(l)[s]>>
    BY DEF ToolkitLine
  <2>3. ToolkitLine(l, s)[2] \in {<<"blank", "">>, <<"shelf", ShelfLetters(l)[HalfOf(l) + s]>>}
    BY DEF ToolkitLine, Blank
  <2>4. QED
    BY <1>2, <1>3, <2>1, <2>2, <2>3
<1>7. QED
  BY <1>4, <1>5, <1>6, CellCases


(* The number of a row there is.                                            *)
LEMMA FoundRow ==
  ASSUME NEW l \in Layouts, NEW row, IsRow(l, row)
  PROVE  IndexOf(l, row) \in 0 .. RowCount(l) - 1 /\ RowAt(l, IndexOf(l, row)) = row
<1> DEFINE i == CHOOSE j \in DOMAIN Selectables[l] : Selectables[l][j] = row
<1>1. \E j \in DOMAIN Selectables[l] : Selectables[l][j] = row
  BY RowsAre DEF Within
<1>2. i \in DOMAIN Selectables[l] /\ Selectables[l][i] = row
  BY <1>1
<1>3. IndexOf(l, row) = i - 1
  BY DEF IndexOf
<1> HIDE DEF i
<1>4. i \in 1 .. RowCount(l) /\ RowCount(l) \in Nat \ {0}
  BY <1>2, RowsAre
<1>5. i - 1 \in 0 .. RowCount(l) - 1 /\ (i - 1) + 1 = i
  BY <1>4
<1>6. QED
  BY <1>2, <1>3, <1>5 DEF RowAt

(* Every number there is has a row.                                         *)
LEMMA NumberHasRow ==
  ASSUME NEW l \in Layouts, NEW n \in 0 .. RowCount(l) - 1
  PROVE  IsRow(l, RowAt(l, n))
<1>1. n + 1 \in DOMAIN Selectables[l]
  BY RowsAre
<1>2. QED
  BY <1>1, RowsAre DEF RowAt, Within

(* What is drawn beside a row.                                              *)
Beside(l, row, right) ==
  {Lines[l][cell[1]][3 - cell[2]] :
     cell \in {c \in CellsOf(l, row) : c[2] = (IF right THEN 1 ELSE 2) /\ Len(Lines[l][c[1]]) = 2}}

(* Beside a cell of the other side, or alone on its line, is nothing.       *)
LEMMA BesideNothing ==
  ASSUME NEW l, NEW row, NEW right,
         \A c \in CellsOf(l, row) : c[2] # (IF right THEN 1 ELSE 2) \/ Len(Lines[l][c[1]]) # 2
  PROVE  Beside(l, row, right) = {}
  BY DEF Beside

(* Beside the cell of a line of two is the other one.                       *)
LEMMA BesideOne ==
  ASSUME NEW l, NEW row, NEW right \in BOOLEAN, NEW r, NEW side \in {1, 2}, NEW x, NEW y,
         CellsOf(l, row) = {<<r, side>>}, Lines[l][r] = <<x, y>>
  PROVE  Beside(l, row, right) =
           IF right THEN (IF side = 1 THEN {y} ELSE {}) ELSE (IF side = 2 THEN {x} ELSE {})
<1>1. Len(Lines[l][r]) = 2
  <2>1. Len(<<x, y>>) = 2
    OBVIOUS
  <2>2. QED
    BY <2>1
<1>2. \A a, b : <<a, b>>[1] = a /\ <<a, b>>[2] = b
  OBVIOUS
<1>3. CASE right /\ side = 1
  <2>1. {c \in CellsOf(l, row) : c[2] = (IF right THEN 1 ELSE 2) /\ Len(Lines[l][c[1]]) = 2} = {<<r, 1>>}
    BY <1>1, <1>2, <1>3
  <2>2. Lines[l][<<r, 1>>[1]][3 - <<r, 1>>[2]] = y
    BY <1>2
  <2>3. QED
    BY <1>3, <2>1, <2>2 DEF Beside
<1>4. CASE ~right /\ side = 2
  <2>1. {c \in CellsOf(l, row) : c[2] = (IF right THEN 1 ELSE 2) /\ Len(Lines[l][c[1]]) = 2} = {<<r, 2>>}
    BY <1>1, <1>2, <1>4
  <2>2. Lines[l][<<r, 2>>[1]][3 - <<r, 2>>[2]] = x
    BY <1>2
  <2>3. QED
    BY <1>4, <2>1, <2>2 DEF Beside
<1>5. CASE right <=> side = 2
  <2>1. \A c \in CellsOf(l, row) : c[2] = side
    BY <1>2
  <2>2. side # (IF right THEN 1 ELSE 2)
    BY <1>5
  <2>3. QED
    BY <1>5, <2>1, <2>2, BesideNothing
<1>6. QED
  BY <1>3, <1>4, <1>5

(* Where left and right go.                                                 *)
GoesBeside(l, n, right) ==
  /\ MoveHorizontal(l, n, right) \in 0 .. RowCount(l) - 1
  /\ RowAt(l, MoveHorizontal(l, n, right)) =
       IF Beside(l, RowAt(l, n), right) \subseteq {Blank} THEN RowAt(l, n)
       ELSE CHOOSE row \in Beside(l, RowAt(l, n), right) : TRUE

(* Nowhere, when nothing is drawn beside it.                                *)
LEMMA Stays ==
  ASSUME NEW l, NEW n \in 0 .. RowCount(l) - 1, NEW right,
         MoveHorizontal(l, n, right) = n, Beside(l, RowAt(l, n), right) \subseteq {Blank}
  PROVE  GoesBeside(l, n, right)
  BY DEF GoesBeside

(* To the one row there is beside it.                                       *)
LEMMA GoesTo ==
  ASSUME NEW l \in Layouts, NEW n, NEW right, NEW row, IsRow(l, row), row # Blank,
         MoveHorizontal(l, n, right) = IndexOf(l, row), Beside(l, RowAt(l, n), right) = {row}
  PROVE  GoesBeside(l, n, right)
<1>1. IndexOf(l, row) \in 0 .. RowCount(l) - 1 /\ RowAt(l, IndexOf(l, row)) = row
  BY FoundRow
<1>2. ~({row} \subseteq {Blank}) /\ (CHOOSE x \in {row} : TRUE) = row
  OBVIOUS
<1>3. QED
  BY <1>1, <1>2 DEF GoesBeside

(* From a pill, within its line.                                            *)
LEMMA PillGoes ==
  ASSUME NEW l \in Layouts, NEW n \in 0 .. RowCount(l) - 1, NEW right \in BOOLEAN,
         NEW k \in 0 .. l.pills - 1, RowAt(l, n) = <<"pill", k>>
  PROVE  GoesBeside(l, n, right)
<1> DEFINE r == (k \div 2) + 1
           side == (k % 2) + 1
<1>1. l.pills \in Nat /\ k \in Nat
  BY CursorAssumption
<1>2. /\ side \in {1, 2} /\ (side = 1 <=> k % 2 = 0) /\ (side = 2 <=> k % 2 = 1)
      /\ side = 1 => 2 * r - 2 = k
      /\ side = 2 => 2 * r - 2 = k - 1
      /\ 2 * r - 1 = (2 * r - 2) + 1
  BY <1>1
<1>3. CellsOf(l, <<"pill", k>>) = {<<r, side>>} /\ Lines[l][r] = PulseLine(l, r)
  BY PillCell
<1>4. MoveHorizontal(l, n, right) =
        IF right /\ k % 2 = 0 /\ k + 1 < l.pills THEN IndexOf(l, <<"pill", k + 1>>)
        ELSE IF ~right /\ k % 2 = 1 THEN IndexOf(l, <<"pill", k - 1>>) ELSE n
  BY DEF MoveHorizontal
<1> HIDE DEF r, side
<1>5. \A m : Blank # <<"pill", m>>
  BY DEF Blank
<1>6. CASE side = 1
  <2>1. PulseLine(l, r) = <<<<"pill", k>>, IF k + 1 < l.pills THEN <<"pill", k + 1>> ELSE Blank>>
    <3>1. 2 * r - 2 = k /\ 2 * r - 1 = k + 1
      BY <1>2, <1>6
    <3>2. QED
      BY <3>1 DEF PulseLine
  <2>2. CASE right /\ k + 1 < l.pills
    <3>1. Beside(l, <<"pill", k>>, right) = {<<"pill", k + 1>>}
      <4>1. PICK here, next : here = <<"pill", k>> /\ next = <<"pill", k + 1>>
        OBVIOUS
      <4>2. Lines[l][r] = <<here, next>> /\ CellsOf(l, here) = {<<r, 1>>}
        BY <1>3, <1>6, <2>1, <2>2, <4>1
      <4>3. Beside(l, here, right) = {next}
        <5>1. Beside(l, here, right) = IF right THEN {next} ELSE {}
          BY <4>2, BesideOne
        <5>2. QED
          BY <2>2, <5>1
      <4>4. QED
        BY <4>1, <4>3
    <3>2. k + 1 \in 0 .. l.pills - 1
      BY <1>1, <2>2
    <3>3. IsRow(l, <<"pill", k + 1>>)
      BY <3>2 DEF IsRow
    <3>4. MoveHorizontal(l, n, right) = IndexOf(l, <<"pill", k + 1>>)
      BY <1>2, <1>4, <1>6, <2>2
    <3>5. QED
      BY <1>5, <3>1, <3>3, <3>4, GoesTo
  <2>3. CASE ~(right /\ k + 1 < l.pills)
    <3>1. Beside(l, <<"pill", k>>, right) \subseteq {Blank}
      BY <1>2, <1>3, <1>6, <2>1, <2>3, BesideOne
    <3>2. MoveHorizontal(l, n, right) = n
      BY <1>2, <1>4, <1>6, <2>3
    <3>3. QED
      BY <3>1, <3>2, Stays
  <2>4. QED
    BY <2>2, <2>3
<1>7. CASE side = 2
  <2>1. 2 * r - 2 = k - 1
    BY <1>2, <1>7
  <2>2. PICK y : PulseLine(l, r) = <<<<"pill", k - 1>>, y>>
    BY <2>1 DEF PulseLine
  <2>3. CASE ~right
    <3>1. Beside(l, <<"pill", k>>, right) = {<<"pill", k - 1>>}
      BY <1>2, <1>3, <1>7, <2>2, <2>3, BesideOne
    <3>2. k - 1 \in 0 .. l.pills - 1
      BY <1>1, <1>2, <1>7
    <3>3. IsRow(l, <<"pill", k - 1>>)
      BY <3>2 DEF IsRow
    <3>4. MoveHorizontal(l, n, right) = IndexOf(l, <<"pill", k - 1>>)
      BY <1>2, <1>4, <1>7, <2>3
    <3>5. QED
      BY <1>5, <3>1, <3>3, <3>4, GoesTo
  <2>4. CASE right
    <3>1. Beside(l, <<"pill", k>>, right) = {}
      <4>1. Lines[l][r] = <<<<"pill", k - 1>>, y>> /\ (right <=> side = 2)
        BY <1>3, <1>7, <2>2, <2>4
      <4>2. QED
        BY <1>2, <1>3, <4>1, BesideOne
    <3>2. MoveHorizontal(l, n, right) = n
      BY <1>2, <1>4, <1>7, <2>4
    <3>3. QED
      BY <3>1, <3>2, Stays
  <2>5. QED
    BY <2>3, <2>4
<1>8. QED
  BY <1>2, <1>6, <1>7


(* From a shelf, to the one across the middle.                              *)
LEMMA ShelfGoes ==
  ASSUME NEW l \in Layouts, NEW n \in 0 .. RowCount(l) - 1, NEW right \in BOOLEAN,
         NEW j \in DOMAIN ShelfLetters(l), RowAt(l, n) = <<"shelf", ShelfLetters(l)[j]>>
  PROVE  GoesBeside(l, n, right)
<1> DEFINE letters == ShelfLetters(l)
           row == <<"shelf", letters[j]>>
           base == PulseHeight(l) + l.needs
           to == IF right THEN j + HalfOf(l) ELSE j - HalfOf(l)
<1>1. PICK H \in Nat \ {0}, m \in Nat \ {0} :
             H = HalfOf(l) /\ m = Len(letters) /\ m \in {2 * H, 2 * H - 1}
  BY SizesAre
<1>2. /\ j \in 1 .. m /\ DOMAIN letters = 1 .. m
      /\ \A i \in 1 .. m : letters[i] = letters[j] => i = j
  BY <1>1, LettersAre DEF Distinct
<1>3. (CHOOSE i \in DOMAIN letters : letters[i] = letters[j]) = j
  BY <1>2
<1>4. MoveHorizontal(l, n, right) =
        IF (right <=> j <= H) /\ to \in DOMAIN letters THEN IndexOf(l, <<"shelf", letters[to]>>) ELSE n
  <2>1. row[1] = "shelf" /\ row[2] = letters[j]
    OBVIOUS
  <2>2. MoveHorizontal(l, n, right) =
          CASE (right <=> j <= H) /\ to \in DOMAIN letters -> IndexOf(l, <<"shelf", letters[to]>>)
            [] OTHER -> n
    BY <1>1, <1>3, <2>1 DEF MoveHorizontal, HalfOf
  <2>3. QED
    BY <2>2
<1>5. \A i : Blank # <<"shelf", i>>
  BY DEF Blank
<1>6. CellsOf(l, row) = {ShelfCellOf(l, j)}
  BY <1>1, <1>2, ShelfCell
<1>7. CASE j <= H
  <2>1. ShelfCellOf(l, j) = <<base + j, 1>> /\ ShelfCellOf(l, j)[1] = base + j
    BY <1>1, <1>7 DEF ShelfCellOf
  <2>2. Lines[l][base + j] = ToolkitLine(l, j)
    BY <1>1, <1>2, <1>7, <2>1, ShelfCell
  <2>3. PICK next : next = IF H + j <= m THEN <<"shelf", letters[H + j]>> ELSE Blank
    OBVIOUS
  <2>4. Lines[l][base + j] = <<row, next>>
    BY <1>1, <2>2, <2>3 DEF ToolkitLine
  <2>5. Beside(l, row, right) = IF right THEN {next} ELSE {}
    <3> HIDE DEF row, base
    <3> QED BY <1>6, <2>1, <2>4, BesideOne
  <2>6. CASE right /\ H + j <= m
    <3>1. to = H + j /\ to \in DOMAIN letters
      BY <1>1, <1>2, <2>6
    <3>2. next = <<"shelf", letters[to]>> /\ next # Blank /\ IsRow(l, next)
      BY <1>5, <2>3, <2>6, <3>1 DEF IsRow
    <3>3. MoveHorizontal(l, n, right) = IndexOf(l, next)
      BY <1>4, <1>7, <2>6, <3>1, <3>2
    <3>4. QED
      BY <2>5, <2>6, <3>2, <3>3, GoesTo
  <2>7. CASE ~(right /\ H + j <= m)
    <3>1. Beside(l, row, right) \subseteq {Blank}
      BY <2>3, <2>5, <2>7
    <3>2. ~((right <=> j <= H) /\ to \in DOMAIN letters)
      BY <1>1, <1>2, <1>7, <2>7
    <3>3. QED
      BY <1>4, <3>1, <3>2, Stays
  <2>8. QED
    BY <2>6, <2>7
<1>8. CASE j > H
  <2>1. ShelfCellOf(l, j) = <<base + (j - H), 2>> /\ ShelfCellOf(l, j)[1] = base + (j - H)
    BY <1>1, <1>2, <1>8 DEF ShelfCellOf
  <2>2. Lines[l][base + (j - H)] = ToolkitLine(l, j - H)
    BY <1>1, <1>2, <1>8, <2>1, ShelfCell
  <2>3. PICK across, y : across = <<"shelf", letters[j - H]>> /\ ToolkitLine(l, j - H) = <<across, y>>
    BY DEF ToolkitLine
  <2>4. Lines[l][base + (j - H)] = <<across, y>>
    BY <2>2, <2>3
  <2>5. Beside(l, row, right) = IF right THEN {} ELSE {across}
    <3> HIDE DEF row, base
    <3> QED BY <1>6, <2>1, <2>4, BesideOne
  <2>6. CASE ~right
    <3>1. to = j - H /\ to \in DOMAIN letters /\ (right <=> j <= H)
      BY <1>1, <1>2, <1>8, <2>6
    <3>2. across = <<"shelf", letters[to]>> /\ across # Blank /\ IsRow(l, across)
      BY <1>5, <2>3, <3>1 DEF IsRow
    <3>3. MoveHorizontal(l, n, right) = IndexOf(l, across)
      BY <1>4, <3>1, <3>2
    <3>4. QED
      BY <2>5, <2>6, <3>2, <3>3, GoesTo
  <2>7. CASE right
    <3>1. Beside(l, row, right) \subseteq {Blank}
      BY <2>5, <2>7
    <3>2. ~(right <=> j <= H)
      BY <1>1, <1>2, <1>8, <2>7
    <3>3. QED
      BY <1>4, <3>1, <3>2, Stays
  <2>8. QED
    BY <2>6, <2>7
<1>9. QED
  BY <1>1, <1>2, <1>7, <1>8

(* From any other row, nowhere.                                             *)
LEMMA OthersStay ==
  ASSUME NEW l \in Layouts, NEW n \in 0 .. RowCount(l) - 1, NEW right \in BOOLEAN,
         RowAt(l, n)[1] \notin {"pill", "shelf", "blank"}, IsRow(l, RowAt(l, n))
  PROVE  GoesBeside(l, n, right)
<1> DEFINE row == RowAt(l, n)
<1>1. MoveHorizontal(l, n, right) = n
  BY DEF MoveHorizontal
<1>2. Beside(l, row, right) = {}
  <2>1. CASE \E k \in 0 .. l.needs - 1 : row = <<"need", k>>
    <3>1. PICK k \in 0 .. l.needs - 1 : row = <<"need", k>>
      BY <2>1
    <3>2. /\ CellsOf(l, row) = {<<PulseHeight(l) + k + 1, 1>>}
          /\ Lines[l][PulseHeight(l) + k + 1] = <<<<"need", k>>>>
      BY <3>1, NeedCell
    <3>3. Len(<<<<"need", k>>>>) = 1
      OBVIOUS
    <3>4. \A c \in CellsOf(l, row) : Len(Lines[l][c[1]]) # 2
      BY <3>2, <3>3
    <3>5. QED
      BY <3>4, BesideNothing
  <2>2. CASE row[1] \notin {"pill", "need", "shelf", "blank"}
    BY <2>2, NoCell, BesideNothing
  <2>3. CASE row[1] = "need" /\ ~\E k \in 0 .. l.needs - 1 : row = <<"need", k>>
    <3>1. Within(row, l.extras)
      <4>1. \A x : <<"pill", x>>[1] = "pill" /\ <<"shelf", x>>[1] = "shelf"
        OBVIOUS
      <4>2. QED
        BY <2>3, <4>1 DEF IsRow
    <3>2. QED
      BY <2>3, <3>1, CursorAssumption DEF Within
  <2>4. QED
    BY <2>1, <2>2, <2>3
<1>3. QED
  BY <1>1, <1>2, Stays

(* Left and right go to what is drawn beside the cursor, from every row.    *)
LEMMA AlwaysGoesBeside ==
  ASSUME NEW l \in Layouts, NEW n \in 0 .. RowCount(l) - 1, NEW right \in BOOLEAN
  PROVE  GoesBeside(l, n, right)
<1> DEFINE row == RowAt(l, n)
<1>1. IsRow(l, row)
  BY NumberHasRow
<1>2. CASE \E k \in 0 .. l.pills - 1 : row = <<"pill", k>>
  BY <1>2, PillGoes
<1>3. CASE \E j \in DOMAIN ShelfLetters(l) : row = <<"shelf", ShelfLetters(l)[j]>>
  BY <1>3, ShelfGoes
<1>4. CASE \E k \in 0 .. l.needs - 1 : row = <<"need", k>>
  <2>1. row[1] = "need"
    BY <1>4
  <2>2. QED
    BY <1>1, <2>1, OthersStay
<1>5. CASE Within(row, l.extras)
  <2>1. row[1] \notin {"pill", "need", "shelf", "blank"}
    BY <1>5, CursorAssumption DEF Within
  <2>2. QED
    BY <1>1, <2>1, OthersStay
<1>6. QED
  BY <1>1, <1>2, <1>3, <1>4, <1>5 DEF IsRow

(* A pill, a need and a shelf are drawn once, and in the agent's model.     *)
LEMMA DrawnOnce ==
  ASSUME NEW l \in Layouts, NEW row, IsRow(l, row), row[1] \in {"pill", "need", "shelf"}
  PROVE  Cardinality(CellsOf(l, row)) = 1 /\ Within(row, ModelRows(l))
<1>1. ~Within(row, l.extras)
  BY CursorAssumption DEF Within
<1>2. \E cell : CellsOf(l, row) = {cell}
  <2>1. CASE \E k \in 0 .. l.pills - 1 : row = <<"pill", k>>
    <3>1. PICK k \in 0 .. l.pills - 1 : row = <<"pill", k>>
      BY <2>1
    <3>2. QED
      BY <3>1, PillCell
  <2>2. CASE \E k \in 0 .. l.needs - 1 : row = <<"need", k>>
    <3>1. PICK k \in 0 .. l.needs - 1 : row = <<"need", k>>
      BY <2>2
    <3>2. QED
      BY <3>1, NeedCell
  <2>3. CASE \E j \in DOMAIN ShelfLetters(l) : row = <<"shelf", ShelfLetters(l)[j]>>
    <3>1. PICK j \in 1 .. Len(ShelfLetters(l)) : row = <<"shelf", ShelfLetters(l)[j]>>
      BY <2>3, LettersAre
    <3>2. QED
      BY <3>1, ShelfCell
  <2>4. QED
    BY <1>1, <2>1, <2>2, <2>3 DEF IsRow
<1>3. Cardinality(CellsOf(l, row)) = 1
  BY <1>2, FS_Singleton
<1>4. Within(row, ModelRows(l))
  <2> DEFINE p == Numbered("pill", l.pills)
             n == Numbered("need", l.needs)
             t == Lettered(ShelfLetters(l))
  <2>1. l.pills \in Nat /\ l.needs \in Nat /\ IsASequence(p) /\ IsASequence(n) /\ IsASequence(t)
    BY CursorAssumption, NumberedIs, LetteredIs, LettersAre
  <2>2. Within(row, p) \/ Within(row, n) \/ Within(row, t)
    BY <1>1, <2>1, NumberedHas, LetteredHas, LettersAre DEF IsRow
  <2>3. ModelRows(l) = (p \o n) \o t
    BY DEF ModelRows
  <2> HIDE DEF p, n, t
  <2>4. IsASequence(p \o n)
    BY <2>1, Joined
  <2>5. Within(row, p \o n) <=> Within(row, p) \/ Within(row, n)
    BY <2>1, JoinedHas
  <2>6. Within(row, (p \o n) \o t) <=> Within(row, p \o n) \/ Within(row, t)
    BY <2>1, <2>4, JoinedHas
  <2>7. QED
    BY <2>2, <2>3, <2>5, <2>6
<1>5. QED
  BY <1>3, <1>4


----------------------------------------------------------------------------
(* The cursor's state.  A menu is of a letter there is, so that it has rows; *)
(* the stack holds the frame of the view that is open, so that Pop has one. *)

(* A menu is of a letter there is, and has rows for the cursor, as has the  *)
(* filter.                                                                  *)
IsLetter(x) == \E letters \in Rosters : \E i \in DOMAIN letters : letters[i] = x

RowsFit ==
  /\ layout \in Layouts /\ catalog \in Catalogs /\ selected \in 0 .. RowCount(layout) - 1
PickFits ==
  /\ pick \in Nat /\ matches \in Nat
  /\ shelf # NoShelf => IsLetter(shelf)
  /\ view = "menu" => IsLetter(shelf) /\ pick <= Len(catalog[shelf])
  /\ view = "filter" /\ matches > 0 => pick < matches

(* Together they are inductive.                                             *)
CursorInv == RowsFit /\ PickFits /\ OneFramePerView

(* What a letter holds is a sequence.                                       *)
LEMMA ShelfHolds ==
  ASSUME NEW c \in Catalogs, NEW x, IsLetter(x)
  PROVE  Len(c[x]) \in Nat /\ DOMAIN c[x] = 1 .. Len(c[x])
<1>1. PICK letters \in Rosters : \E i \in DOMAIN letters : letters[i] = x
  BY DEF IsLetter
<1>2. IsASequence(c[x])
  BY <1>1, CursorAssumption
<1>3. QED
  BY <1>2, IsIndexed

(* A number modulo the rows is one of them.                                 *)
LEMMA Wraps == ASSUME NEW n \in Nat \ {0}, NEW x \in Nat PROVE x % n \in 0 .. n - 1
  OBVIOUS

(* Whatever a capture finds, the cursor is on one of its rows.              *)
LEMMA SwapFits == ASSUME RowsFit, Swapped PROVE layout' \in Layouts /\ selected' \in 0 .. RowCount(layout') - 1
<1>1. selected \in Nat
  BY RowsAre DEF RowsFit
<1>2. layout' \in Layouts /\ selected' = selected % RowCount(layout')
  BY DEF Swapped
<1>3. RowCount(layout') \in Nat \ {0}
  BY <1>2, RowsAre
<1>4. QED
  BY <1>1, <1>2, <1>3, Wraps

(* The first cursor is on a row.                                            *)
LEMMA DefaultFits == ASSUME NEW l \in Layouts PROVE DefaultSel(l) \in 0 .. RowCount(l) - 1
<1>1. /\ l.pills \in Nat /\ l.needs \in Nat /\ RowCount(l) \in Nat \ {0}
      /\ l.pills + l.needs < RowCount(l)
  BY RowsAre, CursorAssumption
<1>2. QED
  BY <1>1 DEF DefaultSel

(* The stack, when a view is opened and when it returns.                    *)
LEMMA PushOne == ASSUME back = <<>>, Push PROVE back' = <<selected>>
  BY DEF Push

(* The frame of the view is the one popped.                                 *)
LEMMA PopOne == ASSUME back = <<selected>>, Pop PROVE back' = <<>>
<1>1. SubSeq(<<selected>>, 1, Len(<<selected>>) - 1) = <<>>
  BY SubSeqProperties
<1>2. QED
  BY <1>1 DEF Pop

(* At first the cursor is on the first need, or on the first row.           *)
LEMMA CursorStarts == CursorInit => CursorInv
<1> SUFFICES ASSUME CursorInit PROVE CursorInv
  OBVIOUS
<1>1. RowsFit
  BY DefaultFits DEF CursorInit, RowsFit
<1>2. PickFits /\ OneFramePerView
  BY DEF CursorInit, PickFits, OneFramePerView
<1>3. QED
  BY <1>1, <1>2 DEF CursorInv

(* On Home a capture lands, or the cursor moves.                            *)
LEMMA HomeKeeps ==
  ASSUME CursorInv, CaptureLands \/ MoveVertical \/ MoveSideways PROVE CursorInv'
<1>1. /\ view = "home" /\ view' = "home" /\ catalog' = catalog /\ back' = back /\ shelf' = shelf
      /\ pick' = pick /\ matches' = matches /\ layout' \in Layouts
  BY DEF CursorInv, RowsFit, CaptureLands, Swapped, MoveVertical, MoveSideways
<1>2. selected' \in 0 .. RowCount(layout') - 1
  <2>1. CASE CaptureLands
    BY <2>1, SwapFits DEF CursorInv, CaptureLands
  <2>2. CASE MoveVertical
    <3>1. PICK n \in Nat \ {0} : n = RowCount(layout)
      BY RowsAre DEF CursorInv, RowsFit
    <3>2. selected \in Nat /\ selected + 1 \in Nat /\ selected + n - 1 \in Nat /\ layout' = layout
      BY <2>2, <3>1 DEF CursorInv, RowsFit, MoveVertical
    <3>3. selected' \in {(selected + 1) % n, (selected + n - 1) % n}
      BY <2>2, <3>1 DEF MoveVertical
    <3>4. (selected + 1) % n \in 0 .. n - 1 /\ (selected + n - 1) % n \in 0 .. n - 1
      BY <3>2, Wraps
    <3>5. QED
      BY <3>1, <3>2, <3>3, <3>4
  <2>3. CASE MoveSideways
    <3>1. PICK right \in BOOLEAN : selected' = MoveHorizontal(layout, selected, right) /\ layout' = layout
      BY <2>3 DEF MoveSideways
    <3>2. GoesBeside(layout, selected, right)
      BY AlwaysGoesBeside DEF CursorInv, RowsFit
    <3>3. QED
      BY <3>1, <3>2 DEF GoesBeside
  <2>4. QED
    BY <2>1, <2>2, <2>3
<1>3. RowsFit'
  BY <1>1, <1>2 DEF CursorInv, RowsFit
<1>4. PickFits' /\ OneFramePerView'
  BY <1>1 DEF CursorInv, PickFits, OneFramePerView
<1>5. QED
  BY <1>3, <1>4 DEF CursorInv

(* A shelf opened is its menu, or the one thing in it.                      *)
LEMMA OpensFit ==
  ASSUME CursorInv, view = "home", Push, UNCHANGED <<layout, catalog, selected>>,
         OpenNothingElse \/ \E letter : IsLetter(letter) /\ OpenShelf(letter)
  PROVE  CursorInv'
<1>1. RowsFit'
  BY DEF CursorInv, RowsFit
<1>2. back' = <<selected>> /\ selected' = selected
  BY PushOne DEF CursorInv, OneFramePerView
<1>3. view' \in {"menu", "job"} /\ pick' \in Nat /\ matches' \in Nat /\ (shelf' # NoShelf => IsLetter(shelf'))
  BY DEF CursorInv, PickFits, OpenNothingElse, OpenShelf
<1>4. view' = "menu" => IsLetter(shelf') /\ pick' <= Len(catalog'[shelf'])
  <2>1. SUFFICES ASSUME view' = "menu" PROVE IsLetter(shelf') /\ pick' <= Len(catalog'[shelf'])
    OBVIOUS
  <2>2. PICK letter : IsLetter(letter) /\ OpenShelf(letter)
    BY <2>1 DEF OpenNothingElse
  <2>3. shelf' = letter /\ pick' = 0 /\ catalog' = catalog
    BY <2>1, <2>2 DEF OpenShelf
  <2>4. Len(catalog[letter]) \in Nat
    BY <2>2, ShelfHolds DEF CursorInv, RowsFit
  <2>5. QED
    BY <2>2, <2>3, <2>4
<1>5. PickFits'
  BY <1>3, <1>4 DEF PickFits, IsLetter
<1>6. OneFramePerView'
  BY <1>2, <1>3 DEF OneFramePerView
<1>7. QED
  BY <1>1, <1>5, <1>6 DEF CursorInv

(* The letters drawn are letters there are.                                 *)
LEMMA DrawnLetters ==
  ASSUME NEW l \in Layouts, NEW i \in DOMAIN ShelfLetters(l) PROVE IsLetter(ShelfLetters(l)[i])
  BY LettersAre DEF IsLetter

(* A shelf under the cursor is of one of them.                              *)
LEMMA ShelfUnderCursor ==
  ASSUME NEW l \in Layouts, NEW n \in 0 .. RowCount(l) - 1, RowAt(l, n)[1] = "shelf"
  PROVE  IsLetter(RowAt(l, n)[2])
<1> DEFINE row == RowAt(l, n)
<1>1. IsRow(l, row)
  BY NumberHasRow
<1>2. ~Within(row, l.extras)
  BY CursorAssumption DEF Within
<1>3. \A x : <<"pill", x>>[1] = "pill" /\ <<"need", x>>[1] = "need"
  OBVIOUS
<1>4. PICK j \in DOMAIN ShelfLetters(l) : row = <<"shelf", ShelfLetters(l)[j]>>
  BY <1>1, <1>2, <1>3 DEF IsRow
<1>5. row[2] = ShelfLetters(l)[j]
  BY <1>4
<1>6. QED
  BY <1>5, DrawnLetters

(* The keys of Home.                                                        *)
LEMMA KeysKeep ==
  ASSUME CursorInv,
         PressEnter \/ PressDigit \/ PressLetter \/ PressHelp \/ PressSlash \/ PressBackspace \/ PressQuit
  PROVE  CursorInv'
<1>1. RowsFit /\ PickFits /\ OneFramePerView /\ layout \in Layouts
  BY DEF CursorInv, RowsFit
<1>2. CASE PressEnter
  <2>1. /\ view = "home" /\ Push /\ UNCHANGED <<layout, catalog, selected>>
        /\ \/ RowAt(layout, selected)[1] = "shelf" /\ OpenShelf(RowAt(layout, selected)[2])
           \/ OpenNothingElse
    BY <1>2 DEF PressEnter
  <2>2. RowAt(layout, selected)[1] = "shelf" => IsLetter(RowAt(layout, selected)[2])
    BY <1>1, ShelfUnderCursor DEF RowsFit
  <2>3. QED
    BY <2>1, <2>2, OpensFit
<1>3. CASE PressDigit
  BY <1>3, OpensFit DEF PressDigit
<1>4. CASE PressLetter
  <2>1. view = "home" /\ UNCHANGED <<layout, catalog, selected>>
    BY <1>4 DEF PressLetter
  <2>2. CASE \E i \in DOMAIN ShelfLetters(layout) : Push /\ OpenShelf(ShelfLetters(layout)[i])
    BY <1>1, <2>1, <2>2, DrawnLetters, OpensFit
  <2>3. CASE view' = "aside" /\ UNCHANGED <<back, shelf, pick, matches>>
    <3>1. RowsFit'
      BY <1>1, <2>1 DEF RowsFit
    <3>2. PickFits' /\ OneFramePerView'
      BY <1>1, <2>1, <2>3 DEF PickFits, OneFramePerView, IsLetter
    <3>3. QED
      BY <3>1, <3>2 DEF CursorInv
  <2>4. QED
    BY <1>4, <2>2, <2>3 DEF PressLetter
<1>5. CASE PressHelp \/ PressQuit
  <2>1. /\ view = "home" /\ view' \in {"aside", "closed"}
        /\ UNCHANGED <<layout, catalog, selected, back, shelf, pick, matches>>
    BY <1>5 DEF PressHelp, PressQuit
  <2>2. RowsFit'
    BY <1>1, <2>1 DEF RowsFit
  <2>3. PickFits' /\ OneFramePerView'
    BY <1>1, <2>1 DEF PickFits, OneFramePerView, IsLetter
  <2>4. QED
    BY <2>2, <2>3 DEF CursorInv
<1>6. CASE PressSlash
  <2>1. /\ view = "home" /\ Push /\ view' = "filter" /\ pick' = 0 /\ matches' = 0
        /\ UNCHANGED <<layout, catalog, selected, shelf>>
    BY <1>6 DEF PressSlash
  <2>2. RowsFit'
    BY <1>1, <2>1 DEF RowsFit
  <2>3. back' = <<selected>>
    BY <1>1, <2>1, PushOne DEF OneFramePerView
  <2>4. PickFits' /\ OneFramePerView'
    BY <1>1, <2>1, <2>3 DEF PickFits, OneFramePerView, IsLetter
  <2>5. QED
    BY <2>2, <2>4 DEF CursorInv
<1>7. CASE PressBackspace
  <2>1. UNCHANGED <<layout, catalog, selected, back, view, shelf, pick, matches>>
    BY <1>1, <1>7 DEF PressBackspace, OneFramePerView
  <2>2. RowsFit'
    BY <1>1, <2>1 DEF RowsFit
  <2>3. PickFits' /\ OneFramePerView'
    BY <1>1, <2>1 DEF PickFits, OneFramePerView, IsLetter
  <2>4. QED
    BY <2>2, <2>3 DEF CursorInv
<1>8. QED
  BY <1>2, <1>3, <1>4, <1>5, <1>6, <1>7


(* A view returns to Home: its frame is gone, and a capture has landed.     *)
LEMMA ReturnFits ==
  ASSUME CursorInv, view \in {"menu", "filter", "job"}, ReturnHome, catalog' \in Catalogs
  PROVE  CursorInv'
<1>1. /\ Pop /\ Swapped /\ view' = "home" /\ shelf' = NoShelf /\ pick' = pick /\ matches' = matches
      /\ RowsFit /\ PickFits /\ OneFramePerView
  BY DEF ReturnHome, CursorInv
<1>2. RowsFit'
  BY <1>1, SwapFits DEF RowsFit
<1>3. back' = <<>>
  BY <1>1, PopOne DEF OneFramePerView
<1>4. PickFits' /\ OneFramePerView'
  BY <1>1, <1>3 DEF PickFits, OneFramePerView, IsLetter
<1>5. QED
  BY <1>2, <1>4 DEF CursorInv

(* A page aside has no frame, and leaves none.                              *)
LEMMA AsideKeeps == ASSUME CursorInv, AsideEnds PROVE CursorInv'
<1>1. /\ view = "aside" /\ view' = "home" /\ Swapped /\ RowsFit /\ PickFits /\ OneFramePerView
      /\ UNCHANGED <<catalog, back, shelf, pick, matches>>
  BY DEF AsideEnds, CursorInv
<1>2. RowsFit'
  BY <1>1, SwapFits DEF RowsFit
<1>3. PickFits' /\ OneFramePerView'
  BY <1>1 DEF PickFits, OneFramePerView, IsLetter
<1>4. QED
  BY <1>2, <1>3 DEF CursorInv

(* A job returns to its menu, with the cursor on a row there still is.      *)
LEMMA JobKeeps == ASSUME CursorInv, JobEnds PROVE CursorInv'
<1>1. view = "job" /\ catalog' \in Catalogs /\ RowsFit /\ PickFits /\ OneFramePerView
  BY DEF JobEnds, CursorInv
<1>2. CASE shelf # NoShelf /\ catalog'[shelf] # <<>>
  <2>1. /\ view' = "menu" /\ UNCHANGED <<layout, selected, back, shelf, matches>>
        /\ pick' = IF pick <= Len(catalog'[shelf]) THEN pick ELSE Len(catalog'[shelf])
    BY <1>2 DEF JobEnds
  <2>2. IsLetter(shelf) /\ pick \in Nat
    BY <1>1, <1>2 DEF PickFits
  <2>3. Len(catalog'[shelf]) \in Nat
    BY <1>1, <2>2, ShelfHolds
  <2>4. pick' \in Nat /\ pick' <= Len(catalog'[shelf'])
    BY <2>1, <2>2, <2>3
  <2>5. RowsFit'
    BY <1>1, <2>1 DEF RowsFit
  <2>6. PickFits' /\ OneFramePerView'
    BY <1>1, <2>1, <2>2, <2>4 DEF PickFits, OneFramePerView, IsLetter
  <2>7. QED
    BY <2>5, <2>6 DEF CursorInv
<1>3. CASE ~(shelf # NoShelf /\ catalog'[shelf] # <<>>)
  <2>1. ReturnHome
    BY <1>3 DEF JobEnds
  <2>2. QED
    BY <1>1, <2>1, ReturnFits
<1>4. QED
  BY <1>2, <1>3

(* A job that leaves the terminal opens the cockpit afresh.                 *)
LEMMA ShellsOutKeeps == ASSUME CursorInv, ShellsOut PROVE CursorInv'
<1>1. /\ view' = "home" /\ back' = <<>> /\ shelf' = NoShelf /\ UNCHANGED <<catalog, pick, matches>>
      /\ layout' \in Layouts /\ selected' = DefaultSel(layout') /\ RowsFit /\ PickFits
  BY DEF ShellsOut, CursorInv
<1>2. RowsFit'
  BY <1>1, DefaultFits DEF RowsFit
<1>3. PickFits' /\ OneFramePerView'
  BY <1>1 DEF PickFits, OneFramePerView, IsLetter
<1>4. QED
  BY <1>2, <1>3 DEF CursorInv

(* The cursor of a menu, the Back row included.                             *)
LEMMA MenuKeeps == ASSUME CursorInv, MenuMove \/ MenuOpen \/ MenuLeave PROVE CursorInv'
<1>1. view = "menu" /\ RowsFit /\ PickFits /\ OneFramePerView /\ catalog' = catalog
  BY DEF MenuMove, MenuOpen, MenuLeave, CursorInv
<1>2. IsLetter(shelf) /\ pick \in Nat /\ matches \in Nat /\ back = <<selected>>
  BY <1>1 DEF PickFits, OneFramePerView
<1>3. PICK m \in Nat : m = Len(catalog[shelf]) /\ DOMAIN catalog[shelf] = 1 .. m
  BY <1>1, <1>2, ShelfHolds DEF RowsFit
<1>4. CASE MenuMove
  <2>1. UNCHANGED <<layout, catalog, selected, back, view, shelf, matches>>
    BY <1>4 DEF MenuMove
  <2>2. pick' \in {(pick + 1) % (m + 1), (pick + m) % (m + 1)}
    BY <1>3, <1>4 DEF MenuMove, MenuRows
  <2>3. (pick + 1) % (m + 1) \in 0 .. (m + 1) - 1 /\ (pick + m) % (m + 1) \in 0 .. (m + 1) - 1
    <3>1. m + 1 \in Nat \ {0} /\ pick + 1 \in Nat /\ pick + m \in Nat
      BY <1>2
    <3>2. QED
      BY <3>1, Wraps
  <2>4. pick' \in Nat /\ pick' <= m
    BY <2>2, <2>3
  <2>5. RowsFit'
    BY <1>1, <2>1 DEF RowsFit
  <2>6. PickFits' /\ OneFramePerView'
    BY <1>1, <1>2, <1>3, <2>1, <2>4 DEF PickFits, OneFramePerView, IsLetter
  <2>7. QED
    BY <2>5, <2>6 DEF CursorInv
<1>5. CASE MenuOpen
  <2>1. /\ view' = "job" /\ UNCHANGED <<layout, catalog, selected, back, shelf, matches>>
        /\ \E i \in DOMAIN catalog[shelf] : pick' = i - 1
    BY <1>5 DEF MenuOpen
  <2>2. pick' \in Nat
    BY <1>3, <2>1
  <2>3. RowsFit'
    BY <1>1, <2>1 DEF RowsFit
  <2>4. PickFits' /\ OneFramePerView'
    BY <1>1, <1>2, <2>1, <2>2 DEF PickFits, OneFramePerView, IsLetter
  <2>5. QED
    BY <2>3, <2>4 DEF CursorInv
<1>6. CASE MenuLeave
  BY <1>1, <1>6, ReturnFits DEF MenuLeave, RowsFit
<1>7. QED
  BY <1>4, <1>5, <1>6

(* The cursor of the filter.                                                *)
LEMMA FilterKeeps ==
  ASSUME CursorInv, FilterType \/ FilterMove \/ FilterOpen \/ FilterLeave PROVE CursorInv'
<1>1. /\ view = "filter" /\ RowsFit /\ PickFits /\ OneFramePerView /\ catalog' = catalog
      /\ pick \in Nat /\ matches \in Nat /\ MaxMatches \in Nat
  BY CursorAssumption DEF FilterType, FilterMove, FilterOpen, FilterLeave, CursorInv, PickFits
<1>2. CASE FilterLeave
  BY <1>1, <1>2, ReturnFits DEF FilterLeave, RowsFit
<1>3. CASE FilterOpen
  <2>1. view' = "job" /\ UNCHANGED <<layout, catalog, selected, back, shelf, pick, matches>>
    BY <1>3 DEF FilterOpen
  <2>2. RowsFit'
    BY <1>1, <2>1 DEF RowsFit
  <2>3. PickFits' /\ OneFramePerView'
    BY <1>1, <2>1 DEF PickFits, OneFramePerView, IsLetter
  <2>4. QED
    BY <2>2, <2>3 DEF CursorInv
<1>4. CASE FilterType \/ FilterMove
  <2>1. UNCHANGED <<layout, catalog, selected, back, view, shelf>>
    BY <1>4 DEF FilterType, FilterMove
  <2>2. pick' \in Nat /\ matches' \in Nat /\ (matches' > 0 => pick' < matches')
    <3>1. CASE FilterType
      <4>1. matches' \in 0 .. MaxMatches /\ pick' = 0
        BY <3>1 DEF FilterType
      <4>2. QED
        BY <1>1, <4>1
    <3>2. CASE FilterMove
      <4>1. PICK n \in Nat \ {0} : n = matches
        BY <1>1, <3>2 DEF FilterMove
      <4>2. pick' \in {(pick + 1) % n, (pick + n - 1) % n} /\ matches' = n
        BY <3>2, <4>1 DEF FilterMove
      <4>3. (pick + 1) % n \in 0 .. n - 1 /\ (pick + n - 1) % n \in 0 .. n - 1
        <5>1. pick + 1 \in Nat /\ pick + n - 1 \in Nat
          BY <1>1, <4>1
        <5>2. QED
          BY <5>1, Wraps
      <4>4. QED
        BY <4>2, <4>3
    <3>3. QED
      BY <1>4, <3>1, <3>2
  <2>3. RowsFit'
    BY <1>1, <2>1 DEF RowsFit
  <2>4. PickFits' /\ OneFramePerView'
    BY <1>1, <2>1, <2>2 DEF PickFits, OneFramePerView, IsLetter
  <2>5. QED
    BY <2>3, <2>4 DEF CursorInv
<1>5. QED
  BY <1>2, <1>3, <1>4 DEF FilterType, FilterMove, FilterOpen, FilterLeave

(* Nothing done leaves all as it is.                                        *)
LEMMA CursorStutters == ASSUME CursorInv, UNCHANGED cursorVars PROVE CursorInv'
<1>1. UNCHANGED <<layout, catalog, selected, back, view, shelf, pick, matches>>
  BY DEF cursorVars
<1>2. RowsFit'
  BY <1>1 DEF CursorInv, RowsFit
<1>3. PickFits' /\ OneFramePerView'
  BY <1>1 DEF CursorInv, PickFits, OneFramePerView, IsLetter
<1>4. QED
  BY <1>2, <1>3 DEF CursorInv

(* Every key, capture, view and job keeps it.                               *)
LEMMA CursorSteps == CursorInv /\ [CursorNext]_cursorVars => CursorInv'
<1> SUFFICES ASSUME CursorInv, [CursorNext]_cursorVars PROVE CursorInv'
  OBVIOUS
<1>1. CASE CaptureLands \/ MoveVertical \/ MoveSideways
  BY <1>1, HomeKeeps
<1>2. CASE PressEnter \/ PressDigit \/ PressLetter \/ PressHelp \/ PressSlash \/ PressBackspace \/ PressQuit
  BY <1>2, KeysKeep
<1>3. CASE AsideEnds \/ JobEnds \/ ShellsOut
  BY <1>3, AsideKeeps, JobKeeps, ShellsOutKeeps
<1>4. CASE MenuMove \/ MenuOpen \/ MenuLeave
  BY <1>4, MenuKeeps
<1>5. CASE FilterType \/ FilterMove \/ FilterOpen \/ FilterLeave
  BY <1>5, FilterKeeps
<1>6. CASE UNCHANGED cursorVars
  BY <1>6, CursorStutters
<1>7. QED
  BY <1>1, <1>2, <1>3, <1>4, <1>5, <1>6 DEF CursorNext

(* The cursor is safe wherever it fits.                                     *)
LEMMA CursorIsSafe == CursorInv => CursorSafe
<1> SUFFICES ASSUME CursorInv PROVE CursorSafe
  OBVIOUS
<1>1. RowsFit /\ PickFits /\ OneFramePerView /\ layout \in Layouts /\ selected \in 0 .. RowCount(layout) - 1
  BY DEF CursorInv, RowsFit
<1>2. CursorOnARow
  <2>1. selected < RowCount(layout)
    BY <1>1, RowsAre
  <2>2. QED
    BY <1>1, <2>1 DEF CursorOnARow, PickFits, MenuRows
<1>3. NeighbourIsDrawn
  <2>1. \A right \in BOOLEAN : GoesBeside(layout, selected, right)
    BY <1>1, AlwaysGoesBeside
  <2>2. QED
    BY <2>1 DEF NeighbourIsDrawn, GoesBeside, Beside
<1>4. OneCursorIsDrawn
  <2>1. IsRow(layout, RowAt(layout, selected))
    BY <1>1, NumberHasRow
  <2>2. QED
    BY <1>1, <2>1, DrawnOnce DEF OneCursorIsDrawn, Within
<1>5. QED
  BY <1>1, <1>2, <1>3, <1>4 DEF CursorSafe

(* The cursor is on a row that is drawn, once, in both renderings; left and *)
(* right go to what is drawn beside it; and every view leaves the stack as  *)
(* it found it: for every roster, worker, registry and number of rows.      *)
THEOREM CursorAlwaysSafe == CursorSpec => []CursorSafe
<1>1. CursorSpec => []CursorInv
  BY CursorStarts, CursorSteps, PTL DEF CursorSpec
<1>2. QED
  BY <1>1, CursorIsSafe, PTL
=============================================================================
