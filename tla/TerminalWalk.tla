---------------------------- MODULE TerminalWalk ----------------------------
(***************************************************************************)
(* One guided walk at the terminal (walk.py, human mode): the pre-flight   *)
(* with its remedy, the steps, and the gate before each write, read from   *)
(* the keyboard the operator types on at any time.  A step is "animate"    *)
(* (a job on a worker thread behind a progress screen), "await" (a page    *)
(* left by any key) or "apply" (a review page and the write gate).         *)
(***************************************************************************)
EXTENDS Naturals, Keyboard

CONSTANTS Walks,       \* the walks: sequences of steps
          Presses,     \* the bytes the operator may type
          MaxPresses   \* bound: bytes typed

VARIABLES steps, at, walkAt, page, blocked, term, worker, applied, typed

walkVars == <<steps, at, walkAt, page, blocked, term, worker, applied, typed>>

Kinds == {"animate", "await", "apply"}

ASSUME WalkAssumption ==
  /\ \A w \in Walks : w \in Seq(Kinds)
  /\ Presses \subseteq Bytes
ASSUME PressesAssumption == MaxPresses \in Nat

WalkSteps == {"preflight", "continue", "offer", "confirm_remedy", "step", "animating", "awaiting",
              "review", "gate", "result", "leave", "over"}
PageNames == {"shell", "preflight", "remedy", "progress", "note", "review", "result"}
Page(name) == [name |-> name, step |-> at]

PressWalk(b) ==
  /\ walkAt # "over" /\ typed < MaxPresses
  /\ typed' = typed + 1
  /\ term' = Typed(term, b, page)
  /\ UNCHANGED <<steps, at, walkAt, page, blocked, worker, applied>>

\* The main thread reads one key, the answer to what it waits for.
Reads == Pending(term) # <<>> /\ term' = ReadKey(term).term
Answer == ReadKey(term).key

----------------------------------------------------------------------------
(* preflight *)

DrawPreflight ==
  /\ walkAt = "preflight"
  /\ page' = Page("preflight")
  /\ walkAt' = IF blocked = "no" THEN "continue" ELSE IF blocked = "remedy" THEN "offer" ELSE "leave"
  /\ UNCHANGED <<steps, at, blocked, term, worker, applied, typed>>

\* A walk that writes asks to go on; any key but yes leaves it.
Continue ==
  /\ walkAt = "continue"
  /\ IF \E i \in DOMAIN steps : steps[i] = "apply"
     THEN /\ Reads
          /\ IF Answer.byte = "yes" THEN walkAt' = "step" /\ at' = 1
             ELSE walkAt' = "over" /\ UNCHANGED at
     ELSE walkAt' = "step" /\ at' = 1 /\ UNCHANGED term
  /\ UNCHANGED <<steps, page, blocked, worker, applied, typed>>

OfferRemedy ==
  /\ walkAt = "offer"
  /\ Reads
  /\ IF Answer.byte = "fix" THEN walkAt' = "confirm_remedy" /\ page' = Page("remedy")
     ELSE walkAt' = "over" /\ UNCHANGED page
  /\ UNCHANGED <<steps, at, blocked, worker, applied, typed>>

\* The remedy runs behind one more key, and the preconditions are read again;
\* a remedy that raises ends the walk.
ConfirmRemedy ==
  /\ walkAt = "confirm_remedy"
  /\ Reads
  /\ IF Answer.byte = "yes"
     THEN walkAt' \in {"preflight", "over"} /\ blocked' \in {"no", "remedy", "hard"}
     ELSE walkAt' = "over" /\ UNCHANGED blocked
  /\ UNCHANGED <<steps, at, page, worker, applied, typed>>

----------------------------------------------------------------------------
(* The steps. *)

StartStep ==
  /\ walkAt = "step" /\ at \in DOMAIN steps
  /\ CASE steps[at] = "animate" -> walkAt' = "animating" /\ page' = Page("progress") /\ worker' = "running"
       [] steps[at] = "await" -> walkAt' = "awaiting" /\ page' = Page("note") /\ UNCHANGED worker
       [] steps[at] = "apply" -> walkAt' = "review" /\ page' = Page("review") /\ UNCHANGED worker
  /\ UNCHANGED <<steps, at, blocked, term, applied, typed>>

WorkerEnds ==
  /\ worker = "running"
  /\ worker' \in {"returned", "raised"}
  /\ UNCHANGED <<steps, at, walkAt, page, blocked, term, applied, typed>>

\* The loop joins the worker; what it raised is raised again and ends the walk.
JoinWorker ==
  /\ walkAt = "animating" /\ worker # "running"
  /\ IF worker = "returned" THEN walkAt' = "step" /\ at' = at + 1 ELSE walkAt' = "over" /\ UNCHANGED at
  /\ worker' = "idle"
  /\ UNCHANGED <<steps, page, blocked, term, applied, typed>>

\* Each tick polls the kernel's queue for a key: Esc (or q) cancels and leaves
\* the worker behind.
PollCancel ==
  /\ walkAt = "animating" /\ worker = "running" /\ term.tty # <<>>
  /\ Reads
  /\ walkAt' = IF Answer.byte = "esc" THEN "over" ELSE walkAt
  /\ UNCHANGED <<steps, at, page, blocked, worker, applied, typed>>

AwaitKey ==
  /\ walkAt = "awaiting"
  /\ Reads
  /\ walkAt' = "step" /\ at' = at + 1
  /\ UNCHANGED <<steps, page, blocked, worker, applied, typed>>

\* confirm_apply: what was typed before the review page was drawn is dropped,
\* then one key answers.
DiscardTyped ==
  /\ walkAt = "review"
  /\ term' = Discarded(term)
  /\ walkAt' = "gate"
  /\ UNCHANGED <<steps, at, page, blocked, worker, applied, typed>>

AnswerGate ==
  /\ walkAt = "gate"
  /\ Reads
  /\ IF Answer.byte = "yes"
     THEN /\ applied' = applied \cup {[step |-> at, page |-> Answer.page]}
          /\ walkAt' = "step" /\ at' = at + 1
     ELSE walkAt' = "result" /\ UNCHANGED <<applied, at>>
  /\ UNCHANGED <<steps, page, blocked, worker, typed>>

AllStepsDone ==
  /\ walkAt = "step" /\ at \notin DOMAIN steps
  /\ walkAt' = "result"
  /\ UNCHANGED <<steps, at, page, blocked, term, worker, applied, typed>>

DrawResult ==
  /\ walkAt = "result"
  /\ page' = Page("result") /\ walkAt' = "leave"
  /\ UNCHANGED <<steps, at, blocked, term, worker, applied, typed>>

Leave ==
  /\ walkAt = "leave"
  /\ Reads
  /\ walkAt' = "over"
  /\ UNCHANGED <<steps, at, page, blocked, worker, applied, typed>>

----------------------------------------------------------------------------
WalkInit ==
  /\ steps \in Walks /\ at = 0 /\ walkAt = "preflight"
  /\ page = [name |-> "shell", step |-> 0]
  /\ blocked \in {"no", "remedy", "hard"}
  /\ term = EmptyTerminal /\ worker = "idle" /\ applied = {} /\ typed = 0

WalkNext ==
  \/ \E b \in Presses : PressWalk(b)
  \/ DrawPreflight \/ Continue \/ OfferRemedy \/ ConfirmRemedy
  \/ StartStep \/ WorkerEnds \/ JoinWorker \/ PollCancel \/ AwaitKey
  \/ DiscardTyped \/ AnswerGate \/ AllStepsDone \/ DrawResult \/ Leave

WalkSpec == WalkInit /\ [][WalkNext]_walkVars

WalkTypeOK ==
  /\ steps \in Walks /\ at \in 0 .. Len(steps) + 1 /\ walkAt \in WalkSteps
  /\ page \in [name : PageNames, step : Nat]
  /\ blocked \in {"no", "remedy", "hard"}
  /\ worker \in {"idle", "running", "returned", "raised"}
  /\ Len(term.push) <= 1 /\ typed \in 0 .. MaxPresses

\* A write is confirmed only by a key typed while its own review page was on
\* screen, never by one typed ahead.
AppliedByAKeySeen ==
  \A a \in applied : a.page = [name |-> "review", step |-> a.step]
=============================================================================
