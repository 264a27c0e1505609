----------------------------- MODULE RawSession -----------------------------
(***************************************************************************)
(* The terminal's mode over a session (keys.py): raw_mode held once, with  *)
(* any raw_mode inside it a no-op, cooked_mode windows that nest, and the  *)
(* restore on a normal exit, on an exception and on SIGTERM.               *)
(***************************************************************************)
EXTENDS Naturals, Sequences

CONSTANT MaxNesting   \* bound: contexts open at once

ASSUME NestingAssumption == MaxNesting \in Nat

VARIABLES contexts,   \* the contexts open, innermost last
          held,       \* a session is recorded (_held_fd)
          depth,      \* the cooked windows open (_cooked_depth)
          tty,        \* the terminal's mode
          handler,    \* the SIGTERM handler that restores is installed
          phase,      \* where the outermost raw_mode is
          alive

rawVars == <<contexts, held, depth, tty, handler, phase, alive>>

Open(c) == contexts' = Append(contexts, c)
Innermost == contexts[Len(contexts)]
CloseInnermost == contexts' = SubSeq(contexts, 1, Len(contexts) - 1)
CanOpen == alive /\ phase \in {"out", "in"} /\ Len(contexts) < MaxNesting

\* The outermost raw_mode: the mode is set, the session recorded, the handler
\* installed, one after the other.
Arm ==
  /\ CanOpen /\ ~held /\ phase = "out"
  /\ Open("session") /\ tty' = "raw" /\ phase' = "armed"
  /\ UNCHANGED <<held, depth, handler, alive>>

Hold ==
  /\ alive /\ phase = "armed"
  /\ held' = TRUE /\ depth' = 0 /\ phase' = "holding"
  /\ UNCHANGED <<contexts, tty, handler, alive>>

InstallHandler ==
  /\ alive /\ phase = "holding"
  /\ handler' = TRUE /\ phase' = "in"
  /\ UNCHANGED <<contexts, held, depth, tty, alive>>

EnterInner ==
  /\ CanOpen /\ held
  /\ Open("inner")
  /\ UNCHANGED <<held, depth, tty, handler, phase, alive>>

\* Only the outermost window touches the terminal.
EnterCooked ==
  /\ CanOpen /\ held
  /\ Open("cooked") /\ depth' = depth + 1
  /\ tty' = IF depth = 0 THEN "cooked" ELSE tty
  /\ UNCHANGED <<held, handler, phase, alive>>

\* A window opened with no session held changes nothing.
EnterNothing ==
  /\ CanOpen /\ ~held
  /\ Open("nothing")
  /\ UNCHANGED <<held, depth, tty, handler, phase, alive>>

\* A bug to find: every window re-arms raw as it closes.
LeaveCooked_Rearms ==
  /\ alive /\ phase = "in" /\ Innermost = "cooked"
  /\ CloseInnermost /\ depth' = depth - 1
  /\ tty' = "raw"
  /\ UNCHANGED <<held, handler, phase, alive>>

\* A context ends, by its end or by an exception: both unwind from the inside.
LeaveCooked ==
  /\ alive /\ phase = "in" /\ Innermost = "cooked"
  /\ CloseInnermost /\ depth' = depth - 1
  /\ tty' = IF depth = 1 /\ held THEN "raw" ELSE tty
  /\ UNCHANGED <<held, handler, phase, alive>>

LeaveInner ==
  /\ alive /\ phase \in {"in", "out"} /\ contexts # <<>> /\ Innermost \in {"inner", "nothing"}
  /\ CloseInnermost
  /\ UNCHANGED <<held, depth, tty, handler, phase, alive>>

\* The outermost raw_mode's finally: forget the session, give the handler
\* back, restore.
Release ==
  /\ alive /\ phase = "in" /\ Innermost = "session"
  /\ held' = FALSE /\ depth' = 0 /\ phase' = "releasing"
  /\ UNCHANGED <<contexts, tty, handler, alive>>

RemoveHandler ==
  /\ alive /\ phase = "releasing" /\ handler
  /\ handler' = FALSE
  /\ UNCHANGED <<contexts, held, depth, tty, phase, alive>>

Restore ==
  /\ alive /\ phase = "releasing" /\ ~handler
  /\ CloseInnermost /\ tty' = "cooked" /\ phase' = "out"
  /\ UNCHANGED <<held, depth, handler, alive>>

\* SIGTERM: the handler restores and dies; without it the process just dies.
Sigterm ==
  /\ alive
  /\ alive' = FALSE
  /\ tty' = IF handler THEN "cooked" ELSE tty
  /\ UNCHANGED <<contexts, held, depth, handler, phase>>

RawInit ==
  /\ contexts = <<>> /\ held = FALSE /\ depth = 0 /\ tty = "cooked" /\ handler = FALSE
  /\ phase = "out" /\ alive = TRUE

RawNext ==
  \/ Arm \/ Hold \/ InstallHandler \/ EnterInner \/ EnterCooked \/ EnterNothing
  \/ LeaveCooked \/ LeaveInner \/ Release \/ RemoveHandler \/ Restore \/ Sigterm

RawSpec == RawInit /\ [][RawNext]_rawVars

RawTypeOK ==
  /\ contexts \in Seq({"session", "inner", "cooked", "nothing"})
  /\ held \in BOOLEAN /\ depth \in 0 .. MaxNesting /\ tty \in {"raw", "cooked"}
  /\ handler \in BOOLEAN /\ phase \in {"out", "armed", "holding", "in", "releasing"}
  /\ alive \in BOOLEAN

\* Inside a session the terminal is cooked exactly while a window of it is
\* open; outside one, and after a SIGTERM that found the handler, it is cooked.
TerminalIsRestored ==
  /\ alive /\ phase = "in" =>
       (tty = "cooked") = \E i \in DOMAIN contexts : contexts[i] = "cooked"
  /\ alive /\ phase = "out" => tty = "cooked"
  /\ ~alive /\ handler => tty = "cooked"
=============================================================================
