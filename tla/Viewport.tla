------------------------------ MODULE Viewport ------------------------------
(***************************************************************************)
(* The scrolling, resize-aware stand-in for the screen (viewport.py): the  *)
(* main thread updates and scrolls, and a resize may interrupt it between  *)
(* any two steps, to paint the page again or to leave that to the painting *)
(* it interrupted.  A page is what the drawing tells apart: how many lines *)
(* it has, who it is (its masked header) and the line its cursor is on.    *)
(***************************************************************************)
EXTENDS Integers

CONSTANTS Sheets,      \* the pages: [lines, id, cursor], cursor 0 for none
          Top, Bottom, \* the lines pinned (Viewport.top, Viewport.bottom)
          Heights,     \* the heights of the terminal
          MaxDraws     \* bound: updates, scrolls and resizes

\* A terminal of no rows is drawn a page whole: it has nothing to show.
ASSUME ViewAssumption ==
  /\ \A s \in Sheets : s.lines \in Nat /\ s.cursor \in Nat
  /\ Top \in Nat /\ Bottom \in Nat /\ Heights \subseteq Nat \ {0}

ASSUME DrawsAssumption == MaxDraws \in Nat

MinBody == 3           \* _MIN_BODY

VARIABLES attached,  \* the resize handler is installed
          reader,    \* where the main thread is
          drawing,   \* where the draw in progress is, "none" outside one
          drawer,    \* who draws: the main thread or the signal handler
          height, winch,          \* the terminal, and a resize not yet handled
          console, kept,          \* the console's frozen size (0: it follows), and what to put back
          sheet, fresh, offset, manual, identity, cursor, again, measured, rows, body,
          aim,       \* the offset a scroll is about to set
          frame,     \* what the screen shows
          draws

viewVars == <<attached, reader, drawing, drawer, height, winch, console, kept, sheet, fresh,
              offset, manual, identity, cursor, again, measured, rows, body, aim, frame, draws>>

pageVars == <<sheet, fresh, offset, manual, identity, cursor, rows, body, frame>>
NoSheet == [lines |-> 0, id |-> "none", cursor |-> 0]

\* A bug to find: the window may begin above the page.
Clamped_Open(x, low, high) == IF x > high THEN high ELSE x

Clamped(x, low, high) == IF x < low \/ high < low THEN low ELSE IF x > high THEN high ELSE x

\* The pins for a terminal of h rows: shrunk in turn until the body keeps its
\* least rows and the note fits, the footer's last line always kept.
Unpinned == [top |-> Top, bottom |-> IF Bottom > 1 THEN Bottom ELSE 1]
PinsFit(p, h) == p.top + p.bottom + 1 + MinBody <= h \/ (p.top = 0 /\ p.bottom <= 1)
Shrunk(p, h) ==
  IF PinsFit(p, h) THEN p
  ELSE IF p.top > 0 /\ (p.top >= p.bottom \/ p.bottom <= 1)
       THEN [p EXCEPT !.top = @ - 1] ELSE [p EXCEPT !.bottom = @ - 1]
Pins(h) ==
  LET shrink[k \in 0 .. Top + Bottom] == IF k = 0 THEN Unpinned ELSE Shrunk(shrink[k - 1], h)
  IN shrink[Top + Bottom]

\* The least move of the window that shows body line c, with a line of context.
Followed(o, c, n) ==
  LET context == IF n >= 3 THEN 1 ELSE 0
  IN IF c < o + context THEN c - context
     ELSE IF c > o + n - 1 - context THEN c - n + 1 + context ELSE o

\* Lines count from 0 in the code: a cursor on line 1 here is index 0 there.
\* It is looked for between the pins as configured.
CursorOf(s) == IF s.cursor - 1 \in Top .. s.lines - Bottom - 1 THEN s.cursor - 1 ELSE -1

\* _draw_once for page s at height h.
Drawn(s, h) ==
  LET c == CursorOf(s)
      isNew == fresh /\ s.id # identity
      scrolled == manual /\ ~isNew /\ ~(fresh /\ c # cursor)
      o == IF isNew THEN 0 ELSE offset
      p == Pins(h)
      length == s.lines - p.bottom - p.top
      note == IF h - p.top - p.bottom >= 2 THEN 1 ELSE 0
      n == h - p.top - p.bottom - note
      followed == IF ~scrolled /\ c # -1 THEN Followed(o, c - p.top, n) ELSE o
      window == Clamped(followed, 0, length - n)
  IN IF s.lines <= h
     THEN [offset |-> o, manual |-> scrolled, rows |-> 0, body |-> 0,
           frame |-> [sheet |-> s, height |-> h, top |-> s.lines, from |-> 0, shown |-> 0,
                      note |-> 0, bottom |-> 0, follows |-> ~scrolled]]
     ELSE [offset |-> window, manual |-> scrolled, rows |-> n, body |-> length,
           frame |-> [sheet |-> s, height |-> h, top |-> p.top, from |-> window,
                      shown |-> IF length - window < n THEN length - window ELSE n,
                      note |-> note, bottom |-> p.bottom, follows |-> ~scrolled]]

----------------------------------------------------------------------------
(* The main thread. *)

Free == reader = "idle" /\ drawing = "none" /\ attached

\* update: the page is set, then marked fresh, then drawn.
Update(s) ==
  /\ Free /\ draws < MaxDraws
  /\ draws' = draws + 1
  /\ sheet' = s /\ reader' = "set"
  /\ UNCHANGED <<attached, drawing, drawer, height, winch, console, kept, fresh, offset, manual,
                 identity, cursor, again, measured, rows, body, aim, frame>>

MarkFresh ==
  /\ reader = "set" /\ drawing = "none"
  /\ fresh' = TRUE /\ reader' = "draw"
  /\ UNCHANGED <<attached, drawing, drawer, height, winch, console, kept, sheet, offset, manual,
                 identity, cursor, again, measured, rows, body, aim, frame, draws>>

\* PgUp and PgDn aim a page away; Home and End, only on a page that overflows,
\* at either end.
Scroll ==
  /\ Free /\ sheet # NoSheet /\ draws < MaxDraws
  /\ draws' = draws + 1
  /\ LET step == IF rows > 2 THEN rows - 1 ELSE 1
         ends == IF rows > 0 THEN {0, body} ELSE {}
     IN \E x \in {offset + step, offset - step} \cup ends : aim' = x
  /\ reader' = "aimed"
  /\ UNCHANGED <<attached, drawing, drawer, height, winch, console, kept, again, measured,
                 pageVars>>

SetOffset ==
  /\ reader = "aimed" /\ drawing = "none"
  /\ offset' = Clamped(aim, 0, body - rows)
  /\ reader' = "scrolled"
  /\ UNCHANGED <<attached, drawing, drawer, height, winch, console, kept, sheet, fresh, manual,
                 identity, cursor, again, measured, rows, body, aim, frame, draws>>

MarkManual ==
  /\ reader = "scrolled" /\ drawing = "none"
  /\ manual' = TRUE /\ reader' = "draw"
  /\ UNCHANGED <<attached, drawing, drawer, height, winch, console, kept, sheet, fresh, offset,
                 identity, cursor, again, measured, rows, body, aim, frame, draws>>

\* Leaving the viewport: the handler goes first, then the console gets its size back.
Detach ==
  /\ Free
  /\ attached' = FALSE
  /\ console' = (IF kept # {} THEN CHOOSE k \in kept : TRUE ELSE console) /\ kept' = {}
  /\ UNCHANGED <<reader, drawing, drawer, height, winch, aim, again, measured, draws, pageVars>>

----------------------------------------------------------------------------
(* The signal: Python runs the handler between two steps of the main thread. *)

Resize(h) ==
  /\ draws < MaxDraws /\ h # height
  /\ draws' = draws + 1
  /\ height' = h /\ winch' = attached
  /\ UNCHANGED <<attached, reader, drawing, drawer, console, kept, again, measured, aim, pageVars>>

\* A bug to find: a resize inside a draw is taken for handled.
Interrupt_Dropped ==
  /\ winch /\ drawing # "none"
  /\ winch' = FALSE
  /\ UNCHANGED <<attached, reader, drawing, drawer, height, console, kept, again, measured, aim,
                 draws, pageVars>>

\* Inside a draw the handler only asks for one more pass.
Interrupt ==
  /\ winch /\ drawing # "none"
  /\ winch' = FALSE /\ again' = TRUE
  /\ UNCHANGED <<attached, reader, drawing, drawer, height, console, kept, measured, aim, draws,
                 pageVars>>

HandlerDraws ==
  /\ winch /\ drawing = "none"
  /\ winch' = FALSE
  /\ IF sheet # NoSheet /\ attached THEN drawing' = "begin" /\ drawer' = "handler"
     ELSE UNCHANGED <<drawing, drawer>>
  /\ UNCHANGED <<attached, reader, height, console, kept, again, measured, aim, draws, pageVars>>

----------------------------------------------------------------------------
(* draw: passes until nothing asked for another. *)

MainDraws ==
  /\ reader = "draw" /\ drawing = "none"
  /\ drawing' = "begin" /\ drawer' = "main"
  /\ UNCHANGED <<attached, reader, height, winch, console, kept, again, measured, aim, draws,
                 pageVars>>

BeginPass ==
  /\ drawing = "begin"
  /\ again' = FALSE /\ drawing' = "measure"
  /\ UNCHANGED <<attached, reader, drawer, height, winch, console, kept, measured, aim, draws,
                 pageVars>>

\* The live size, and a console frozen at another one made to agree with it.
Measure ==
  /\ drawing = "measure"
  /\ measured' = height /\ drawing' = "paint"
  /\ IF console \in {0, height} THEN UNCHANGED <<console, kept>>
     ELSE console' = height /\ kept' = (IF kept = {} THEN {console} ELSE kept)
  /\ UNCHANGED <<attached, reader, drawer, height, winch, again, aim, draws, pageVars>>

PaintSheet ==
  /\ drawing = "paint"
  /\ \E d \in {Drawn(sheet, measured)} :
       /\ offset' = d.offset /\ manual' = d.manual /\ rows' = d.rows /\ body' = d.body
       /\ frame' = d.frame
  /\ fresh' = FALSE /\ identity' = sheet.id /\ cursor' = CursorOf(sheet)
  /\ drawing' = "check"
  /\ UNCHANGED <<attached, reader, drawer, height, winch, console, kept, sheet, again, measured,
                 aim, draws>>

CheckAgain ==
  /\ drawing = "check"
  /\ drawing' = IF again THEN "begin" ELSE "leave"
  /\ UNCHANGED <<attached, reader, drawer, height, winch, console, kept, again, measured, aim,
                 draws, pageVars>>

EndDraw ==
  /\ drawing = "leave"
  /\ drawing' = "none"
  /\ reader' = IF drawer = "main" THEN "idle" ELSE reader
  /\ UNCHANGED <<attached, drawer, height, winch, console, kept, again, measured, aim, draws,
                 pageVars>>

----------------------------------------------------------------------------
ViewInit ==
  /\ attached = TRUE /\ reader = "idle" /\ drawing = "none" /\ drawer = "main"
  /\ height \in Heights /\ winch = FALSE /\ console \in {0} \cup Heights /\ kept = {}
  /\ sheet = NoSheet /\ fresh = FALSE /\ offset = 0 /\ manual = FALSE /\ identity = "none"
  /\ cursor = -1 /\ again = FALSE /\ measured = 0 /\ rows = 0 /\ body = 0 /\ aim = 0
  /\ frame = [sheet |-> NoSheet, height |-> 0, top |-> 0, from |-> 0, shown |-> 0, note |-> 0,
              bottom |-> 0, follows |-> TRUE]
  /\ draws = 0

ViewNext ==
  \/ \E s \in Sheets : Update(s)
  \/ MarkFresh \/ Scroll \/ SetOffset \/ MarkManual \/ Detach
  \/ \E h \in Heights : Resize(h)
  \/ Interrupt \/ HandlerDraws
  \/ MainDraws \/ BeginPass \/ Measure \/ PaintSheet \/ CheckAgain \/ EndDraw

ViewSpec == ViewInit /\ [][ViewNext]_viewVars

----------------------------------------------------------------------------
ViewTypeOK ==
  /\ attached \in BOOLEAN /\ winch \in BOOLEAN /\ fresh \in BOOLEAN /\ manual \in BOOLEAN
  /\ again \in BOOLEAN
  /\ reader \in {"idle", "set", "draw", "aimed", "scrolled"}
  /\ drawing \in {"none", "begin", "measure", "paint", "check", "leave"}
  /\ drawer \in {"main", "handler"}
  /\ height \in Heights /\ console \in {0} \cup Heights /\ kept \subseteq Heights
  /\ sheet \in Sheets \cup {NoSheet} /\ offset \in Nat /\ rows \in Nat /\ body \in Nat
  /\ draws \in 0 .. MaxDraws

\* A page too tall for the terminal fills it exactly, and its window lies
\* within the body: no line of the page is out of a scroll's reach.
FrameFits ==
  frame.sheet.lines > frame.height =>
    /\ frame.shown >= 0
    /\ frame.top + frame.shown + frame.note + frame.bottom = frame.height
    /\ frame.top + frame.from + frame.shown + frame.bottom <= frame.sheet.lines

\* Unless the operator has scrolled away, the selected row is in the frame.
CursorIsShown ==
  LET c == CursorOf(frame.sheet)
      first == frame.top + frame.from
  IN frame.sheet.lines > frame.height /\ frame.follows /\ c # -1 /\ frame.shown > 0 =>
       \/ c < frame.top \/ c >= frame.sheet.lines - frame.bottom
       \/ c \in first .. first + frame.shown - 1

\* When all is still, a resize that came while a frame was computed or after
\* it was painted has been drawn, but for one that came as a draw was leaving.
NoResizeIsLost ==
  attached /\ reader = "idle" /\ drawing = "none" /\ ~winch /\ ~again /\ sheet # NoSheet =>
    frame.height = height /\ frame.sheet = sheet

\* A console that exports its size has it back once the viewport is left.
ConsoleIsRestored == ~attached => kept = {}

\* A resize arriving in a draw is folded into one more pass: when all is
\* still, the frame was made for the terminal as it is.
ResizeIsDrawn ==
  attached /\ reader = "idle" /\ drawing = "none" /\ ~winch /\ sheet # NoSheet =>
    frame.height = height

\* The frame fits, shows the cursor and is up to date, and leaving puts things back.
ViewportSafe == FrameFits /\ CursorIsShown /\ NoResizeIsLost /\ ConsoleIsRestored
=============================================================================
