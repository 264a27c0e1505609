----------------------------- MODULE HomeCursor -----------------------------
(***************************************************************************)
(* Where the cursor is in the cockpit (shell.py): over the rows of Home,   *)
(* in the menu of a shelf, in the filter; what the two renderings of Home  *)
(* (render_chrome.py for the terminal, render_models.py for an agent) draw *)
(* of it; and the frames its views leave on the back stack.  When captures *)
(* run is HomeLoop's subject: here one may land whenever Home is shown.    *)
(***************************************************************************)
EXTENDS Naturals, Sequences, FiniteSets

CONSTANTS
  Layouts,       \* what a capture may find: how many pills and needs, the worker's rows
                 \* (extras), and the letters of its roster, as {letters}, if it has one
  Canonical,     \* the letters of SHELVES, drawn where a worker has no roster
  Catalogs,      \* what the registry may hold: [letters -> capabilities, in order]
  Wired,         \* the letters, of "a" and "s", whose callback the host wires
  ShortcutKeys,  \* MENU_SHORTCUT_ALPHABET
  FirstAlias,    \* the least ordinal an agent may still send as a word of its own: 10
  ShownMatches,  \* rows the filter draws: 9
  MaxMatches     \* bound: what a term matches

IsASequence(s) == s \in Seq({s[i] : i \in DOMAIN s})
Distinct(s) == \A i, j \in DOMAIN s : s[i] = s[j] => i = j
Rosters == {Canonical} \cup UNION {l.roster : l \in Layouts}

\* The letters are the keys of a dict; an empty roster is not a worker's: Home
\* would have rows drawn that none can reach.  A worker's rows have tags of
\* their own.
ASSUME CursorAssumption ==
  /\ \A letters \in Rosters : letters # <<>> /\ IsASequence(letters) /\ Distinct(letters)
  /\ \A l \in Layouts :
       /\ l.pills \in Nat /\ l.needs \in Nat /\ IsASequence(l.extras)
       /\ \A i \in DOMAIN l.extras : l.extras[i][1] \notin {"pill", "need", "shelf", "blank"}
  /\ \A c \in Catalogs, letters \in Rosters : \A i \in DOMAIN letters : IsASequence(c[letters[i]])
  /\ FirstAlias \in Nat \ {0} /\ ShownMatches \in Nat /\ MaxMatches \in Nat

VARIABLES layout, catalog, selected, back, view, shelf, pick, matches

cursorVars == <<layout, catalog, selected, back, view, shelf, pick, matches>>

\* "job": what a row opened, to be popped when it returns; "aside": a page
\* without a frame of its own.
Views == {"home", "menu", "filter", "job", "aside", "closed"}
NoShelf == "none"

----------------------------------------------------------------------------
(* The rows. *)

ShelfLetters(l) == IF l.roster = {} THEN Canonical ELSE CHOOSE letters \in l.roster : TRUE

\* Rows are numbered from 0, top-down: pills, needs, the worker's, shelves.
Numbered(kind, n) == [i \in 1 .. n |-> <<kind, i - 1>>]
Lettered(letters) == [i \in DOMAIN letters |-> <<"shelf", letters[i]>>]
Selectables ==
  [l \in Layouts |-> Numbered("pill", l.pills) \o Numbered("need", l.needs) \o l.extras
                       \o Lettered(ShelfLetters(l))]
RowCount(l) == Len(Selectables[l])
RowAt(l, n) == Selectables[l][n + 1]
IndexOf(l, row) == (CHOOSE i \in DOMAIN Selectables[l] : Selectables[l][i] = row) - 1

DefaultSel(l) ==
  IF l.needs > 0 THEN l.pills ELSE 0

\* Between the two columns of the pulse and of the toolkit; elsewhere, and
\* where there is no column to go to, nothing.
MoveHorizontal(l, n, right) ==
  LET row == RowAt(l, n)
      letters == ShelfLetters(l)
      half == (Len(letters) + 1) \div 2
      i == CHOOSE j \in DOMAIN letters : letters[j] = row[2]
      to == IF right THEN i + half ELSE i - half
  IN CASE row[1] = "shelf" /\ (right <=> i <= half) /\ to \in DOMAIN letters ->
            IndexOf(l, <<"shelf", letters[to]>>)
       [] row[1] = "pill" /\ right /\ row[2] % 2 = 0 /\ row[2] + 1 < l.pills ->
            IndexOf(l, <<"pill", row[2] + 1>>)
       [] row[1] = "pill" /\ ~right /\ row[2] % 2 = 1 -> IndexOf(l, <<"pill", row[2] - 1>>)
       [] OTHER -> n

----------------------------------------------------------------------------
(* What is drawn: lines of cells. *)

Blank == <<"blank", "">>
PulseLines(l) ==
  [r \in 1 .. (l.pills + 1) \div 2 |->
     <<<<"pill", 2 * r - 2>>, IF 2 * r - 1 < l.pills THEN <<"pill", 2 * r - 1>> ELSE Blank>>]
NeedsLines(l) == [r \in 1 .. l.needs |-> <<<<"need", r - 1>>>>]
ToolkitLines(l) ==
  LET letters == ShelfLetters(l)
      half == (Len(letters) + 1) \div 2
  IN [r \in 1 .. half |->
        <<<<"shelf", letters[r]>>,
          IF half + r <= Len(letters) THEN <<"shelf", letters[half + r]>> ELSE Blank>>]
Lines == [l \in Layouts |-> PulseLines(l) \o NeedsLines(l) \o ToolkitLines(l)]

CellsOf(l, row) ==
  {cell \in (DOMAIN Lines[l]) \X {1, 2} :
     cell[2] \in DOMAIN Lines[l][cell[1]] /\ Lines[l][cell[1]][cell[2]] = row}

\* The rows of the model an agent reads.
ModelRows(l) == Numbered("pill", l.pills) \o Numbered("need", l.needs) \o Lettered(ShelfLetters(l))

----------------------------------------------------------------------------
(* Home. *)

\* A capture lands, in the background or in place, and the cursor keeps its
\* number as far as the rows go.
Swapped ==
  /\ layout' \in Layouts
  /\ selected' = selected % RowCount(layout')

CaptureLands ==
  /\ view = "home" /\ Swapped
  /\ UNCHANGED <<catalog, back, view, shelf, pick, matches>>

MoveVertical ==
  /\ view = "home"
  /\ LET n == RowCount(layout) IN selected' \in {(selected + 1) % n, (selected + n - 1) % n}
  /\ UNCHANGED <<layout, catalog, back, view, shelf, pick, matches>>

MoveSideways ==
  /\ view = "home"
  /\ \E right \in BOOLEAN : selected' = MoveHorizontal(layout, selected, right)
  /\ UNCHANGED <<layout, catalog, back, view, shelf, pick, matches>>

Push == back' = Append(back, selected)

\* A shelf with nothing returns at once, one with one capability opens it.
OpenShelf(letter) ==
  /\ pick' = 0 /\ UNCHANGED matches
  /\ IF Len(catalog[letter]) > 1 THEN view' = "menu" /\ shelf' = letter
     ELSE view' = "job" /\ UNCHANGED shelf

OpenNothingElse == view' = "job" /\ UNCHANGED <<shelf, pick, matches>>

PressEnter ==
  /\ view = "home"
  /\ Push
  /\ LET row == RowAt(layout, selected)
     IN IF row[1] = "shelf" THEN OpenShelf(row[2]) ELSE OpenNothingElse
  /\ UNCHANGED <<layout, catalog, selected>>

\* A digit opens its need, wherever the cursor is.
PressDigit ==
  /\ view = "home" /\ layout.needs > 0
  /\ Push /\ OpenNothingElse
  /\ UNCHANGED <<layout, catalog, selected>>

\* a and s act on the need under the cursor before they are shelves.
Acknowledges(letter) == RowAt(layout, selected)[1] = "need" /\ letter \in Wired

PressLetter ==
  /\ view = "home"
  /\ \/ /\ \E letter \in Wired : Acknowledges(letter)
        /\ view' = "aside" /\ UNCHANGED <<back, shelf, pick, matches>>
     \/ \E i \in DOMAIN ShelfLetters(layout) :
          /\ ~Acknowledges(ShelfLetters(layout)[i])
          /\ Push /\ OpenShelf(ShelfLetters(layout)[i])
  /\ UNCHANGED <<layout, catalog, selected>>

PressHelp ==
  /\ view = "home"
  /\ view' = "aside"
  /\ UNCHANGED <<layout, catalog, selected, back, shelf, pick, matches>>

PressSlash ==
  /\ view = "home"
  /\ Push
  /\ view' = "filter" /\ pick' = 0 /\ matches' = 0
  /\ UNCHANGED <<layout, catalog, selected, shelf>>

\* Back to a Home left behind, with the cursor it had there, if there is one.
PressBackspace ==
  /\ view = "home"
  /\ IF back = <<>> THEN UNCHANGED <<layout, selected, back>>
     ELSE /\ back' = SubSeq(back, 1, Len(back) - 1)
          /\ layout' \in Layouts /\ selected' = back[Len(back)] % RowCount(layout')
  /\ UNCHANGED <<catalog, view, shelf, pick, matches>>

PressQuit ==
  /\ view = "home" /\ view' = "closed"
  /\ UNCHANGED <<layout, catalog, selected, back, shelf, pick, matches>>

----------------------------------------------------------------------------
(* The views a key opened. *)

\* A bug to find: the frame of a view stays on the stack.
Pop_Leaks == UNCHANGED back

Pop == back' = SubSeq(back, 1, Len(back) - 1)

\* The view returns to Home, which captures anew.
ReturnHome ==
  /\ Pop /\ Swapped
  /\ view' = "home" /\ shelf' = NoShelf
  /\ UNCHANGED <<pick, matches>>

AsideEnds ==
  /\ view = "aside"
  /\ view' = "home" /\ Swapped
  /\ UNCHANGED <<catalog, back, shelf, pick, matches>>

\* A job may have changed the registry: back to the menu it was opened from,
\* with the cursor on a row there still is, or to Home.
JobEnds ==
  /\ view = "job"
  /\ catalog' \in Catalogs
  /\ IF shelf # NoShelf /\ catalog'[shelf] # <<>>
     THEN /\ view' = "menu"
          /\ pick' = IF pick <= Len(catalog'[shelf]) THEN pick ELSE Len(catalog'[shelf])
          /\ UNCHANGED <<layout, selected, back, shelf, matches>>
     ELSE ReturnHome

\* The job leaves the terminal for a shell command; the cockpit opens afresh.
ShellsOut ==
  /\ view = "job"
  /\ view' = "home" /\ back' = <<>> /\ shelf' = NoShelf
  /\ layout' \in Layouts /\ selected' = DefaultSel(layout')
  /\ UNCHANGED <<catalog, pick, matches>>

MenuRows == Len(catalog[shelf])
MenuMove ==
  /\ view = "menu"
  /\ pick' \in {(pick + 1) % (MenuRows + 1), (pick + MenuRows) % (MenuRows + 1)}
  /\ UNCHANGED <<layout, catalog, selected, back, view, shelf, matches>>

\* The keys that open the row i: its shortcut, or an ordinal no key can be.
HasKey(i) == i \in DOMAIN ShortcutKeys \/ i >= FirstAlias

MenuOpen ==
  /\ view = "menu"
  /\ \E i \in DOMAIN catalog[shelf] :
       /\ pick = i - 1 \/ HasKey(i)
       /\ pick' = i - 1
  /\ view' = "job"
  /\ UNCHANGED <<layout, catalog, selected, back, shelf, matches>>

MenuLeave == view = "menu" /\ ReturnHome /\ UNCHANGED catalog

FilterType ==
  /\ view = "filter"
  /\ matches' \in 0 .. MaxMatches /\ pick' = 0
  /\ UNCHANGED <<layout, catalog, selected, back, view, shelf>>

FilterMove ==
  /\ view = "filter" /\ matches > 0
  /\ pick' \in {(pick + 1) % matches, (pick + matches - 1) % matches}
  /\ UNCHANGED <<layout, catalog, selected, back, view, shelf, matches>>

FilterOpen ==
  /\ view = "filter" /\ matches > 0
  /\ view' = "job"
  /\ UNCHANGED <<layout, catalog, selected, back, shelf, pick, matches>>

FilterLeave == view = "filter" /\ ReturnHome /\ UNCHANGED catalog

----------------------------------------------------------------------------
CursorInit ==
  /\ layout \in Layouts /\ catalog \in Catalogs
  /\ selected = DefaultSel(layout)
  /\ back = <<>> /\ view = "home" /\ shelf = NoShelf /\ pick = 0 /\ matches = 0

CursorNext ==
  \/ CaptureLands \/ MoveVertical \/ MoveSideways \/ PressEnter \/ PressDigit \/ PressLetter
  \/ PressHelp \/ PressSlash \/ PressBackspace \/ PressQuit
  \/ AsideEnds \/ JobEnds \/ ShellsOut
  \/ MenuMove \/ MenuOpen \/ MenuLeave \/ FilterType \/ FilterMove \/ FilterOpen \/ FilterLeave

CursorSpec == CursorInit /\ [][CursorNext]_cursorVars

----------------------------------------------------------------------------
CursorTypeOK ==
  /\ layout \in Layouts /\ catalog \in Catalogs /\ view \in Views
  /\ selected \in 0 .. RowCount(layout) - 1 /\ back \in Seq(Nat)
  /\ pick \in Nat /\ matches \in 0 .. MaxMatches

\* Every cursor is on a row, in the menu the Back row included, whatever a
\* capture or a job has done to the rows.
CursorOnARow ==
  /\ selected < RowCount(layout)
  /\ view = "menu" => pick <= MenuRows
  /\ view = "filter" /\ matches > 0 => pick < matches

\* Whichever way a view ends, its frame is gone: the stack holds the one frame
\* of the view that is open, and on Home Backspace leads nowhere.
OneFramePerView ==
  /\ view \in {"home", "aside"} => back = <<>>
  /\ view \in {"menu", "filter", "job"} => back = <<selected>>

\* The terminal draws the cursor once, and the model an agent reads has its
\* row; the rows of a worker are drawn by the worker.
OneCursorIsDrawn ==
  LET row == RowAt(layout, selected)
      models == ModelRows(layout)
  IN view = "home" /\ row[1] \in {"pill", "need", "shelf"} =>
       /\ Cardinality(CellsOf(layout, row)) = 1
       /\ \E i \in DOMAIN models : models[i] = row

\* Left and right go to the cell drawn beside the cursor's, and nowhere when
\* there is none.
NeighbourIsDrawn ==
  LET here == RowAt(layout, selected)
  IN view = "home" => \A right \in BOOLEAN :
       LET beside == {Lines[layout][cell[1]][3 - cell[2]] :
                        cell \in {c \in CellsOf(layout, here) :
                                  c[2] = (IF right THEN 1 ELSE 2) /\ Len(Lines[layout][c[1]]) = 2}}
           to == RowAt(layout, MoveHorizontal(layout, selected, right))
       IN to = (IF beside \subseteq {Blank} THEN here ELSE CHOOSE row \in beside : TRUE)

\* The cursor is where the operator sees it.
CursorSafe == CursorOnARow /\ OneFramePerView /\ NeighbourIsDrawn /\ OneCursorIsDrawn

\* Not so in the filter: it draws its first matches only, and the cursor may
\* stand on, and Enter open, one that is not drawn.
FilterCursorIsDrawn == view = "filter" /\ matches > 0 => pick < ShownMatches
=============================================================================
