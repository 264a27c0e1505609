------------------------------ MODULE Keyboard ------------------------------
(***************************************************************************)
(* The raw keyboard of keys.py as values.  A terminal is the queue the     *)
(* kernel holds and the one byte the reader pushed back; a press is what   *)
(* was typed and the page it was typed on.  The bytes are told apart by    *)
(* what the screens do with them: "yes" (Enter, y, a), "fix" (a remedy's   *)
(* key), "no" (any other character), "esc", "arrow" (an escape sequence    *)
(* whose bytes came together) and "lead" (the first byte of a character    *)
(* whose other bytes did not come).                                        *)
(***************************************************************************)
EXTENDS Sequences

Bytes == {"yes", "fix", "no", "esc", "arrow", "lead"}

EmptyTerminal == [tty |-> <<>>, push |-> <<>>]

Typed(t, byte, page) == [t EXCEPT !.tty = Append(@, [byte |-> byte, page |-> page])]

\* What a read sees, in order.
Pending(t) == t.push \o t.tty

\* What is left of a press whose first byte is gone: of ESC [ A, the rest.
Beheaded(press) ==
  IF press.byte = "arrow" THEN <<[press EXCEPT !.byte = "no"], [press EXCEPT !.byte = "yes"]>>
  ELSE <<>>

\* One token: a character cut short is no key, and the byte that showed it was
\* cut short is kept for the next read; an Esc takes the byte typed right
\* behind it along (an Alt-chord), be it the one that begins a sequence.
ReadKey(t) ==
  LET first == Head(Pending(t))
      rest == Tail(Pending(t))
      behind == IF rest = <<>> THEN <<>> ELSE <<Head(rest)>>
  IN CASE first.byte = "lead" /\ rest # <<>> ->
            [term |-> [tty |-> Tail(rest), push |-> behind], key |-> [first EXCEPT !.byte = "no"]]
       [] first.byte = "esc" /\ rest # <<>> ->
            [term |-> [tty |-> Beheaded(Head(rest)) \o Tail(rest), push |-> <<>>], key |-> first]
       [] OTHER ->
            [term |-> [tty |-> rest, push |-> <<>>],
             key |-> IF first.byte \in {"lead", "arrow"} THEN [first EXCEPT !.byte = "no"] ELSE first]

\* A bug to find: nothing is discarded.
Discarded_Nothing(t) == t

\* tcflush: the kernel's queue goes, the pushed-back byte stays.
Discarded(t) == [t EXCEPT !.tty = <<>>]
=============================================================================
