----------------------------- MODULE ThreadMemory -----------------------------
(***************************************************************************)
(* One persona's transcript of one space (chat_memory.py, ThreadTranscript *)
(* over private_memory.py, PrivateScope): a turn is a file of its own; the *)
(* oldest are folded into a rolling summary that says through which index  *)
(* it goes.                                                                *)
(*                                                                         *)
(* The files of a transcript are a record: turns, summary, through (-1:    *)
(* nothing was folded).  A turn's text is the exchange it belongs to.  A   *)
(* write is atomic (a temporary file, renamed), a sequence of them is not. *)
(* A reading is best-effort: it goes by a view, the files that could be    *)
(* read when it was loaded.                                                *)
(***************************************************************************)
EXTENDS Integers, Sequences, FiniteSets, SequencesExt

CONSTANTS
  Exchanges,   \* what a turn can be about
  MaxTurns,    \* MAX_TURNS_ON_DISK
  KeepTurns,   \* KEEP_TURNS
  SummaryMax,  \* SUMMARY_MAX_CHARS, in lines
  MaxUnread    \* bound: turns that a view may miss

(* The constructor's own checks.                                            *)
ASSUME TurnsAssumption ==
  /\ MaxTurns \in Nat /\ KeepTurns \in Nat /\ SummaryMax \in Nat /\ MaxUnread \in Nat
  /\ 2 <= KeepTurns /\ KeepTurns < MaxTurns /\ 1 <= SummaryMax

Roles == {"user", "persona"}
Lines == [role : Roles, of : Exchanges]
Turns == [idx : Nat, line : Lines]
Transcripts == [turns : SUBSET Turns, summary : Seq(Lines), through : Nat \cup {-1}]

NoThread == [turns |-> {}, summary |-> <<>>, through |-> -1]

Delete(d, S) == [d EXCEPT !.turns = @ \ S]

(* What a view of the files shows: them all, if they can all be read; a     *)
(* turn or a summary that cannot is as if it were not there.                *)
Views(d, read) ==
  IF read THEN {d}
  ELSE {Delete([h EXCEPT !.turns = d.turns], S) :
          S \in {T \in SUBSET d.turns : Cardinality(T) <= MaxUnread}, h \in {d, NoThread}}
Summaries(d, read) == {v.summary : v \in {d} \cup IF read THEN {} ELSE {NoThread}}

(* One above every index that is seen to be used, folded ones included.     *)
Used(v) == {t.idx : t \in v.turns} \cup {v.through}
NextIndex(v) == (CHOOSE i \in Used(v) : \A j \in Used(v) : j <= i) + 1

(* Mutant: folded turns are replayed until they are swept.                  *)
Unfolded_All(d) == d.turns

Unfolded(d) == {t \in d.turns : t.idx > d.through}

Nth(S, i) == CHOOSE t \in S : Cardinality({u \in S : u.idx <= t.idx}) = i
LinesOf(S) == [i \in 1..Cardinality(S) |-> Nth(S, i).line]

Newest(s, n) == SubSeq(s, (IF Len(s) > n THEN Len(s) - n ELSE 0) + 1, Len(s))

(* recent, and context: what the model is shown.                            *)
Recent(d, limit) == Newest(LinesOf(Unfolded(d)), limit)

-----------------------------------------------------------------------------
(* record *)

(* The file of an index is one: a turn of that index is overwritten.        *)
Write(d, i, line) ==
  [d EXCEPT !.turns = {t \in @ : t.idx # i} \cup {[idx |-> i, line |-> line]}]

Folded(v) == v.turns \ Unfolded(v)
Sweep(d, v) == Delete(d, Folded(v))

Folding(v) == Cardinality(Unfolded(v)) > MaxTurns

ToFold(v) ==
  {t \in Unfolded(v) : Cardinality({u \in Unfolded(v) : u.idx > t.idx}) >= KeepTurns}

(* Mutant: the summary says less than it holds.                             *)
Fold_OffByOne(d, v, old) ==
  LET last == CHOOSE t \in ToFold(v) : \A u \in ToFold(v) : u.idx <= t.idx
  IN [d EXCEPT !.summary = Newest(old \o LinesOf(ToFold(v)), SummaryMax),
               !.through = last.idx - 1]

(* What was read of the summary, and the turns it now goes through, oldest  *)
(* lines dropped.                                                           *)
Fold(d, v, old) ==
  LET last == CHOOSE t \in ToFold(v) : \A u \in ToFold(v) : u.idx <= t.idx
  IN [d EXCEPT !.summary = Newest(old \o LinesOf(ToFold(v)), SummaryMax),
               !.through = last.idx]

(* The files after some of a deletion, in index order, of the turns in S.   *)
CutShort(d, S) == {Delete(d, {u \in S : u.idx < t.idx}) : t \in S}

(* The sweep of what an earlier deletion left, and the view the compaction  *)
(* goes by: the sweep's own, unless it deleted something.                   *)
Swept(w, read) ==
  UNION {LET s == Sweep(w, v)
         IN {<<s, u>> : u \in IF s = w THEN {v} ELSE Views(s, read)} : v \in Views(w, read)}

Compacted(d, v, read) ==
  IF Folding(v) THEN {Delete(Fold(d, v, old), ToFold(v)) : old \in Summaries(d, read)} ELSE {d}

(* What the record of a line at an index leaves.                            *)
Recorded(d, i, line, read) ==
  UNION {Compacted(s[1], s[2], read) : s \in Swept(Write(d, i, line), read)}

(* What it may leave when it raises, the turn written: a sweep, the summary *)
(* or the deletion of what it folded fails.                                 *)
HalfCompacted(d, v, read) ==
  IF Folding(v)
  THEN {d} \cup UNION {CutShort(Fold(d, v, old), ToFold(v)) : old \in Summaries(d, read)}
  ELSE {}
HalfRecorded(d, i, line, read) ==
  LET w == Write(d, i, line)
  IN (UNION {CutShort(w, Folded(v)) : v \in Views(w, read)})
     \cup (UNION {HalfCompacted(s[1], s[2], read) : s \in Swept(w, read)})

(* forget *)
Forget(d, i) == [d EXCEPT !.turns = {t \in @ : t.idx # i}]

(* The whole conversation as the transcript holds it.                       *)
Conversation(d) == d.summary \o LinesOf(Unfolded(d))
==============================================================================
