----------------------------- MODULE ChatProofs -----------------------------
(***************************************************************************)
(* What the chat keeps for every instance of ChatDelivery: a transcript    *)
(* holds what was said (DiskInv, by which lines are folded and which are   *)
(* not), the check for a duplicate and the mark are one critical section   *)
(* (LockInv), a prompt is the thread as it is (PromptInv), turns come in   *)
(* pairs (PairInv, by who is at an exchange), and each step of a thread    *)
(* leaves less of its event to handle (TalkInv, by whose turn it is).      *)
(***************************************************************************)
EXTENDS ChatDelivery, FiniteSetTheorems, SequenceTheorems, WellFoundedInduction, TLAPS

-----------------------------------------------------------------------------
(* The transcript.  What was said of a persona's thread is a sequence of    *)
(* turns with rising indices; the turns a transcript has not folded are the *)
(* last of them.                                                            *)

Rising(s) == \A i, j \in 1..Len(s) : i < j => s[i].idx < s[j].idx

(* The turns of s from the (a+1)-th to the b-th.                            *)
Stretch(s, a, b) == {s[j] : j \in (a + 1)..b}

(* A set of natural numbers has a least one.                                *)
LEMMA LeastOf == ASSUME NEW T, T \subseteq Nat, T # {} PROVE \E m \in T : \A k \in T : m <= k
<1> DEFINE R == OpToRel(<, Nat)
<1>1. IsWellFoundedOn(R, Nat)
  BY NatLessThanWellFounded
<1>2. PICK m \in T : \A k \in T : ~(<<k, m>> \in R)
  <2> HIDE DEF R
  <2> QED BY <1>1, WFMin
<1>3. ASSUME NEW k \in T PROVE m <= k
  <2>1. m \in Nat /\ k \in Nat
    BY <1>2
  <2>2. ~(k < m)
    BY <1>2, <2>1 DEF OpToRel
  <2>3. QED
    BY <2>1, <2>2
<1>4. QED
  BY <1>2, <1>3

(* A function on 1..k is a sequence of k.                                   *)
LEMMA FunIsSeq ==
  ASSUME NEW k \in Nat, NEW S, NEW l \in [1..k -> S]
  PROVE  l \in Seq(S) /\ Len(l) = k
<1>1. l \in Seq(S)
  OBVIOUS
<1>2. QED
  BY <1>1, LenProperties

(* A turn of a rising sequence has its place.                               *)
LEMMA TurnAt ==
  ASSUME NEW s \in Seq(Turns), NEW i \in 1..Len(s)
  PROVE  s[i].idx \in Nat /\ s[i].line \in Lines /\ s[i] = [idx |-> s[i].idx, line |-> s[i].line]
<1>1. s[i] \in Turns
  BY ElementOfSeq
<1>2. QED
  BY <1>1 DEF Turns

(* A turn has one place in a rising sequence.                               *)
LEMMA RisingPlace ==
  ASSUME NEW s \in Seq(Turns), Rising(s), NEW i \in 1..Len(s), NEW j \in 1..Len(s)
  PROVE  /\ s[i].idx <= s[j].idx <=> i <= j
         /\ s[i].idx = s[j].idx => i = j
<1>1. Len(s) \in Nat /\ s[i].idx \in Nat /\ s[j].idx \in Nat
  BY TurnAt, LenProperties
<1>2. i < j => s[i].idx < s[j].idx
  BY DEF Rising
<1>3. j < i => s[j].idx < s[i].idx
  BY DEF Rising
<1>4. i \in Nat /\ j \in Nat
  BY <1>1
<1>5. QED
  BY <1>1, <1>2, <1>3, <1>4

(* A stretch has as many turns as places.                                   *)
LEMMA StretchSize ==
  ASSUME NEW s \in Seq(Turns), Rising(s), NEW a \in Nat, NEW b \in Nat, a <= b, b <= Len(s)
  PROVE  IsFiniteSet(Stretch(s, a, b)) /\ Cardinality(Stretch(s, a, b)) = b - a
<1> DEFINE D == (a + 1)..b
           S == Stretch(s, a, b)
           f == [j \in D |-> s[j]]
<1>1. D \subseteq 1..Len(s)
  BY LenProperties
<1>2. f \in [D -> S]
  BY DEF Stretch
<1>3. \A i, j \in D : f[i] = f[j] => i = j
  BY <1>1, RisingPlace
<1>4. \A x \in S : \E j \in D : f[j] = x
  BY DEF Stretch
<1>5. f \in Bijection(D, S)
  <2> HIDE DEF f, D, S
  <2>1. IsInjective(f)
    BY <1>2, <1>3 DEF IsInjective
  <2>2. QED
    BY <1>2, <1>4, <2>1 DEF Bijection, Injection, Surjection
<1>6. ExistsBijection(D, S)
  BY <1>5 DEF ExistsBijection
<1>7. IsFiniteSet(D) /\ Cardinality(D) = b - a
  <2>1. a + 1 \in Int /\ b \in Int
    OBVIOUS
  <2>2. Cardinality(D) = IF a + 1 > b THEN 0 ELSE b - (a + 1) + 1
    BY <2>1, FS_Interval
  <2>3. IsFiniteSet(D)
    BY <2>1, FS_Interval
  <2>4. QED
    BY <2>2, <2>3
<1>8. QED
  <2> HIDE DEF D, S, f
  <2>1. IsFiniteSet(S) /\ Cardinality(S) = Cardinality(D)
    BY <1>6, <1>7, FS_Bijection
  <2>2. QED
    BY <1>7, <2>1 DEF S

(* Up to a turn of a stretch, and after it.                                 *)
LEMMA StretchSplits ==
  ASSUME NEW s \in Seq(Turns), Rising(s), NEW a \in Nat, NEW b \in Nat, b <= Len(s),
         NEW k \in (a + 1)..b
  PROVE  /\ {u \in Stretch(s, a, b) : u.idx <= s[k].idx} = Stretch(s, a, k)
         /\ {u \in Stretch(s, a, b) : u.idx > s[k].idx} = Stretch(s, k, b)
<1>1. Len(s) \in Nat /\ k \in 1..Len(s)
  BY LenProperties
<1>2. \A j \in (a + 1)..b : /\ j \in 1..Len(s) /\ s[j].idx \in Nat
                            /\ s[j].idx <= s[k].idx <=> j <= k
  <2> TAKE j \in (a + 1)..b
  <2>1. j \in 1..Len(s)
    BY <1>1
  <2>2. QED
    BY <1>1, <2>1, RisingPlace, TurnAt
<1>3. s[k].idx \in Nat
  BY <1>1, TurnAt
<1>4. \A j \in (a + 1)..b : s[j].idx > s[k].idx <=> j > k
  BY <1>2, <1>3
<1>5. {u \in Stretch(s, a, b) : u.idx <= s[k].idx} = Stretch(s, a, k)
  BY <1>2 DEF Stretch
<1>6. {u \in Stretch(s, a, b) : u.idx > s[k].idx} = Stretch(s, k, b)
  BY <1>4 DEF Stretch
<1>7. QED
  BY <1>5, <1>6

(* The lines of a stretch are in the order in which they were said.         *)
LEMMA StretchLines ==
  ASSUME NEW s \in Seq(Turns), Rising(s), NEW a \in Nat, NEW b \in Nat, a <= b, b <= Len(s)
  PROVE  LinesOf(Stretch(s, a, b)) = [i \in 1..(b - a) |-> s[a + i].line]
<1> DEFINE S == Stretch(s, a, b)
<1>1. Cardinality(S) = b - a
  BY StretchSize
<1>2. ASSUME NEW i \in 1..(b - a) PROVE Nth(S, i) = s[a + i]
  <2>1. \A k \in (a + 1)..b : Cardinality({u \in S : u.idx <= s[k].idx}) = k - a
    <3> TAKE k \in (a + 1)..b
    <3>1. {u \in S : u.idx <= s[k].idx} = Stretch(s, a, k)
      BY StretchSplits
    <3>2. Len(s) \in Nat
      BY LenProperties
    <3>3. k \in Nat /\ a <= k /\ k <= Len(s)
      BY <3>2
    <3>4. QED
      BY <3>1, <3>3, StretchSize
  <2>2. \A t \in S : Cardinality({u \in S : u.idx <= t.idx}) = i <=> t = s[a + i]
    <3> TAKE t \in S
    <3>1. PICK k \in (a + 1)..b : t = s[k]
      BY DEF Stretch
    <3>2. Cardinality({u \in S : u.idx <= t.idx}) = k - a
      BY <2>1, <3>1
    <3>3. k - a = i <=> k = a + i
      OBVIOUS
    <3>4. t = s[a + i] => k = a + i
      <4>1. Len(s) \in Nat
        BY LenProperties
      <4>2. k \in 1..Len(s) /\ a + i \in 1..Len(s)
        BY <4>1
      <4>3. QED
        BY <3>1, <4>2, RisingPlace
    <3>5. QED
      BY <3>1, <3>2, <3>3, <3>4
  <2>3. s[a + i] \in S
    BY DEF Stretch
  <2>4. QED
    <3> HIDE DEF S
    <3> QED BY <2>2, <2>3 DEF Nth
<1>3. QED
  <2> HIDE DEF S
  <2> QED BY <1>1, <1>2 DEF LinesOf, S


-----------------------------------------------------------------------------
(* The next index is beyond every one in use. *)

(* A finite set of numbers has a bound.                                     *)
LEMMA FiniteBound ==
  ASSUME NEW S, IsFiniteSet(S), S \subseteq Nat
  PROVE  \E m \in Nat : \A x \in S : x <= m
<1>1. PICK f \in Bijection(1..Cardinality(S), S) : TRUE
  BY FS_CardinalityType DEF ExistsBijection
<1> DEFINE n == Cardinality(S)
           Bounded(k) == \E m \in Nat : \A j \in 1..k : f[j] <= m
           T == {k \in 0..n : ~Bounded(k)}
<1>2. n \in Nat /\ f \in [1..n -> S] /\ \A x \in S : \E j \in 1..n : f[j] = x
  BY <1>1, FS_CardinalityType DEF Bijection, Surjection, Injection
<1>3. T = {}
  <2> SUFFICES ASSUME T # {} PROVE FALSE
    OBVIOUS
  <2>1. T \subseteq Nat
    BY <1>2
  <2>2. PICK k \in T : \A j \in T : k <= j
    <3> HIDE DEF T
    <3> QED BY <2>1, LeastOf
  <2>3. k \in 0..n /\ ~Bounded(k)
    OBVIOUS
  <2>4. Bounded(0)
    <3>1. 1..0 = {}
      OBVIOUS
    <3>2. \A j \in 1..0 : f[j] <= 0
      BY <3>1
    <3>3. QED
      BY <3>2
  <2>5. k # 0 /\ k \in 0..n /\ k \in 1..n /\ k - 1 \in 0..n
    <3> HIDE DEF Bounded, n
    <3>1. k # 0
      BY <2>3, <2>4
    <3>2. k \in 0..n
      BY <2>3
    <3>3. QED
      BY <1>2, <3>1, <3>2
  <2>6. Bounded(k - 1)
    <3>1. ~(k <= k - 1)
      BY <1>2, <2>5
    <3>2. k - 1 \notin T
      BY <2>2, <3>1
    <3>3. QED
      BY <2>5, <3>2
  <2>7. PICK m \in Nat : \A j \in 1..(k - 1) : f[j] <= m
    BY <2>6
  <2>8. k \in 1..n /\ k \in Nat /\ f[k] \in Nat
    <3> HIDE DEF n
    <3>1. k \in 1..n /\ k \in Nat
      BY <1>2, <2>5
    <3>2. f[k] \in S
      BY <1>2, <3>1
    <3>3. QED
      BY <3>1, <3>2
  <2>9. \A j \in 1..k : f[j] <= m + f[k]
    <3> HIDE DEF n, T, Bounded
    <3> TAKE j \in 1..k
    <3>1. CASE j = k
      BY <2>7, <2>8, <3>1
    <3>2. CASE j # k
      <4>1. j \in 1..(k - 1)
        BY <2>8, <3>2
      <4>2. j \in 1..n
        BY <1>2, <2>8
      <4>3. f[j] <= m /\ f[j] \in Nat
        BY <1>2, <2>7, <4>1, <4>2
      <4>4. QED
        BY <2>7, <2>8, <4>3
    <3>3. QED
      BY <3>1, <3>2
  <2>10. m + f[k] \in Nat
    <3> HIDE DEF T, Bounded, n
    <3> QED BY <2>7, <2>8
  <2>11. Bounded(k)
    BY <2>9, <2>10
  <2>12. QED
    BY <2>3, <2>11
<1>4. Bounded(n)
  <2>1. n \notin T /\ n \in 0..n
    BY <1>2, <1>3
  <2>2. QED
    BY <2>1
<1>5. PICK m \in Nat : \A j \in 1..n : f[j] <= m
  BY <1>4
<1>6. \A x \in S : x <= m
  BY <1>2, <1>5
<1>7. QED
  BY <1>6

(* So it has a greatest element, if any.                                    *)
LEMMA GreatestOf ==
  ASSUME NEW S, IsFiniteSet(S), S \subseteq Nat, S # {}
  PROVE  \E g \in S : \A x \in S : x <= g
<1> DEFINE T == {m \in Nat : \A x \in S : x <= m}
<1>1. T # {} /\ T \subseteq Nat
  BY FiniteBound
<1>2. PICK g \in T : \A m \in T : g <= m
  <2> HIDE DEF T
  <2> QED BY <1>1, LeastOf
<1>3. g \in Nat /\ \A x \in S : x <= g
  OBVIOUS
<1>4. g \in S
  <2> SUFFICES ASSUME g \notin S PROVE FALSE
    OBVIOUS
  <2>1. \A x \in S : x <= g - 1
    BY <1>3
  <2>2. PICK x \in S : TRUE
    OBVIOUS
  <2>3. g - 1 \in Nat
    BY <1>3, <2>1, <2>2
  <2>4. g - 1 \in T
    BY <2>1, <2>3
  <2>5. g <= g - 1
    BY <1>2, <2>4
  <2>6. QED
    BY <1>3, <2>5
<1>5. QED
  BY <1>3, <1>4

(* A transcript as its files can be.                                        *)
Stored(d) == d \in Transcripts /\ IsFiniteSet(d.turns)

(* The fields of a stored transcript.                                       *)
LEMMA StoredParts ==
  ASSUME NEW d, Stored(d)
  PROVE  /\ d = [turns |-> d.turns, summary |-> d.summary, through |-> d.through]
         /\ d.turns \subseteq Turns /\ IsFiniteSet(d.turns)
         /\ d.summary \in Seq(Lines)
         /\ d.through \in Int /\ d.through >= -1
BY DEF Stored, Transcripts

(* The next index is above every one that was used.                         *)
LEMMA NextIsBeyond ==
  ASSUME NEW d, Stored(d)
  PROVE  /\ NextIndex(d) \in Nat /\ NextIndex(d) > d.through
         /\ \A t \in d.turns : NextIndex(d) > t.idx
<1> DEFINE S == {t.idx : t \in d.turns}
           U == Used(d)
           V == {i + 1 : i \in U}
<1>1. d.turns \subseteq Turns /\ IsFiniteSet(d.turns) /\ d.through \in Int /\ d.through >= -1
  BY StoredParts
<1>2. \A i \in U : i \in Int /\ i + 1 \in Nat
  BY <1>1 DEF Used, Turns
<1>3. IsFiniteSet(V)
  <2> DEFINE W == {t.idx + 1 : t \in d.turns}
  <2>1. IsFiniteSet(W)
    <3> DEFINE f == [t \in d.turns |-> t.idx + 1]
    <3>1. f \in Surjection(d.turns, W)
      BY DEF Surjection
    <3>2. QED
      <4> HIDE DEF f, W
      <4> QED BY <1>1, <3>1, FS_Surjection
  <2>2. V = W \cup {d.through + 1}
    BY DEF Used
  <2>3. QED
    <3> HIDE DEF V, W
    <3> QED BY <2>1, <2>2, FS_AddElement
<1>4. V \subseteq Nat /\ V # {}
  BY <1>2 DEF Used
<1>5. PICK g \in V : \A x \in V : x <= g
  <2> HIDE DEF V
  <2> QED BY <1>3, <1>4, GreatestOf
<1>6. PICK j \in U : g = j + 1
  OBVIOUS
<1>7. \A i \in U : i <= j
  <2> TAKE i \in U
  <2>1. i + 1 \in V
    OBVIOUS
  <2>2. i + 1 <= j + 1
    BY <1>5, <1>6, <2>1
  <2>3. QED
    BY <1>2, <2>2
<1> DEFINE top == CHOOSE i \in U : \A k \in U : k <= i
<1>8. top \in U /\ \A k \in U : k <= top
  <2> HIDE DEF U
  <2> QED BY <1>7
<1>9. NextIndex(d) = top + 1
  BY DEF NextIndex
<1>10. d.through \in U /\ \A t \in d.turns : t.idx \in U
  BY DEF Used
<1>11. QED
  <2> HIDE DEF U, top
  <2> QED BY <1>2, <1>8, <1>9, <1>10


-----------------------------------------------------------------------------
(* A transcript holds what was said. *)

(* c is the last lines of the first n turns of s.                           *)
Ends(c, s, n) == Len(c) <= n /\ \A i \in 1..Len(c) : c[i] = s[n - Len(c) + i].line

(* The first n turns of s are folded, and the others are not.               *)
FoldedTo(d, s, n) ==
  /\ \A i \in 1..n : s[i].idx <= d.through
  /\ \A i \in (n + 1)..Len(s) : s[i].idx > d.through
  /\ Unfolded(d) = Stretch(s, n, Len(s))
  /\ Ends(d.summary, s, n)
  /\ Len(d.summary) = n \/ Len(d.summary) = SummaryMax

Holds(d, s) ==
  /\ Stored(d) /\ s \in Seq(Turns) /\ Rising(s)
  /\ \E n \in 0..Len(s) : FoldedTo(d, s, n)

(* An empty thread holds nothing.                                           *)
LEMMA NothingHeld == Holds(NoThread, <<>>)
<1>1. Stored(NoThread)
  <2>1. NoThread.turns = {} /\ NoThread.summary = <<>> /\ NoThread.through = -1
    BY DEF NoThread
  <2>2. <<>> \in Seq(Lines)
    BY EmptySeq
  <2>3. NoThread \in Transcripts
    BY <2>2 DEF NoThread, Transcripts
  <2>4. QED
    BY <2>1, <2>3, FS_EmptySet DEF Stored
<1>2. <<>> \in Seq(Turns) /\ Len(<<>>) = 0
  BY EmptySeq
<1>3. Rising(<<>>)
  BY <1>2 DEF Rising
<1>4. FoldedTo(NoThread, <<>>, 0)
  BY <1>2 DEF FoldedTo, NoThread, Unfolded, Stretch, Ends
<1>5. QED
  BY <1>1, <1>2, <1>3, <1>4 DEF Holds

(* A turn that is written is said last.                                     *)
LEMMA WriteHolds ==
  ASSUME NEW d, NEW s, Holds(d, s), NEW role \in Roles, NEW x \in Exchanges,
         NEW u, u = [idx |-> NextIndex(d), line |-> [role |-> role, of |-> x]]
  PROVE  Holds(Write(d, u.idx, u.line), Append(s, u))
<1> DEFINE w == Write(d, u.idx, u.line)
           r == Append(s, u)
<1>1. /\ Stored(d) /\ s \in Seq(Turns) /\ Rising(s)
      /\ d.turns \subseteq Turns /\ IsFiniteSet(d.turns) /\ d.summary \in Seq(Lines)
      /\ d = [turns |-> d.turns, summary |-> d.summary, through |-> d.through]
      /\ d.through \in Int
  BY StoredParts DEF Holds
<1>2. PICK n \in 0..Len(s) : FoldedTo(d, s, n)
  BY DEF Holds
<1>3. /\ NextIndex(d) \in Nat /\ NextIndex(d) > d.through
      /\ \A t \in d.turns : NextIndex(d) > t.idx
  BY <1>1, NextIsBeyond
<1>4. u \in Turns /\ u.idx = NextIndex(d)
  BY <1>3 DEF Turns, Lines
<1>5. /\ w = [d EXCEPT !.turns = d.turns \cup {u}]
      /\ w.turns = d.turns \cup {u} /\ w.summary = d.summary /\ w.through = d.through
  <2>1. {t \in d.turns : t.idx # u.idx} = d.turns
    BY <1>1, <1>3, <1>4 DEF Turns
  <2>2. u = [idx |-> u.idx, line |-> u.line]
    OBVIOUS
  <2>3. w = [d EXCEPT !.turns = d.turns \cup {u}]
    BY <2>1, <2>2 DEF Write
  <2>4. QED
    BY <1>1, <2>3
<1>6. Stored(w)
  <2>1. w \in Transcripts
    <3>1. w = [turns |-> d.turns \cup {u}, summary |-> d.summary, through |-> d.through]
      <4>1. w = [d EXCEPT !.turns = d.turns \cup {u}]
        BY <1>5
      <4>2. QED
        <5> HIDE DEF w
        <5> QED BY <1>1, <4>1
    <3>2. d.through \in Nat \cup {-1}
      BY <1>1 DEF Stored, Transcripts
    <3>3. QED
      BY <1>1, <1>4, <3>1, <3>2 DEF Transcripts
  <2>2. IsFiniteSet(d.turns \cup {u})
    BY <1>1, FS_AddElement
  <2>3. QED
    BY <1>5, <2>1, <2>2 DEF Stored
<1>7. /\ r \in Seq(Turns) /\ Len(r) = Len(s) + 1 /\ Len(s) \in Nat
      /\ \A i \in 1..Len(s) : r[i] = s[i]
      /\ r[Len(s) + 1] = u
  <2>1. Len(s) \in Nat
    BY <1>1, LenProperties
  <2>2. QED
    BY <1>1, <1>4, <2>1, AppendProperties
<1>8. n \in Nat /\ n <= Len(s)
  BY <1>7
<1>9. \A i \in 1..Len(s) : s[i].idx < u.idx /\ s[i].idx \in Nat
  <2> TAKE i \in 1..Len(s)
  <2>1. s[i].idx \in Nat
    BY <1>1, TurnAt
  <2>2. CASE i <= n
    <3>1. s[i].idx <= d.through
      <4>1. i \in 1..n
        BY <1>8, <2>2
      <4>2. QED
        BY <1>2, <4>1 DEF FoldedTo
    <3>2. QED
      BY <1>1, <1>3, <1>4, <2>1, <3>1
  <2>3. CASE i > n
    <3>1. s[i] \in Stretch(s, n, Len(s))
      <4>1. i \in (n + 1)..Len(s)
        BY <1>8, <2>3
      <4>2. QED
        BY <4>1 DEF Stretch
    <3>2. s[i] \in d.turns
      BY <1>2, <3>1 DEF FoldedTo, Unfolded
    <3>3. QED
      BY <1>3, <1>4, <2>1, <3>2
  <2>4. QED
    BY <1>7, <1>8, <2>2, <2>3
<1>10. Rising(r)
  <2> SUFFICES ASSUME NEW i \in 1..Len(r), NEW j \in 1..Len(r), i < j
               PROVE  r[i].idx < r[j].idx
    BY DEF Rising
  <2>1. i \in 1..Len(s)
    BY <1>7
  <2>2. CASE j = Len(s) + 1
    BY <1>7, <1>9, <2>1, <2>2
  <2>3. CASE j # Len(s) + 1
    <3>1. j \in 1..Len(s)
      BY <1>7, <2>3
    <3>2. QED
      BY <1>1, <1>7, <2>1, <3>1 DEF Rising
  <2>4. QED
    BY <2>2, <2>3
<1>11. FoldedTo(w, r, n)
  <2>1. \A i \in 1..n : r[i].idx <= w.through
    <3> TAKE i \in 1..n
    <3>1. i \in 1..Len(s)
      BY <1>8
    <3>2. QED
      BY <1>2, <1>5, <1>7, <3>1 DEF FoldedTo
  <2>2. \A i \in (n + 1)..Len(r) : r[i].idx > w.through
    <3> TAKE i \in (n + 1)..Len(r)
    <3>1. CASE i = Len(s) + 1
      BY <1>3, <1>4, <1>5, <1>7, <3>1
    <3>2. CASE i # Len(s) + 1
      <4>1. i \in (n + 1)..Len(s) /\ i \in 1..Len(s)
        BY <1>7, <1>8, <3>2
      <4>2. QED
        BY <1>2, <1>5, <1>7, <4>1 DEF FoldedTo
    <3>3. QED
      BY <3>1, <3>2
  <2>3. Unfolded(w) = Stretch(r, n, Len(r))
    <3>1. Unfolded(w) = Unfolded(d) \cup {u}
      BY <1>3, <1>4, <1>5 DEF Unfolded
    <3>2. Stretch(r, n, Len(r)) = Stretch(s, n, Len(s)) \cup {u}
      <4>1. \A j : j \in (n + 1)..Len(r) <=> j \in (n + 1)..Len(s) \/ j = Len(s) + 1
        BY <1>7, <1>8
      <4>2. \A j \in (n + 1)..Len(s) : r[j] = s[j]
        BY <1>7, <1>8
      <4>3. QED
        BY <1>7, <4>1, <4>2 DEF Stretch
    <3>3. QED
      BY <1>2, <3>1, <3>2 DEF FoldedTo
  <2>4. Ends(w.summary, r, n)
    <3>1. Len(d.summary) \in Nat
      BY <1>1, LenProperties
    <3>2. Ends(d.summary, s, n)
      BY <1>2 DEF FoldedTo
    <3>3. \A i \in 1..Len(d.summary) : n - Len(d.summary) + i \in 1..Len(s)
      BY <1>7, <1>8, <3>1, <3>2 DEF Ends
    <3>4. QED
      BY <1>5, <1>7, <3>2, <3>3 DEF Ends
  <2>5. QED
    BY <1>2, <1>5, <2>1, <2>2, <2>3, <2>4 DEF FoldedTo
<1>12. n \in 0..Len(r)
  BY <1>7, <1>8
<1>13. QED
  BY <1>6, <1>7, <1>10, <1>11, <1>12 DEF Holds

(* Deleting turns that were folded leaves what is held.                     *)
LEMMA TrimHolds ==
  ASSUME NEW d, NEW s, Holds(d, s), NEW T, T \subseteq d.turns, T \cap Unfolded(d) = {},
         NEW e, e = Delete(d, T)
  PROVE  Holds(e, s) /\ Unfolded(e) = Unfolded(d)
<1>1. /\ Stored(d) /\ s \in Seq(Turns) /\ Rising(s)
      /\ d.turns \subseteq Turns /\ IsFiniteSet(d.turns) /\ d.summary \in Seq(Lines)
      /\ d = [turns |-> d.turns, summary |-> d.summary, through |-> d.through]
  BY StoredParts DEF Holds
<1>2. e = [turns |-> d.turns \ T, summary |-> d.summary, through |-> d.through]
  BY <1>1 DEF Delete
<1>3. Stored(e)
  <2>1. d.through \in Nat \cup {-1}
    BY <1>1 DEF Stored, Transcripts
  <2>2. e \in Transcripts
    BY <1>1, <1>2, <2>1 DEF Transcripts
  <2>3. IsFiniteSet(d.turns \ T)
    BY <1>1, FS_Subset
  <2>4. QED
    BY <1>2, <2>2, <2>3 DEF Stored
<1>4. Unfolded(e) = Unfolded(d)
  BY <1>2 DEF Unfolded
<1>5. PICK n \in 0..Len(s) : FoldedTo(d, s, n)
  BY DEF Holds
<1>6. FoldedTo(e, s, n)
  BY <1>2, <1>4, <1>5 DEF FoldedTo
<1>7. QED
  BY <1>1, <1>3, <1>4, <1>6 DEF Holds


(* The oldest turns that are not folded are those to fold.                  *)
LEMMA FoldsTheOldest ==
  ASSUME NEW d, NEW s, Holds(d, s), NEW n \in 0..Len(s), FoldedTo(d, s, n), Folding(d)
  PROVE  /\ Len(s) - KeepTurns \in Nat /\ n < Len(s) - KeepTurns
         /\ ToFold(d) = Stretch(s, n, Len(s) - KeepTurns)
<1> DEFINE m == Len(s)
           q == m - KeepTurns
<1>1. s \in Seq(Turns) /\ Rising(s) /\ m \in Nat
  BY LenProperties DEF Holds
<1>2. Unfolded(d) = Stretch(s, n, m)
  BY DEF FoldedTo
<1>3. n \in Nat /\ n <= m
  BY <1>1
<1>4. Cardinality(Unfolded(d)) = m - n
  BY <1>1, <1>2, <1>3, StretchSize
<1>5. KeepTurns \in Nat /\ MaxTurns \in Nat /\ KeepTurns < MaxTurns /\ m - n > MaxTurns
  BY <1>4, TurnsAssumption DEF Folding
<1>6. q \in Nat /\ n < q /\ q <= m
  <2> HIDE DEF m
  <2> QED BY <1>1, <1>3, <1>5
<1>7. \A k \in (n + 1)..m :
        Cardinality({u \in Stretch(s, n, m) : u.idx > s[k].idx}) >= KeepTurns <=> k <= q
  <2> TAKE k \in (n + 1)..m
  <2>1. {u \in Stretch(s, n, m) : u.idx > s[k].idx} = Stretch(s, k, m)
    BY <1>1, <1>3, StretchSplits
  <2>2. k \in Nat /\ k <= m
    BY <1>1, <1>3
  <2>3. Cardinality(Stretch(s, k, m)) = m - k
    BY <1>1, <2>2, StretchSize
  <2>4. m - k >= KeepTurns <=> k <= q
    <3> HIDE DEF m
    <3> QED BY <1>1, <1>5, <2>2
  <2>5. QED
    BY <2>1, <2>3, <2>4
<1>8. ToFold(d) = Stretch(s, n, q)
  <2>1. ToFold(d) = {t \in Stretch(s, n, m) :
                       Cardinality({u \in Stretch(s, n, m) : u.idx > t.idx}) >= KeepTurns}
    BY <1>2 DEF ToFold
  <2>2. \A k : k \in (n + 1)..q <=> k \in (n + 1)..m /\ k <= q
    BY <1>3, <1>6, <1>1
  <2>3. ASSUME NEW t \in ToFold(d) PROVE t \in Stretch(s, n, q)
    <3>1. PICK k \in (n + 1)..m : t = s[k]
      BY <2>1, <2>3 DEF Stretch
    <3>2. k <= q
      BY <1>7, <2>1, <2>3, <3>1
    <3>3. QED
      BY <2>2, <3>1, <3>2 DEF Stretch
  <2>4. ASSUME NEW t \in Stretch(s, n, q) PROVE t \in ToFold(d)
    <3>1. PICK k \in (n + 1)..q : t = s[k]
      BY <2>4 DEF Stretch
    <3>2. k \in (n + 1)..m /\ k <= q
      BY <2>2
    <3>3. t \in Stretch(s, n, m)
      BY <3>1, <3>2 DEF Stretch
    <3>4. QED
      BY <1>7, <2>1, <3>1, <3>2, <3>3
  <2>5. QED
    BY <2>3, <2>4
<1>9. QED
  BY <1>6, <1>8

(* The newest of some last lines are last lines.                            *)
LEMMA NewestEnds ==
  ASSUME NEW c \in Seq(Lines), NEW s, NEW n \in Nat, Ends(c, s, n), NEW k \in Nat
  PROVE  /\ Newest(c, k) \in Seq(Lines) /\ Ends(Newest(c, k), s, n)
         /\ Len(Newest(c, k)) = IF Len(c) > k THEN k ELSE Len(c)
<1> DEFINE a == IF Len(c) > k THEN Len(c) - k ELSE 0
           e == Newest(c, k)
<1>1. Len(c) \in Nat /\ \A i \in 1..Len(c) : c[i] \in Lines
  BY LenProperties, ElementOfSeq
<1>2. a \in Nat /\ a <= Len(c) /\ Len(c) - a = IF Len(c) > k THEN k ELSE Len(c)
  BY <1>1
<1>3. e = SubSeq(c, a + 1, Len(c))
  BY DEF Newest
<1> HIDE DEF a, e
<1>4. a + 1 \in Int /\ Len(c) \in Int /\ \A i \in (a + 1)..Len(c) : c[i] \in Lines
  BY <1>1, <1>2
<1>5. /\ e \in Seq(Lines)
      /\ Len(e) = IF a + 1 <= Len(c) THEN Len(c) - (a + 1) + 1 ELSE 0
      /\ \A i \in 1..(Len(c) - (a + 1) + 1) : e[i] = c[a + 1 + i - 1]
  BY <1>3, <1>4, SubSeqProperties
<1>6. Len(e) = Len(c) - a
  BY <1>1, <1>2, <1>5
<1>7. \A i \in 1..Len(e) : e[i] = c[a + i]
  <2> TAKE i \in 1..Len(e)
  <2>1. i \in 1..(Len(c) - (a + 1) + 1) /\ a + 1 + i - 1 = a + i
    BY <1>1, <1>2, <1>6
  <2>2. QED
    BY <1>5, <2>1
<1>8. Ends(e, s, n)
  <2>1. Len(c) <= n /\ \A i \in 1..Len(c) : c[i] = s[n - Len(c) + i].line
    BY DEF Ends
  <2>2. Len(e) <= n
    BY <1>1, <1>2, <1>6, <2>1
  <2>3. \A i \in 1..Len(e) : e[i] = s[n - Len(e) + i].line
    <3> TAKE i \in 1..Len(e)
    <3>1. a + i \in 1..Len(c) /\ n - Len(c) + (a + i) = n - Len(e) + i
      BY <1>1, <1>2, <1>6
    <3>2. c[a + i] = s[n - Len(c) + (a + i)].line
      BY <2>1, <3>1
    <3>3. QED
      BY <1>7, <3>1, <3>2
  <2>4. QED
    BY <2>2, <2>3 DEF Ends
<1>9. QED
  BY <1>2, <1>5, <1>6, <1>8 DEF e

(* Last lines with those of the turns that follow are last lines.           *)
LEMMA StretchEnds ==
  ASSUME NEW s \in Seq(Turns), NEW n \in Nat, NEW q \in Nat, n <= q, q <= Len(s),
         NEW c \in Seq(Lines), Ends(c, s, n),
         NEW l, l = [i \in 1..(q - n) |-> s[n + i].line]
  PROVE  /\ c \o l \in Seq(Lines) /\ Len(c \o l) = Len(c) + (q - n)
         /\ Ends(c \o l, s, q)
<1>1. Len(s) \in Nat /\ Len(c) \in Nat
  BY LenProperties
<1>2. l \in Seq(Lines) /\ Len(l) = q - n
  <2>1. q - n \in Nat
    OBVIOUS
  <2>2. \A i \in 1..(q - n) : s[n + i].line \in Lines
    <3> TAKE i \in 1..(q - n)
    <3>1. n + i \in 1..Len(s)
      BY <1>1
    <3>2. QED
      BY <3>1, TurnAt
  <2> DEFINE k == q - n
  <2>3. l \in [1..k -> Lines] /\ k \in Nat
    BY <2>1, <2>2
  <2> HIDE DEF k
  <2>4. l \in Seq(Lines) /\ Len(l) = k
    BY <2>3, FunIsSeq
  <2>5. QED
    BY <2>4 DEF k
<1>3. /\ c \o l \in Seq(Lines) /\ Len(c \o l) = Len(c) + Len(l)
      /\ \A i \in 1..(Len(c) + Len(l)) :
           (c \o l)[i] = IF i <= Len(c) THEN c[i] ELSE l[i - Len(c)]
  BY <1>2, ConcatProperties
<1>4. Len(c) <= n /\ \A i \in 1..Len(c) : c[i] = s[n - Len(c) + i].line
  BY DEF Ends
<1>5. Len(c \o l) <= q
  BY <1>1, <1>2, <1>3, <1>4
<1>6. \A i \in 1..Len(c \o l) : (c \o l)[i] = s[q - Len(c \o l) + i].line
  <2> TAKE i \in 1..Len(c \o l)
  <2>1. q - Len(c \o l) + i = n - Len(c) + i /\ i \in 1..(Len(c) + Len(l))
    BY <1>1, <1>2, <1>3
  <2>2. CASE i <= Len(c)
    <3>1. i \in 1..Len(c)
      BY <1>1, <1>2, <2>1, <2>2
    <3>2. QED
      BY <1>3, <1>4, <2>1, <2>2, <3>1
  <2>3. CASE ~(i <= Len(c))
    <3>1. i - Len(c) \in 1..(q - n) /\ n + (i - Len(c)) = n - Len(c) + i
      BY <1>1, <1>2, <2>1, <2>3
    <3>2. l[i - Len(c)] = s[n + (i - Len(c))].line
      BY <3>1
    <3>3. QED
      BY <1>3, <2>1, <2>3, <3>1, <3>2
  <2>4. QED
    BY <2>2, <2>3
<1>7. QED
  BY <1>2, <1>3, <1>5, <1>6 DEF Ends

(* A compaction loses no turn of what is held, but the oldest lines of a    *)
(* full summary.                                                            *)
LEMMA FoldHolds ==
  ASSUME NEW d, NEW s, Holds(d, s), Folding(d)
  PROVE  /\ Holds(Fold(d, d, d.summary), s)
         /\ ToFold(d) \subseteq Fold(d, d, d.summary).turns
         /\ ToFold(d) \cap Unfolded(Fold(d, d, d.summary)) = {}
<1>1. /\ Stored(d) /\ s \in Seq(Turns) /\ Rising(s)
      /\ d.turns \subseteq Turns /\ IsFiniteSet(d.turns) /\ d.summary \in Seq(Lines)
      /\ d = [turns |-> d.turns, summary |-> d.summary, through |-> d.through]
      /\ d.through \in Int /\ Len(s) \in Nat
  BY StoredParts, LenProperties DEF Holds
<1>2. PICK n \in 0..Len(s) : FoldedTo(d, s, n)
  BY DEF Holds
<1> DEFINE q == Len(s) - KeepTurns
           e == Fold(d, d, d.summary)
           last == CHOOSE t \in ToFold(d) : \A u \in ToFold(d) : u.idx <= t.idx
           l == LinesOf(ToFold(d))
<1>3. KeepTurns \in Nat /\ n \in Nat /\ n <= Len(s)
  BY <1>1, TurnsAssumption
<1>4. q \in Nat /\ n < q /\ q <= Len(s) /\ ToFold(d) = Stretch(s, n, q)
  <2>1. q \in Nat /\ n < q /\ ToFold(d) = Stretch(s, n, q)
    BY <1>2, FoldsTheOldest
  <2>2. QED
    BY <1>1, <1>3, <2>1
<1> HIDE DEF q
<1>5. q \in (n + 1)..q /\ q \in 1..Len(s) /\ s[q] \in ToFold(d)
  <2>1. q \in (n + 1)..q /\ q \in 1..Len(s)
    BY <1>1, <1>3, <1>4
  <2>2. QED
    BY <1>4, <2>1 DEF Stretch
<1>6. \A i \in 1..Len(s) : s[i].idx \in Nat /\ (s[i].idx <= s[q].idx <=> i <= q)
                           /\ (s[i].idx = s[q].idx => i = q)
  BY <1>1, <1>5, TurnAt, RisingPlace
<1>7. last = s[q]
  <2>1. \A t \in ToFold(d) : \E k \in 1..Len(s) : k <= q /\ t = s[k]
    <3> TAKE t \in ToFold(d)
    <3>1. PICK k \in (n + 1)..q : t = s[k]
      BY <1>4 DEF Stretch
    <3>2. k \in 1..Len(s) /\ k <= q
      BY <1>1, <1>3, <1>4
    <3>3. QED
      BY <3>1, <3>2
  <2>2. \A u \in ToFold(d) : u.idx <= s[q].idx
    BY <1>6, <2>1
  <2>3. \A t \in ToFold(d) : s[q].idx <= t.idx => t = s[q]
    <3> TAKE t \in ToFold(d)
    <3>1. PICK k \in 1..Len(s) : k <= q /\ t = s[k]
      BY <2>1
    <3>2. s[k].idx <= s[q].idx /\ s[k].idx \in Nat /\ s[q].idx \in Nat
      BY <1>5, <1>6, <3>1
    <3>3. s[q].idx <= s[k].idx => k = q
      BY <1>6, <3>2
    <3>4. QED
      BY <3>1, <3>3
  <2>4. QED
    <3>1. last \in ToFold(d) /\ \A u \in ToFold(d) : u.idx <= last.idx
      BY <1>5, <2>2
    <3>2. s[q].idx <= last.idx
      BY <1>5, <3>1
    <3>3. QED
      BY <2>3, <3>1, <3>2
<1>8. e = [turns |-> d.turns, summary |-> Newest(d.summary \o l, SummaryMax), through |-> s[q].idx]
  <2>1. e = [d EXCEPT !.summary = Newest(d.summary \o l, SummaryMax), !.through = last.idx]
    BY DEF Fold
  <2> HIDE DEF e, l, last
  <2>2. QED
    BY <1>1, <1>7, <2>1
<1>9. /\ d.summary \o l \in Seq(Lines) /\ Len(d.summary \o l) = Len(d.summary) + (q - n)
      /\ Ends(d.summary \o l, s, q)
  <2>1. l = [i \in 1..(q - n) |-> s[n + i].line]
    BY <1>1, <1>3, <1>4, StretchLines
  <2>2. Ends(d.summary, s, n)
    BY <1>2 DEF FoldedTo
  <2> HIDE DEF l
  <2>3. n <= q
    BY <1>3, <1>4
  <2>4. q <= Len(s)
    BY <1>4
  <2>5. d.summary \in Seq(Lines) /\ s \in Seq(Turns)
    BY <1>1
  <2> DEFINE c == d.summary
  <2>6. Ends(c, s, n) /\ c \in Seq(Lines) /\ n \in Nat /\ q \in Nat
    BY <1>3, <1>4, <2>2, <2>5
  <2> HIDE DEF c
  <2>7. /\ c \o l \in Seq(Lines) /\ Len(c \o l) = Len(c) + (q - n)
        /\ Ends(c \o l, s, q)
    BY <2>1, <2>3, <2>4, <2>5, <2>6, StretchEnds
  <2>8. QED
    BY <2>7 DEF c
<1> HIDE DEF e, l, last
<1>10. SummaryMax \in Nat /\ Len(d.summary) \in Nat
  BY <1>1, LenProperties, TurnsAssumption
<1>11. /\ e.summary \in Seq(Lines) /\ Ends(e.summary, s, q)
       /\ Len(e.summary) = IF Len(d.summary \o l) > SummaryMax THEN SummaryMax ELSE Len(d.summary \o l)
  <2>1. e.summary = Newest(d.summary \o l, SummaryMax)
    BY <1>8
  <2>2. QED
    BY <1>4, <1>9, <1>10, <2>1, NewestEnds
<1>12. Len(e.summary) = q \/ Len(e.summary) = SummaryMax
  <2>1. Len(d.summary) = n \/ Len(d.summary) = SummaryMax
    BY <1>2 DEF FoldedTo
  <2> DEFINE a == Len(d.summary)
             b == Len(d.summary \o l)
  <2>2. /\ a \in Nat /\ b = a + (q - n) /\ (a = n \/ a = SummaryMax)
        /\ Len(e.summary) = IF b > SummaryMax THEN SummaryMax ELSE b
    BY <1>9, <1>10, <1>11, <2>1
  <2> HIDE DEF a, b
  <2>3. QED
    BY <1>3, <1>4, <1>10, <2>2
<1>13. Stored(e)
  <2>1. s[q].idx \in Nat
    BY <1>5, <1>6
  <2>2. e \in Transcripts
    BY <1>1, <1>8, <1>11, <2>1 DEF Transcripts
  <2>3. QED
    BY <1>1, <1>8, <2>2 DEF Stored
<1>14. Unfolded(e) = Stretch(s, q, Len(s))
  <2>1. Unfolded(e) = {t \in d.turns : t.idx > s[q].idx}
    BY <1>8 DEF Unfolded
  <2>2. s[q].idx > d.through
    <3>1. q \in (n + 1)..Len(s)
      BY <1>3, <1>4, <1>1
    <3>2. QED
      BY <1>2, <3>1 DEF FoldedTo
  <2>3. \A t \in d.turns : t.idx > s[q].idx <=> t \in Unfolded(d) /\ t.idx > s[q].idx
    <3> TAKE t \in d.turns
    <3>1. t.idx \in Nat /\ s[q].idx \in Nat
      BY <1>1, <1>5, <1>6 DEF Turns
    <3>2. QED
      BY <1>1, <2>2, <3>1 DEF Unfolded
  <2>4. Unfolded(e) = {t \in Stretch(s, n, Len(s)) : t.idx > s[q].idx}
    <3>1. Unfolded(d) \subseteq d.turns /\ Unfolded(d) = Stretch(s, n, Len(s))
      BY <1>2 DEF Unfolded, FoldedTo
    <3>2. QED
      BY <2>1, <2>3, <3>1
  <2>5. q \in (n + 1)..Len(s)
    BY <1>1, <1>3, <1>4
  <2>6. QED
    BY <1>1, <1>3, <2>4, <2>5, StretchSplits
<1>15. FoldedTo(e, s, q)
  <2>1. \A i \in 1..q : s[i].idx <= e.through
    <3> TAKE i \in 1..q
    <3>1. i \in 1..Len(s) /\ i <= q
      BY <1>1, <1>4
    <3>2. QED
      BY <1>6, <1>8, <3>1
  <2>2. \A i \in (q + 1)..Len(s) : s[i].idx > e.through
    <3> TAKE i \in (q + 1)..Len(s)
    <3>1. i \in 1..Len(s) /\ ~(i <= q)
      BY <1>1, <1>4
    <3>2. ~(s[i].idx <= s[q].idx) /\ s[i].idx \in Nat /\ s[q].idx \in Nat
      BY <1>5, <1>6, <3>1
    <3>3. QED
      BY <1>8, <3>2
  <2>3. QED
    BY <1>11, <1>12, <1>14, <2>1, <2>2 DEF FoldedTo
<1>16. Holds(e, s)
  <2>1. q \in 0..Len(s)
    BY <1>1, <1>4
  <2>2. QED
    BY <1>1, <1>13, <1>15, <2>1 DEF Holds
<1>17. ToFold(d) \subseteq e.turns
  BY <1>8 DEF ToFold, Unfolded
<1>18. ToFold(d) \cap Unfolded(e) = {}
  <2> SUFFICES ASSUME NEW t \in ToFold(d), t \in Unfolded(e) PROVE FALSE
    OBVIOUS
  <2>1. PICK k \in (n + 1)..q : t = s[k]
    BY <1>4 DEF Stretch
  <2>2. k \in 1..Len(s) /\ k <= q
    BY <1>1, <1>3, <1>4
  <2>3. t.idx <= s[q].idx /\ t.idx \in Nat /\ s[q].idx \in Nat
    BY <1>5, <1>6, <2>1, <2>2
  <2>4. t.idx > s[q].idx
    BY <1>8 DEF Unfolded
  <2>5. QED
    BY <2>3, <2>4
<1>19. QED
  BY <1>16, <1>17, <1>18 DEF e


(* A sweep deletes what was folded.                                         *)
LEMMA SweepHolds ==
  ASSUME NEW d, NEW s, Holds(d, s)
  PROVE  Holds(Sweep(d, d), s)
<1> DEFINE T == d.turns \ Unfolded(d)
<1>1. Sweep(d, d) = Delete(d, T)
  BY DEF Sweep, Folded
<1>2. T \subseteq d.turns /\ T \cap Unfolded(d) = {}
  OBVIOUS
<1> HIDE DEF T
<1>3. QED
  BY <1>1, <1>2, TrimHolds

(* So does a deletion cut short.                                            *)
LEMMA CutHolds ==
  ASSUME NEW d, NEW s, Holds(d, s), NEW S, S \subseteq d.turns, S \cap Unfolded(d) = {},
         NEW e \in CutShort(d, S)
  PROVE  Holds(e, s)
<1>1. PICK t \in S : e = Delete(d, {u \in S : u.idx < t.idx})
  BY DEF CutShort
<1> DEFINE T == {u \in S : u.idx < t.idx}
<1>2. T \subseteq d.turns /\ T \cap Unfolded(d) = {}
  OBVIOUS
<1>3. e = Delete(d, T)
  BY <1>1
<1> HIDE DEF T
<1>4. QED
  BY <1>2, <1>3, TrimHolds

(* With every file read, there is one view of them.                         *)
LEMMA ReadWhole ==
  ASSUME NEW d
  PROVE  /\ Views(d, TRUE) = {d} /\ Summaries(d, TRUE) = {d.summary}
         /\ Swept(d, TRUE) = {<<Sweep(d, d), Sweep(d, d)>>}
<1>1. Views(d, TRUE) = {d} /\ Summaries(d, TRUE) = {d.summary}
  BY DEF Views, Summaries
<1> DEFINE w == Sweep(d, d)
           By(v) == {<<Sweep(d, v), u>> :
                       u \in IF Sweep(d, v) = d THEN {v} ELSE Views(Sweep(d, v), TRUE)}
<1>2. Views(w, TRUE) = {w}
  BY DEF Views
<1>3. (IF w = d THEN {d} ELSE Views(w, TRUE)) = {w}
  BY <1>2
<1>4. By(d) = {<<w, w>>}
  <2>1. By(d) = {<<w, u>> : u \in {w}}
    BY <1>3
  <2> HIDE DEF w, By
  <2>2. QED
    BY <2>1
<1>5. Swept(d, TRUE) = UNION {By(v) : v \in Views(d, TRUE)}
  BY DEF Swept
<1> HIDE DEF By
<1>6. UNION {By(v) : v \in {d}} = By(d)
  OBVIOUS
<1>7. QED
  BY <1>1, <1>4, <1>5, <1>6

(* The turn a record says.                                                  *)
Turn(d, role, x) == [idx |-> NextIndex(d), line |-> [role |-> role, of |-> x]]

(* A record that reads every file holds what was said and its turn, swept   *)
(* and compacted or not.                                                    *)
LEMMA RecordedHolds ==
  ASSUME NEW d, NEW s, Holds(d, s), NEW role \in Roles, NEW x \in Exchanges,
         NEW u, u = Turn(d, role, x), NEW e \in Recorded(d, u.idx, u.line, TRUE)
  PROVE  Holds(e, Append(s, u))
<1> DEFINE v == Write(d, u.idx, u.line)
           w == Sweep(v, v)
           r == Append(s, u)
<1>1. Holds(v, r)
  BY WriteHolds DEF Turn
<1>2. Recorded(d, u.idx, u.line, TRUE) = UNION {Compacted(z[1], z[2], TRUE) : z \in {<<w, w>>}}
  <2>1. Swept(v, TRUE) = {<<w, w>>}
    BY ReadWhole
  <2> HIDE DEF w
  <2>2. QED
    BY <2>1 DEF Recorded
<1> HIDE DEF v, r
<1>3. Holds(w, r)
  BY <1>1, SweepHolds
<1> HIDE DEF w
<1>4. e \in Compacted(w, w, TRUE)
  <2>1. PICK z \in {<<w, w>>} : e \in Compacted(z[1], z[2], TRUE)
    BY <1>2
  <2>2. z[1] = w /\ z[2] = w
    OBVIOUS
  <2>3. QED
    BY <2>1, <2>2
<1>5. CASE Folding(w)
  <2> DEFINE f == Fold(w, w, w.summary)
  <2>1. e = Delete(f, ToFold(w))
    BY <1>4, <1>5, ReadWhole DEF Compacted
  <2>2. Holds(f, r) /\ ToFold(w) \subseteq f.turns /\ ToFold(w) \cap Unfolded(f) = {}
    BY <1>3, <1>5, FoldHolds
  <2> HIDE DEF f
  <2>3. QED
    BY <2>1, <2>2, TrimHolds DEF r
<1>6. CASE ~Folding(w)
  BY <1>3, <1>4, <1>6 DEF Compacted, r
<1>7. QED
  BY <1>5, <1>6

(* As does what is left of one that raised with its turn written.           *)
LEMMA HalfHolds ==
  ASSUME NEW d, NEW s, Holds(d, s), NEW role \in Roles, NEW x \in Exchanges,
         NEW u, u = Turn(d, role, x), NEW e \in HalfRecorded(d, u.idx, u.line, TRUE)
  PROVE  Holds(e, Append(s, u))
<1> DEFINE v == Write(d, u.idx, u.line)
           w == Sweep(v, v)
           r == Append(s, u)
<1>1. e \in CutShort(v, Folded(v)) \cup HalfCompacted(w, w, TRUE)
  <2>1. Swept(v, TRUE) = {<<w, w>>} /\ Views(v, TRUE) = {v}
    BY ReadWhole
  <2> HIDE DEF w
  <2>2. \/ \E z \in Views(v, TRUE) : e \in CutShort(v, Folded(z))
        \/ \E z \in Swept(v, TRUE) : e \in HalfCompacted(z[1], z[2], TRUE)
    BY DEF HalfRecorded
  <2> HIDE DEF v
  <2>3. CASE \E z \in Views(v, TRUE) : e \in CutShort(v, Folded(z))
    BY <2>1, <2>3
  <2>4. CASE \E z \in Swept(v, TRUE) : e \in HalfCompacted(z[1], z[2], TRUE)
    <3>1. PICK z \in {<<w, w>>} : e \in HalfCompacted(z[1], z[2], TRUE)
      BY <2>1, <2>4
    <3>2. z[1] = w /\ z[2] = w
      OBVIOUS
    <3>3. QED
      BY <3>1, <3>2
  <2>5. QED
    BY <2>2, <2>3, <2>4
<1>2. Holds(v, r)
  BY WriteHolds DEF Turn
<1> HIDE DEF v, r
<1>3. Holds(w, r)
  BY <1>2, SweepHolds
<1> HIDE DEF w
<1>4. CASE e \in CutShort(v, Folded(v))
  <2> DEFINE S == Folded(v)
  <2>1. S \subseteq v.turns /\ S \cap Unfolded(v) = {} /\ e \in CutShort(v, S)
    BY <1>4 DEF Folded
  <2> HIDE DEF S
  <2>2. QED
    BY <1>2, <2>1, CutHolds DEF r
<1>5. CASE e \in HalfCompacted(w, w, TRUE)
  <2> DEFINE f == Fold(w, w, w.summary)
  <2>1. Folding(w) /\ (e = w \/ e \in CutShort(f, ToFold(w)))
    BY <1>5, ReadWhole DEF HalfCompacted
  <2>2. CASE e = w
    BY <1>3, <2>2 DEF r
  <2>3. CASE e \in CutShort(f, ToFold(w))
    <3>1. Holds(f, r) /\ ToFold(w) \subseteq f.turns /\ ToFold(w) \cap Unfolded(f) = {}
      BY <1>3, <2>1, FoldHolds
    <3> HIDE DEF f
    <3>2. QED
      BY <2>3, <3>1, CutHolds DEF r
  <2>4. QED
    BY <2>1, <2>2, <2>3
<1>6. QED
  BY <1>1, <1>4, <1>5

(* What removing an element leaves.                                         *)
LEMMA RemovedAt ==
  ASSUME NEW S, NEW s \in Seq(S), NEW k \in 1..Len(s)
  PROVE  /\ RemoveAt(s, k) \in Seq(S) /\ Len(RemoveAt(s, k)) = Len(s) - 1
         /\ \A j \in 1..(Len(s) - 1) : RemoveAt(s, k)[j] = IF j < k THEN s[j] ELSE s[j + 1]
<1> DEFINE m == Len(s)
           a == SubSeq(s, 1, k - 1)
           b == SubSeq(s, k + 1, m)
<1>1. m \in Nat /\ k \in Nat /\ 1 <= k /\ k <= m /\ \A i \in 1..m : s[i] \in S
  BY LenProperties, ElementOfSeq
<1>2. /\ 1 \in Int /\ k - 1 \in Int /\ k + 1 \in Int /\ m \in Int
      /\ \A i \in 1..(k - 1) : s[i] \in S
      /\ \A i \in (k + 1)..m : s[i] \in S
  <2> HIDE DEF m
  <2> QED BY <1>1
<1> HIDE DEF m
<1>3. /\ a \in Seq(S) /\ Len(a) = IF 1 <= k - 1 THEN k - 1 - 1 + 1 ELSE 0
      /\ \A i \in 1..(k - 1 - 1 + 1) : a[i] = s[1 + i - 1]
  BY <1>2, SubSeqProperties
<1>4. /\ b \in Seq(S) /\ Len(b) = IF k + 1 <= m THEN m - (k + 1) + 1 ELSE 0
      /\ \A i \in 1..(m - (k + 1) + 1) : b[i] = s[k + 1 + i - 1]
  BY <1>2, SubSeqProperties
<1>5. RemoveAt(s, k) = a \o b
  BY DEF RemoveAt, m
<1> HIDE DEF a, b
<1>6. Len(a) = k - 1 /\ Len(b) = m - k
  BY <1>1, <1>3, <1>4
<1>7. /\ a \o b \in Seq(S) /\ Len(a \o b) = Len(a) + Len(b)
      /\ \A i \in 1..(Len(a) + Len(b)) : (a \o b)[i] = IF i <= Len(a) THEN a[i] ELSE b[i - Len(a)]
  BY <1>3, <1>4, ConcatProperties
<1>8. \A j \in 1..(m - 1) : (a \o b)[j] = IF j < k THEN s[j] ELSE s[j + 1]
  <2> TAKE j \in 1..(m - 1)
  <2>1. j \in Nat /\ j \in 1..(Len(a) + Len(b))
    BY <1>1, <1>6
  <2>2. CASE j < k
    <3>1. j <= Len(a) /\ j \in 1..(k - 1 - 1 + 1) /\ 1 + j - 1 = j
      BY <1>1, <1>6, <2>1, <2>2
    <3>2. QED
      BY <1>3, <1>7, <2>1, <2>2, <3>1
  <2>3. CASE ~(j < k)
    <3>1. /\ ~(j <= Len(a)) /\ j - Len(a) \in 1..(m - (k + 1) + 1)
          /\ k + 1 + (j - Len(a)) - 1 = j + 1
      BY <1>1, <1>6, <2>1, <2>3
    <3>2. b[j - Len(a)] = s[k + 1 + (j - Len(a)) - 1]
      BY <1>4, <3>1
    <3>3. QED
      BY <1>7, <2>1, <2>3, <3>1, <3>2
  <2>4. QED
    BY <2>2, <2>3
<1>9. QED
  BY <1>1, <1>5, <1>6, <1>7, <1>8 DEF m

(* A turn that is rolled back is held no more.                              *)
LEMMA WithdrawnHolds ==
  ASSUME NEW d, NEW s, Holds(d, s), NEW u \in Unfolded(d), NEW i, i = u.idx
  PROVE  /\ Holds(Forget(d, i), Withdrawn(s, i))
         /\ \E k \in 1..Len(s) : s[k].idx = i /\ Withdrawn(s, i) = RemoveAt(s, k)
<1>1. /\ Stored(d) /\ s \in Seq(Turns) /\ Rising(s)
      /\ d.turns \subseteq Turns /\ IsFiniteSet(d.turns) /\ d.summary \in Seq(Lines)
      /\ d = [turns |-> d.turns, summary |-> d.summary, through |-> d.through]
      /\ d.through \in Int /\ Len(s) \in Nat /\ DOMAIN s = 1..Len(s)
  BY StoredParts, LenProperties DEF Holds
<1>2. PICK n \in 0..Len(s) : FoldedTo(d, s, n)
  BY DEF Holds
<1> DEFINE m == Len(s)
           r == Withdrawn(s, i)
           e == Forget(d, i)
<1>3. PICK k \in (n + 1)..m : u = s[k]
  BY <1>2 DEF FoldedTo, Stretch
<1>4. n \in Nat /\ n <= m /\ k \in 1..m /\ n < k
  BY <1>1
<1>5. \A j \in 1..m : s[j].idx = i => j = k
  BY <1>1, <1>3, <1>4, RisingPlace
<1>6. r = RemoveAt(s, k)
  <2>1. (CHOOSE j \in DOMAIN s : s[j].idx = i) = k
    BY <1>1, <1>3, <1>4, <1>5
  <2>2. QED
    BY <2>1 DEF Withdrawn
<1>7. /\ r \in Seq(Turns) /\ Len(r) = m - 1
      /\ \A j \in 1..(m - 1) : r[j] = IF j < k THEN s[j] ELSE s[j + 1]
  BY <1>1, <1>4, <1>6, RemovedAt
<1> HIDE DEF m, r, e
<1>8. e = [turns |-> {t \in d.turns : t.idx # i}, summary |-> d.summary, through |-> d.through]
  <2>1. e = [d EXCEPT !.turns = {t \in d.turns : t.idx # i}]
    BY DEF Forget, e
  <2>2. QED
    BY <1>1, <2>1
<1>9. Stored(e)
  <2>1. IsFiniteSet({t \in d.turns : t.idx # i})
    BY <1>1, FS_Subset
  <2>2. d.through \in Nat \cup {-1}
    BY <1>1 DEF Stored, Transcripts
  <2>3. e \in Transcripts
    BY <1>1, <1>8, <2>2 DEF Transcripts
  <2>4. QED
    BY <1>8, <2>1, <2>3 DEF Stored
<1>10. m \in Nat
  BY <1>1 DEF m
<1>11. Rising(r)
  <2> SUFFICES ASSUME NEW a \in 1..Len(r), NEW b \in 1..Len(r), a < b PROVE r[a].idx < r[b].idx
    BY DEF Rising
  <2> DEFINE a2 == IF a < k THEN a ELSE a + 1
             b2 == IF b < k THEN b ELSE b + 1
  <2>1. a2 \in 1..m /\ b2 \in 1..m /\ a2 < b2 /\ r[a] = s[a2] /\ r[b] = s[b2]
    BY <1>4, <1>7, <1>10
  <2> HIDE DEF a2, b2
  <2>2. QED
    BY <1>1, <2>1 DEF Rising, m
<1>12. FoldedTo(e, r, n)
  <2>1. \A j \in 1..n : r[j] = s[j]
    <3> TAKE j \in 1..n
    <3>1. j \in 1..(m - 1) /\ j < k
      BY <1>4, <1>10
    <3>2. QED
      BY <1>7, <3>1
  <2>2. \A j \in 1..n : r[j].idx <= e.through
    BY <1>2, <1>8, <2>1 DEF FoldedTo
  <2>3. \A j \in (n + 1)..Len(r) : \E h \in (n + 1)..m : h # k /\ r[j] = s[h]
    <3> TAKE j \in (n + 1)..Len(r)
    <3>1. j \in 1..(m - 1)
      BY <1>4, <1>7, <1>10
    <3>2. CASE j < k
      <4>1. j \in (n + 1)..m /\ j # k /\ r[j] = s[j]
        BY <1>7, <1>10, <1>4, <3>1, <3>2
      <4>2. QED
        BY <4>1
    <3>3. CASE ~(j < k)
      <4>1. j + 1 \in (n + 1)..m /\ j + 1 # k /\ r[j] = s[j + 1]
        BY <1>7, <1>10, <1>4, <3>1, <3>3
      <4>2. QED
        BY <4>1
    <3>4. QED
      BY <3>2, <3>3
  <2>4. \A h \in (n + 1)..m : h # k => \E j \in (n + 1)..Len(r) : r[j] = s[h]
    <3> SUFFICES ASSUME NEW h \in (n + 1)..m, h # k
                 PROVE  \E j \in (n + 1)..Len(r) : r[j] = s[h]
      OBVIOUS
    <3>1. CASE h < k
      <4>1. h \in (n + 1)..Len(r) /\ r[h] = s[h]
        <5>1. h \in 1..(m - 1) /\ h \in (n + 1)..(m - 1)
          BY <1>4, <1>10, <3>1
        <5>2. QED
          BY <1>7, <3>1, <5>1
      <4>2. QED
        BY <4>1
    <3>2. CASE ~(h < k)
      <4>1. h - 1 \in (n + 1)..Len(r) /\ r[h - 1] = s[h]
        <5>1. h - 1 \in 1..(m - 1) /\ h - 1 \in (n + 1)..(m - 1) /\ ~(h - 1 < k) /\ h - 1 + 1 = h
          BY <1>4, <1>10, <3>2
        <5>2. QED
          BY <1>7, <5>1
      <4>2. QED
        BY <4>1
    <3>3. QED
      BY <3>1, <3>2
  <2>5. \A j \in (n + 1)..Len(r) : r[j].idx > e.through
    BY <1>2, <1>8, <2>3 DEF FoldedTo, m
  <2>6. Unfolded(e) = Stretch(r, n, Len(r))
    <3>1. Unfolded(d) = Stretch(s, n, m)
      BY <1>2 DEF FoldedTo, m
    <3>2. Unfolded(e) = {t \in Unfolded(d) : t.idx # i}
      BY <1>8 DEF Unfolded
    <3>3. \A h \in (n + 1)..m : s[h].idx # i <=> h # k
      <4> TAKE h \in (n + 1)..m
      <4>1. h \in 1..m
        BY <1>4, <1>10
      <4>2. QED
        BY <1>3, <1>5, <4>1
    <3>4. \A t \in Unfolded(e) : t \in Stretch(r, n, Len(r))
      <4> TAKE t \in Unfolded(e)
      <4>1. PICK h \in (n + 1)..m : t = s[h] /\ h # k
        BY <3>1, <3>2, <3>3 DEF Stretch
      <4>2. QED
        BY <2>4, <4>1 DEF Stretch
    <3>5. \A t \in Stretch(r, n, Len(r)) : t \in Unfolded(e)
      <4> TAKE t \in Stretch(r, n, Len(r))
      <4>1. PICK h \in (n + 1)..m : t = s[h] /\ h # k
        BY <2>3 DEF Stretch
      <4>2. t \in Stretch(s, n, m) /\ t.idx # i
        BY <3>3, <4>1 DEF Stretch
      <4>3. QED
        BY <3>1, <3>2, <4>2
    <3>6. QED
      BY <3>4, <3>5
  <2>7. Ends(e.summary, r, n) /\ (Len(e.summary) = n \/ Len(e.summary) = SummaryMax)
    <3>1. Len(d.summary) \in Nat
      BY <1>1, LenProperties
    <3>2. Ends(d.summary, s, n) /\ (Len(d.summary) = n \/ Len(d.summary) = SummaryMax)
      BY <1>2 DEF FoldedTo
    <3>3. \A j \in 1..Len(d.summary) : n - Len(d.summary) + j \in 1..n
      BY <1>4, <3>1, <3>2 DEF Ends
    <3>4. QED
      BY <1>8, <2>1, <3>2, <3>3 DEF Ends
  <2>8. QED
    BY <2>2, <2>5, <2>6, <2>7 DEF FoldedTo
<1>13. n \in 0..Len(r)
  BY <1>4, <1>7, <1>10
<1>14. Holds(e, r)
  BY <1>7, <1>9, <1>11, <1>12, <1>13 DEF Holds
<1>15. k \in 1..Len(s) /\ s[k].idx = i
  BY <1>3, <1>4 DEF m
<1>16. QED
  BY <1>6, <1>14, <1>15 DEF e, r

(* What a transcript holds is the end of what was said, or all of it.       *)
LEMMA HeldIsSaid ==
  ASSUME NEW d, NEW s, Holds(d, s),
         NEW said, said = [i \in DOMAIN s |-> s[i].line],
         NEW c, c = Conversation(d)
  PROVE  IsSuffix(c, said) /\ (c = said \/ Len(d.summary) = SummaryMax)
<1>1. /\ Stored(d) /\ s \in Seq(Turns) /\ Rising(s) /\ d.summary \in Seq(Lines)
      /\ Len(s) \in Nat /\ DOMAIN s = 1..Len(s)
  BY StoredParts, LenProperties DEF Holds
<1>2. PICK n \in 0..Len(s) : FoldedTo(d, s, n)
  BY DEF Holds
<1> DEFINE m == Len(s)
           l == LinesOf(Unfolded(d))
<1>3. n \in Nat /\ n <= m /\ m \in Nat /\ m <= Len(s)
  BY <1>1
<1>4. l = [i \in 1..(m - n) |-> s[n + i].line]
  <2>1. Unfolded(d) = Stretch(s, n, m)
    BY <1>2 DEF FoldedTo
  <2> HIDE DEF m
  <2>2. LinesOf(Stretch(s, n, m)) = [i \in 1..(m - n) |-> s[n + i].line]
    BY <1>1, <1>3, StretchLines
  <2>3. QED
    BY <2>1, <2>2
<1>5. Ends(d.summary, s, n) /\ (Len(d.summary) = n \/ Len(d.summary) = SummaryMax)
  BY <1>2 DEF FoldedTo
<1> DEFINE b == d.summary
<1>6. b \in Seq(Lines) /\ Ends(b, s, n) /\ c = b \o l /\ Len(b) \in Nat
  BY <1>1, <1>5, LenProperties DEF Conversation
<1> HIDE DEF l, b
<1>7. c \in Seq(Lines) /\ Len(c) = Len(b) + (m - n) /\ Ends(c, s, m)
  <2> HIDE DEF m
  <2>1. s \in Seq(Turns) /\ n \in Nat /\ m \in Nat /\ n <= m /\ m <= Len(s)
    BY <1>1, <1>3
  <2>4. b \in Seq(Lines) /\ Ends(b, s, n)
    BY <1>6
  <2>2. /\ b \o l \in Seq(Lines) /\ Len(b \o l) = Len(b) + (m - n)
        /\ Ends(b \o l, s, m)
    BY <1>4, <2>1, <2>4, StretchEnds
  <2>3. QED
    BY <1>6, <2>2
<1>8. said \in Seq(Lines) /\ Len(said) = m /\ \A i \in 1..m : said[i] = s[i].line
  <2>1. said \in [1..m -> Lines]
    BY <1>1, TurnAt
  <2> HIDE DEF m
  <2>2. said \in Seq(Lines) /\ Len(said) = m
    BY <1>3, <2>1, FunIsSeq
  <2>3. QED
    BY <1>1, <2>2 DEF m
<1> HIDE DEF m
<1>9. /\ Len(c) \in Nat /\ Len(c) <= m
      /\ \A i \in 1..Len(c) : c[i] = said[m - Len(c) + i]
  <2>1. Len(c) \in Nat
    BY <1>7, LenProperties
  <2>2. Len(c) <= m /\ \A i \in 1..Len(c) : c[i] = s[m - Len(c) + i].line
    BY <1>7 DEF Ends
  <2>3. \A i \in 1..Len(c) : m - Len(c) + i \in 1..m
    BY <1>3, <2>1, <2>2
  <2>4. QED
    BY <1>8, <2>1, <2>2, <2>3
<1>10. IsSuffix(c, said)
  <2> DEFINE f == Reverse(c)
             g == Reverse(said)
             k == Len(c)
  <2>1. /\ f \in Seq(Lines) /\ Len(f) = k /\ \A i \in 1..k : f[i] = c[k - i + 1]
    <3>1. f \in [1..k -> Lines]
      <4>1. \A i \in 1..k : k - i + 1 \in 1..k
        BY <1>9
      <4>2. \A i \in 1..k : c[k - i + 1] \in Lines
        BY <1>7, <4>1, ElementOfSeq
      <4>3. QED
        BY <4>2 DEF Reverse
    <3>2. f \in Seq(Lines) /\ Len(f) = k
      <4> HIDE DEF f, k
      <4>1. k \in Nat
        BY <1>9 DEF k
      <4>2. QED
        BY <3>1, <4>1, FunIsSeq
    <3>3. QED
      BY <3>2 DEF Reverse
  <2>2. /\ g \in Seq(Lines) /\ Len(g) = m /\ \A i \in 1..m : g[i] = said[m - i + 1]
    <3>1. g \in [1..m -> Lines]
      <4>1. \A i \in 1..m : m - i + 1 \in 1..m
        BY <1>3
      <4>2. \A i \in 1..m : said[m - i + 1] \in Lines
        BY <1>8, <4>1, ElementOfSeq
      <4>3. QED
        BY <1>8, <4>2 DEF Reverse
    <3>2. g \in Seq(Lines) /\ Len(g) = m
      <4> HIDE DEF g
      <4> QED BY <1>3, <3>1, FunIsSeq
    <3>3. QED
      BY <1>8, <3>2 DEF Reverse
  <2>3. k \in Nat /\ k <= m
    BY <1>9
  <2>4. \A i \in 1..k : c[i] = said[m - k + i]
    BY <1>9
  <2> HIDE DEF f, g, k
  <2>5. \A i \in 1..k : f[i] = g[i]
    <3> TAKE i \in 1..k
    <3>1. i \in 1..m /\ k - i + 1 \in 1..k /\ m - k + (k - i + 1) = m - i + 1
      BY <1>3, <2>3
    <3>2. c[k - i + 1] = said[m - k + (k - i + 1)]
      BY <2>4, <3>1
    <3>3. QED
      BY <2>1, <2>2, <3>1, <3>2
  <2>6. SubSeq(f, 1, k) = SubSeq(g, 1, k)
    <3>1. \A i \in 1..k : f[i] \in Lines /\ g[i] \in Lines
      <4>1. \A i \in 1..k : i \in 1..Len(f)
        BY <2>1
      <4>2. \A i \in 1..k : f[i] \in Lines
        BY <2>1, <4>1, ElementOfSeq
      <4>3. QED
        BY <2>5, <4>2
    <3>2. 1 \in Int /\ k \in Int
      BY <2>3
    <3> DEFINE a == SubSeq(f, 1, k)
               z == SubSeq(g, 1, k)
    <3>3. /\ a \in Seq(Lines) /\ Len(a) = (IF 1 <= k THEN k - 1 + 1 ELSE 0)
          /\ \A i \in 1..(k - 1 + 1) : a[i] = f[1 + i - 1]
      BY <3>1, <3>2, SubSeqProperties
    <3>4. /\ z \in Seq(Lines) /\ Len(z) = (IF 1 <= k THEN k - 1 + 1 ELSE 0)
          /\ \A i \in 1..(k - 1 + 1) : z[i] = g[1 + i - 1]
      BY <3>1, <3>2, SubSeqProperties
    <3> HIDE DEF a, z
    <3>5. Len(a) = k /\ Len(z) = k
      BY <2>3, <3>3, <3>4
    <3>6. \A i \in 1..k : a[i] = z[i]
      <4> TAKE i \in 1..k
      <4>1. i \in 1..(k - 1 + 1) /\ 1 + i - 1 = i
        BY <2>3
      <4>2. QED
        BY <2>5, <3>3, <3>4, <4>1
    <3>7. a = z
      BY <3>3, <3>4, <3>5, <3>6, SeqEqual
    <3>8. QED
      BY <3>7 DEF a, z
  <2>7. Len(f) <= Len(g) /\ SubSeq(f, 1, Len(f)) = SubSeq(g, 1, Len(f))
    BY <2>1, <2>2, <2>3, <2>6
  <2>8. QED
    BY <2>7 DEF IsSuffix, IsPrefix, f, g
<1>11. Len(b) = n => c = said
  <2> SUFFICES ASSUME Len(b) = n PROVE c = said
    OBVIOUS
  <2>1. Len(c) = m /\ \A i \in 1..m : c[i] = said[i]
    <3>1. Len(c) = m
      BY <1>3, <1>7
    <3>2. \A i \in 1..m : m - Len(c) + i = i
      BY <1>3, <3>1
    <3>3. QED
      BY <1>9, <3>1, <3>2
  <2>2. QED
    BY <1>7, <1>8, <2>1, SeqEqual
<1>12. QED
  BY <1>5, <1>10, <1>11 DEF b


-----------------------------------------------------------------------------
(* The threads that handle events.                                          *)

Shaped(r) ==
  /\ DOMAIN r = {"at", "ev", "todo", "turns", "prompt", "mine"}
  /\ r.prompt = [summary |-> r.prompt.summary, turns |-> r.prompt.turns]

(* Whoever is at work handles an event that was delivered.                  *)
AtWork(t) == Ev(t) \in Events /\ delivered[Ev(t)] > 0
Forgettings == [of : Personas, midway : BOOLEAN]
ShapeInv ==
  /\ thread = [t \in Threads |-> thread[t]]
  /\ \A t \in Threads : Shaped(thread[t])
  /\ \A t \in Threads : thread[t].at # "idle" => AtWork(t)
  /\ delivered \in [Events -> Nat] /\ posted \in [Events -> Nat]
  /\ forgets \in Seq(Forgettings)

(* One thread moves on to r.                                                *)
Becomes(t, r) ==
  /\ thread' = [u \in Threads |-> thread'[u]]
  /\ \A u \in Threads : Shaped(thread'[u])
  /\ thread'[t] = r
  /\ \A u \in Threads : u # t => thread'[u] = thread[u]

(* A thread at rest is a thread.                                            *)
LEMMA IdleShaped == Shaped(Idle) /\ Idle.at = "idle"
BY DEF Shaped, Idle, AtRest, NoPrompt

(* Of the threads, one assignment changes one.                              *)
LEMMA Moves ==
  ASSUME ShapeInv, NEW t \in Threads, NEW r, Shaped(r), thread' = [thread EXCEPT ![t] = r]
  PROVE  Becomes(t, r)
<1>1. thread = [u \in Threads |-> thread[u]] /\ \A u \in Threads : Shaped(thread[u])
  BY DEF ShapeInv
<1>2. thread' = [u \in Threads |-> IF u = t THEN r ELSE thread[u]]
  BY <1>1
<1>3. \A u \in Threads : thread'[u] = IF u = t THEN r ELSE thread[u]
  BY <1>2
<1>4. thread' = [u \in Threads |-> thread'[u]]
  BY <1>2
<1>5. QED
  BY <1>1, <1>3, <1>4 DEF Becomes

(* The steps of a thread, field by field.                                   *)
LEMMA GoesOn ==
  ASSUME ShapeInv, NEW t \in Threads, NEW at, Goes(t, at)
  PROVE  Becomes(t, [thread[t] EXCEPT !.at = at]) /\ thread'[t] = [thread[t] EXCEPT !.at = at]
         /\ thread'[t].at = at /\ thread'[t].ev = thread[t].ev /\ thread'[t].todo = thread[t].todo
         /\ thread'[t].mine = thread[t].mine /\ thread'[t].turns = thread[t].turns
<1> DEFINE r == [thread[t] EXCEPT !.at = at]
<1>1. Shaped(thread[t]) /\ thread = [u \in Threads |-> thread[u]]
  BY DEF ShapeInv
<1>2. /\ Shaped(r) /\ r.at = at /\ r.ev = thread[t].ev /\ r.todo = thread[t].todo
      /\ r.mine = thread[t].mine /\ r.turns = thread[t].turns
  BY <1>1 DEF Shaped
<1>3. thread' = [thread EXCEPT ![t] = r]
  BY <1>1 DEF Goes
<1> HIDE DEF r
<1>4. Becomes(t, r)
  BY <1>2, <1>3, Moves
<1>5. thread'[t] = r
  BY <1>4 DEF Becomes
<1>6. QED
  BY <1>2, <1>4, <1>5 DEF r

(* A thread comes to rest.                                                  *)
LEMMA GoesHome ==
  ASSUME ShapeInv, NEW t \in Threads, thread' = [thread EXCEPT ![t] = Idle]
  PROVE  Becomes(t, Idle)
BY IdleShaped, Moves

(* A thread that is routed keeps its event.                                 *)
LEMMA Routed ==
  ASSUME ShapeInv, NEW t \in Threads, Route(t)
  PROVE  \E r : /\ Becomes(t, r) /\ r.at = "route" /\ r.ev = thread[t].ev
                /\ r.todo = Engaged(Ev(t)) /\ r.turns = thread[t].turns
<1> DEFINE r == [thread[t] EXCEPT !.at = "route", !.todo = Engaged(Ev(t))]
<1>1. Shaped(thread[t]) /\ thread = [u \in Threads |-> thread[u]]
  BY DEF ShapeInv
<1>2. /\ Shaped(r) /\ r.at = "route" /\ r.ev = thread[t].ev
      /\ r.todo = Engaged(Ev(t)) /\ r.turns = thread[t].turns
  BY <1>1 DEF Shaped
<1>3. thread' = [thread EXCEPT ![t] = r]
  BY <1>1 DEF Route
<1> HIDE DEF r
<1>4. QED
  BY <1>2, <1>3, Moves

(* So does one that passes a persona over.                                  *)
LEMMA PassedOver ==
  ASSUME ShapeInv, NEW t \in Threads, PassOver(t)
  PROVE  \E r : /\ Becomes(t, r) /\ r.at = "route" /\ r.ev = thread[t].ev
                /\ r.todo = Tail(thread[t].todo) /\ r.turns = thread[t].turns
<1> DEFINE r == [thread[t] EXCEPT !.todo = Tail(@)]
<1>1. Shaped(thread[t]) /\ thread = [u \in Threads |-> thread[u]]
  BY DEF ShapeInv
<1>2. /\ Shaped(r) /\ r.at = "route" /\ r.ev = thread[t].ev
      /\ r.todo = Tail(thread[t].todo) /\ r.turns = thread[t].turns
  BY <1>1 DEF Shaped, PassOver
<1>3. thread' = [thread EXCEPT ![t] = r]
  BY <1>1 DEF PassOver
<1> HIDE DEF r
<1>4. QED
  BY <1>2, <1>3, Moves

(* The summary is read into the prompt.                                     *)
LEMMA SummaryRead ==
  ASSUME ShapeInv, NEW t \in Threads, ReadSummary(t)
  PROVE  \E r : /\ Becomes(t, r) /\ r.at = "read" /\ r.ev = thread[t].ev
                /\ r.todo = thread[t].todo /\ r.turns = thread[t].turns
                /\ r.prompt.summary = disk[P(t)].summary
<1> DEFINE r == [thread[t] EXCEPT !.at = "read", !.prompt = [@ EXCEPT !.summary = disk[P(t)].summary]]
<1>1. Shaped(thread[t]) /\ thread = [u \in Threads |-> thread[u]]
  BY DEF ShapeInv
<1>2. /\ Shaped(r) /\ r.at = "read" /\ r.ev = thread[t].ev /\ r.todo = thread[t].todo
      /\ r.turns = thread[t].turns /\ r.prompt.summary = disk[P(t)].summary
  BY <1>1 DEF Shaped
<1>3. thread' = [thread EXCEPT ![t] = r]
  BY <1>1 DEF ReadSummary
<1> HIDE DEF r
<1>4. QED
  BY <1>2, <1>3, Moves

(* The turns are read into the prompt, next to the summary.                 *)
LEMMA TurnsRead ==
  ASSUME ShapeInv, NEW t \in Threads, ReadTurns(t)
  PROVE  \E r : /\ Becomes(t, r) /\ r.at = "model" /\ r.ev = thread[t].ev
                /\ r.todo = thread[t].todo /\ r.turns = thread[t].turns
                /\ r.prompt.summary = thread[t].prompt.summary
                /\ r.prompt = [summary |-> r.prompt.summary, turns |-> Recent(disk[P(t)], HistoryTurns)]
<1> DEFINE r == [thread[t] EXCEPT !.at = "model",
                                  !.prompt = [@ EXCEPT !.turns = Recent(disk[P(t)], HistoryTurns)]]
<1>1. Shaped(thread[t]) /\ thread = [u \in Threads |-> thread[u]]
  BY DEF ShapeInv
<1>2. /\ Shaped(r) /\ r.at = "model" /\ r.ev = thread[t].ev /\ r.todo = thread[t].todo
      /\ r.turns = thread[t].turns /\ r.prompt.summary = thread[t].prompt.summary
      /\ r.prompt = [summary |-> r.prompt.summary, turns |-> Recent(disk[P(t)], HistoryTurns)]
  BY <1>1 DEF Shaped
<1>3. thread' = [thread EXCEPT ![t] = r]
  BY <1>1 DEF ReadTurns
<1> HIDE DEF r
<1>4. QED
  BY <1>2, <1>3, Moves

(* The next persona has its turn.                                           *)
LEMMA NextCalled ==
  ASSUME ShapeInv, NEW t \in Threads, NEW more, NEW n, NextPersona(t, more, n)
  PROVE  \E r : /\ Becomes(t, r) /\ r.at = "route" /\ r.ev = thread[t].ev
                /\ r.todo = Tail(thread[t].todo) \o more /\ r.turns = thread[t].turns + n
<1> DEFINE r == [thread[t] EXCEPT !.at = "route", !.todo = Tail(@) \o more, !.turns = @ + n,
                                  !.prompt = NoPrompt, !.mine = NoTurn]
<1>1. Shaped(thread[t]) /\ thread = [u \in Threads |-> thread[u]]
  BY DEF ShapeInv
<1>2. /\ Shaped(r) /\ r.at = "route" /\ r.ev = thread[t].ev
      /\ r.todo = Tail(thread[t].todo) \o more /\ r.turns = thread[t].turns + n
  BY <1>1 DEF Shaped, NoPrompt
<1>3. thread' = [thread EXCEPT ![t] = r]
  BY <1>1 DEF NextPersona
<1> HIDE DEF r
<1>4. QED
  BY <1>2, <1>3, Moves

(* The thread remembers the index of the turn it recorded, or that it       *)
(* recorded none.                                                           *)
LEMMA UserRecorded ==
  ASSUME ShapeInv, NEW t \in Threads, NEW i,
         thread' = [thread EXCEPT ![t].at = "persona", ![t].mine = i, ![t].prompt = NoPrompt]
  PROVE  \E r : /\ Becomes(t, r) /\ r.at = "persona" /\ r.ev = thread[t].ev
                /\ r.todo = thread[t].todo /\ r.turns = thread[t].turns /\ r.mine = i
<1> DEFINE r == [thread[t] EXCEPT !.at = "persona", !.mine = i, !.prompt = NoPrompt]
<1>1. Shaped(thread[t]) /\ thread = [u \in Threads |-> thread[u]]
  BY DEF ShapeInv
<1>2. /\ Shaped(r) /\ r.at = "persona" /\ r.ev = thread[t].ev
      /\ r.todo = thread[t].todo /\ r.turns = thread[t].turns /\ r.mine = i
  BY <1>1 DEF Shaped, NoPrompt
<1>3. thread' = [thread EXCEPT ![t] = r]
  BY <1>1
<1> HIDE DEF r
<1>4. QED
  BY <1>2, <1>3, Moves

(* What a step of a thread does to the lock and to what was seen.           *)
AtIt(t) == thread[t].at \notin {"idle", "enter"}
Stays(t) == \E r : Becomes(t, r) /\ r.ev = thread[t].ev /\ r.at \notin {"idle", "enter"}

WorksOn(t) == AtIt(t) /\ Stays(t) /\ lock' = lock /\ seen' = seen /\ seenFile' = seenFile
Enters(t) ==
  /\ thread[t].at = "enter" /\ seen' = seen /\ seenFile' = seenFile
  /\ \/ Becomes(t, Idle) /\ lock' = lock
     \/ Stays(t) /\ ~Named(Ev(t)) /\ lock' = lock
     \/ Stays(t) /\ Named(Ev(t)) /\ Name(Ev(t)) \notin seen /\ lock = NoOne /\ lock' = t
Saw(old, new, e) == old \subseteq new /\ new \subseteq old \cup ({Name(e)} \ {NoName})
Finishes(t) ==
  /\ AtIt(t) /\ Becomes(t, Idle) /\ lock' = IF lock = t THEN NoOne ELSE lock
  /\ Saw(seen, seen', Ev(t)) /\ Saw(seenFile, seenFile', Ev(t)) /\ seen' \subseteq seen \cup seenFile'

(* Every step of a thread works on, enters or finishes.                     *)
LEMMA HandleWorks ==
  ASSUME ShapeInv, NEW t \in Threads, Handle(t)
  PROVE  WorksOn(t) \/ Enters(t) \/ Finishes(t)
<1>0. ASSUME Release(t)
      PROVE  Becomes(t, Idle) /\ lock' = IF lock = t THEN NoOne ELSE lock
  BY <1>0, GoesHome DEF Release
<1>a. ASSUME AtIt(t), NEW r, Becomes(t, r), r.ev = thread[t].ev, r.at \notin {"idle", "enter"},
             lock' = lock, seen' = seen, seenFile' = seenFile
      PROVE  WorksOn(t)
  BY <1>a DEF WorksOn, Stays
<1>b. ASSUME AtIt(t), NEW at, Goes(t, at), at \notin {"idle", "enter"},
             lock' = lock, seen' = seen, seenFile' = seenFile
      PROVE  WorksOn(t)
  <2> DEFINE r == [thread[t] EXCEPT !.at = at]
  <2>1. Becomes(t, r) /\ thread'[t] = r /\ thread'[t].ev = thread[t].ev /\ thread'[t].at = at
    BY <1>b, GoesOn
  <2> HIDE DEF r
  <2>2. QED
    BY <1>a, <1>b, <2>1
<1>c. ASSUME AtIt(t), NEW more, NEW n, NextPersona(t, more, n),
             lock' = lock, seen' = seen, seenFile' = seenFile
      PROVE  WorksOn(t)
  <2>1. PICK r : Becomes(t, r) /\ r.at = "route" /\ r.ev = thread[t].ev
    BY <1>c, NextCalled
  <2>2. QED
    BY <1>a, <1>c, <2>1
<1>2. CASE Enter(t)
  <2>1. thread[t].at = "enter" /\ seen' = seen /\ seenFile' = seenFile
    BY <1>2 DEF Enter, storeVars
  <2>2. ASSUME Route(t)
        PROVE  Stays(t)
    <3>1. PICK r : Becomes(t, r) /\ r.at = "route" /\ r.ev = thread[t].ev
      BY <2>2, Routed
    <3>2. QED
      BY <3>1 DEF Stays
  <2>3. \/ thread' = [thread EXCEPT ![t] = Idle] /\ lock' = lock
        \/ Route(t) /\ ~Named(Ev(t)) /\ lock' = lock
        \/ Route(t) /\ Named(Ev(t)) /\ Name(Ev(t)) \notin seen /\ lock = NoOne /\ lock' = t
    BY <1>2 DEF Enter
  <2>4. QED
    BY <2>1, <2>2, <2>3, GoesHome DEF Enters
<1>3. CASE Mark(t)
  <2>1. AtIt(t) /\ Release(t)
    BY <1>3 DEF Mark, Done, AtIt
  <2>2. \/ seenFile' = seenFile \cup ({Name(Ev(t))} \ {NoName}) /\ seen' = seen \cup ({Name(Ev(t))} \ {NoName})
        \/ seenFile' = seenFile /\ seen' = seen
        \/ Named(Ev(t)) /\ seenFile' = seenFile \cup {Name(Ev(t))} /\ seen' = seen
    BY <1>3 DEF Mark
  <2>3. Saw(seen, seen', Ev(t)) /\ Saw(seenFile, seenFile', Ev(t)) /\ seen' \subseteq seen \cup seenFile'
    BY <2>2 DEF Saw, Named
  <2>4. QED
    BY <1>0, <2>1, <2>3 DEF Finishes
<1>4. CASE ModelRaises(t) \/ RecordUserRaises(t) \/ UndoUser(t) \/ PostRaises(t)
  <2>1. AtIt(t) /\ Release(t) /\ seen' = seen /\ seenFile' = seenFile
    BY <1>4 DEF ModelRaises, RecordUserRaises, UndoUser, PostRaises, AtIt, storeVars
  <2>2. QED
    BY <1>0, <2>1 DEF Finishes, Saw
<1>5. CASE PassOver(t)
  <2>1. AtIt(t) /\ lock' = lock /\ seen' = seen /\ seenFile' = seenFile
    BY <1>5 DEF PassOver, AtIt, respondRest, storeVars
  <2>2. PICK r : Becomes(t, r) /\ r.at = "route" /\ r.ev = thread[t].ev
    BY <1>5, PassedOver
  <2>3. QED
    BY <1>a, <2>1, <2>2
<1>6. CASE ReadSummary(t)
  <2>1. AtIt(t) /\ lock' = lock /\ seen' = seen /\ seenFile' = seenFile
    BY <1>6 DEF ReadSummary, AtIt, respondRest, storeVars
  <2>2. PICK r : Becomes(t, r) /\ r.at = "read" /\ r.ev = thread[t].ev
    BY <1>6, SummaryRead
  <2>3. QED
    BY <1>a, <2>1, <2>2
<1>7. CASE ReadTurns(t)
  <2>1. AtIt(t) /\ lock' = lock /\ seen' = seen /\ seenFile' = seenFile
    BY <1>7 DEF ReadTurns, AtIt, respondRest, storeVars
  <2>2. PICK r : Becomes(t, r) /\ r.at = "model" /\ r.ev = thread[t].ev
    BY <1>7, TurnsRead
  <2>3. QED
    BY <1>a, <2>1, <2>2
<1>8. CASE StayQuiet(t)
  <2>1. AtIt(t) /\ lock' = lock /\ seen' = seen /\ seenFile' = seenFile /\ NextPersona(t, <<>>, 0)
    BY <1>8 DEF StayQuiet, AtIt, respondRest, storeVars
  <2>2. QED
    BY <1>c, <2>1
<1>9. CASE Post(t)
  <2>1. AtIt(t) /\ lock' = lock /\ seen' = seen /\ seenFile' = seenFile
    BY <1>9 DEF Post, AtIt, storeVars
  <2>2. PICK more : NextPersona(t, more, 1)
    BY <1>9 DEF Post
  <2>3. QED
    BY <1>c, <2>1, <2>2
<1>10. CASE Reply(t) \/ RecordPersona(t) \/ RecordPersonaRaises(t)
  <2>1. AtIt(t) /\ lock' = lock /\ seen' = seen /\ seenFile' = seenFile
    BY <1>10 DEF Reply, RecordPersona, RecordPersonaRaises, AtIt, respondRest, storeVars
  <2>2. Goes(t, "user") \/ Goes(t, "post") \/ Goes(t, "undo")
    BY <1>10 DEF Reply, RecordPersona, RecordPersonaRaises
  <2>3. QED
    BY <1>b, <2>1, <2>2
<1>11. CASE RecordUser(t) \/ RecordNothing(t)
  <2>1. AtIt(t) /\ lock' = lock /\ seen' = seen /\ seenFile' = seenFile
    BY <1>11 DEF RecordUser, RecordNothing, AtIt, respondRest, storeVars
  <2>2. PICK i : thread' = [thread EXCEPT ![t].at = "persona", ![t].mine = i, ![t].prompt = NoPrompt]
    BY <1>11 DEF RecordUser, RecordNothing
  <2>3. PICK r : Becomes(t, r) /\ r.at = "persona" /\ r.ev = thread[t].ev
    BY <2>2, UserRecorded
  <2>4. QED
    BY <1>a, <2>1, <2>3
<1>12. QED
  BY <1>2, <1>3, <1>4, <1>5, <1>6, <1>7, <1>8, <1>9, <1>10, <1>11 DEF Handle

(* A thread stays with its event until it is idle.                          *)
LEMMA HandleAdvances ==
  ASSUME ShapeInv, NEW t \in Threads, Handle(t)
  PROVE  thread[t].at # "idle" /\ \E r : Becomes(t, r) /\ (r = Idle \/ r.ev = thread[t].ev)
<1>1. CASE WorksOn(t)
  BY <1>1 DEF WorksOn, AtIt, Stays
<1>2. CASE Enters(t)
  BY <1>2 DEF Enters, Stays
<1>3. CASE Finishes(t)
  BY <1>3 DEF Finishes, AtIt
<1>4. QED
  BY <1>1, <1>2, <1>3, HandleWorks


(* At first every thread is at rest.                                        *)
LEMMA ShapeInit == ASSUME Init PROVE ShapeInv
<1>1. thread = [t \in Threads |-> Idle] /\ delivered = [e \in Events |-> 0]
      /\ posted = [e \in Events |-> 0] /\ forgets = <<>>
  BY DEF Init
<1> HIDE DEF Idle
<1>2. thread = [t \in Threads |-> thread[t]] /\ \A t \in Threads : thread[t] = Idle
  BY <1>1
<1>3. delivered \in [Events -> Nat] /\ posted \in [Events -> Nat]
  BY <1>1
<1>4. forgets \in Seq(Forgettings)
  BY <1>1
<1>5. QED
  BY <1>2, <1>3, <1>4, IdleShaped DEF ShapeInv

(* The other variables of shape, after a step of a thread.                  *)
LEMMA HandleKeeps ==
  ASSUME NEW t \in Threads, Handle(t)
  PROVE  /\ delivered' = delivered /\ forgets' = forgets
         /\ posted' = posted \/ (AtIt(t) /\ posted' = [posted EXCEPT ![Ev(t)] = @ + 1])
<1>1. CASE Enter(t) \/ Mark(t) \/ ModelRaises(t) \/ RecordUserRaises(t) \/ UndoUser(t) \/ PostRaises(t)
  BY <1>1 DEF Enter, Mark, ModelRaises, RecordUserRaises, UndoUser, PostRaises, boundVars
<1>2. CASE \/ PassOver(t) \/ ReadSummary(t) \/ ReadTurns(t) \/ StayQuiet(t) \/ Reply(t)
           \/ RecordNothing(t) \/ RecordUser(t) \/ RecordPersona(t) \/ RecordPersonaRaises(t)
  BY <1>2 DEF PassOver, ReadSummary, ReadTurns, StayQuiet, Reply, RecordNothing, RecordUser,
              RecordPersona, RecordPersonaRaises, respondRest
<1>3. CASE Post(t)
  BY <1>3 DEF Post, boundVars, AtIt
<1>4. QED
  BY <1>1, <1>2, <1>3 DEF Handle

(* A delivery is of an event there is, and wakes at most an idle thread.    *)
Wakes(t, e) ==
  /\ thread[t].at = "idle" /\ delivered' = [delivered EXCEPT ![e] = @ + 1]
  /\ \/ thread' = thread
     \/ \E r : Becomes(t, r) /\ r.at = "enter" /\ r.ev = e
  /\ lock' = lock /\ seen' = seen /\ seenFile' = seenFile /\ disk' = disk /\ spoken' = spoken
  /\ cut' = cut /\ misread' = misread /\ posted' = posted /\ forgets' = forgets

(* A delivery wakes at most the thread it is handed to.                     *)
LEMMA DeliverWakes ==
  ASSUME ShapeInv, NEW t \in Threads, Deliver(t)
  PROVE  \E e \in Events : Wakes(t, e)
<1>1. PICK e \in Events :
        /\ delivered' = [delivered EXCEPT ![e] = @ + 1]
        /\ \/ thread' = thread
           \/ thread' = [thread EXCEPT ![t] = [Idle EXCEPT !.at = "enter", !.ev = e]]
  BY DEF Deliver
<1>2. /\ thread[t].at = "idle" /\ lock' = lock /\ seen' = seen /\ seenFile' = seenFile
      /\ disk' = disk /\ spoken' = spoken /\ cut' = cut /\ misread' = misread
      /\ posted' = posted /\ forgets' = forgets
  BY DEF Deliver, storeVars, memoryVars
<1> DEFINE r == [Idle EXCEPT !.at = "enter", !.ev = e]
<1>3. Shaped(r) /\ r.at = "enter" /\ r.ev = e
  BY IdleShaped DEF Shaped
<1>4. thread' = thread \/ thread' = [thread EXCEPT ![t] = r]
  BY <1>1
<1> HIDE DEF r
<1>5. thread' = thread \/ Becomes(t, r)
  BY <1>3, <1>4, Moves
<1>6. Wakes(t, e)
  BY <1>1, <1>2, <1>3, <1>5 DEF Wakes
<1>7. QED
  BY <1>6

(* No step takes a thread out of its shape, or to an event that never came. *)
LEMMA ShapeStep ==
  ASSUME ShapeInv, [Next]_vars
  PROVE  ShapeInv'
<1>0. /\ thread = [t \in Threads |-> thread[t]] /\ \A t \in Threads : Shaped(thread[t])
      /\ \A t \in Threads : thread[t].at # "idle" => Ev(t) \in Events /\ delivered[Ev(t)] > 0
      /\ delivered \in [Events -> Nat] /\ posted \in [Events -> Nat]
      /\ forgets \in Seq(Forgettings)
  BY DEF ShapeInv, AtWork
<1>1. CASE \E t \in Threads : Handle(t)
  <2>1. PICK t \in Threads : Handle(t)
    BY <1>1
  <2>2. PICK r : Becomes(t, r) /\ (r = Idle \/ r.ev = thread[t].ev) /\ thread[t].at # "idle"
    BY <2>1, HandleAdvances
  <2>3. /\ delivered' = delivered /\ forgets' = forgets
        /\ posted' = posted \/ (AtIt(t) /\ posted' = [posted EXCEPT ![Ev(t)] = @ + 1])
    BY <2>1, HandleKeeps
  <2>4. posted' \in [Events -> Nat]
    <3> DEFINE e == Ev(t)
    <3>1. AtIt(t) => e \in Events
      BY <1>0 DEF AtIt
    <3> HIDE DEF e
    <3>2. CASE AtIt(t) /\ posted' = [posted EXCEPT ![e] = @ + 1]
      BY <1>0, <3>1, <3>2
    <3>3. QED
      BY <1>0, <2>3, <3>2 DEF e
  <2>5. /\ thread' = [u \in Threads |-> thread'[u]] /\ \A u \in Threads : Shaped(thread'[u])
        /\ thread'[t] = r /\ \A u \in Threads : u # t => thread'[u] = thread[u]
    BY <2>2 DEF Becomes
  <2>6. ASSUME NEW u \in Threads, thread'[u].at # "idle"
        PROVE  thread'[u].ev \in Events /\ delivered'[thread'[u].ev] > 0
    <3>1. thread'[u].ev = thread[u].ev /\ thread[u].at # "idle"
      BY <2>2, <2>5, <2>6, IdleShaped
    <3>2. QED
      BY <1>0, <2>3, <3>1 DEF Ev
  <2>7. QED
    BY <1>0, <2>3, <2>4, <2>5, <2>6 DEF ShapeInv, AtWork, Ev
<1>2. CASE \E t \in Threads : Deliver(t)
  <2>1. PICK t \in Threads, e \in Events : Wakes(t, e)
    BY <1>2, DeliverWakes
  <2>2. /\ delivered' = [delivered EXCEPT ![e] = @ + 1] /\ forgets' = forgets /\ posted' = posted
        /\ \/ thread' = thread
           \/ \E r : Becomes(t, r) /\ r.at = "enter" /\ r.ev = e
    BY <2>1 DEF Wakes
  <2>3. delivered' \in [Events -> Nat] /\ delivered'[e] > 0
        /\ \A x \in Events : delivered[x] > 0 => delivered'[x] > 0
    BY <1>0, <2>2
  <2>4. /\ thread' = [u \in Threads |-> thread'[u]] /\ \A u \in Threads : Shaped(thread'[u])
        /\ \A u \in Threads : thread'[u] = thread[u] \/ thread'[u].ev = e
    BY <1>0, <2>2 DEF Becomes
  <2>5. ASSUME NEW u \in Threads, thread'[u].at # "idle"
        PROVE  thread'[u].ev \in Events /\ delivered'[thread'[u].ev] > 0
    BY <1>0, <2>3, <2>4, <2>5 DEF Ev
  <2>6. QED
    BY <1>0, <2>2, <2>3, <2>4, <2>5 DEF ShapeInv, AtWork, Ev
<1>3. CASE Crash
  <2>1. thread' = [t \in Threads |-> Idle] /\ delivered' = delivered /\ posted' = posted
        /\ forgets' = forgets
    BY <1>3 DEF Crash
  <2>2. thread' = [t \in Threads |-> thread'[t]] /\ \A t \in Threads : thread'[t] = Idle
    <3> HIDE DEF Idle
    <3>1. QED BY <2>1
  <2>3. QED
    BY <1>0, <2>1, <2>2, IdleShaped DEF ShapeInv, AtWork, Ev
<1>4. CASE \E p \in Personas : ForgetThread(p)
  <2>1. PICK p \in Personas : ForgetThread(p)
    BY <1>4
  <2> DEFINE m == \E t \in Threads : Halfway(t) /\ P(t) = p
             f == [of |-> p, midway |-> m]
  <2>2. thread' = thread /\ delivered' = delivered /\ posted' = posted /\ forgets' = Append(forgets, f)
    BY <2>1 DEF ForgetThread, threadVars
  <2>3. m \in BOOLEAN
    OBVIOUS
  <2> HIDE DEF m
  <2>4. f \in Forgettings
    BY <2>3, Zenon DEF Forgettings
  <2> HIDE DEF f
  <2>5. forgets' \in Seq(Forgettings)
    BY <1>0, <2>2, <2>4
  <2>6. QED
    BY <1>0, <2>2, <2>5 DEF ShapeInv, AtWork, Ev
<1>5. CASE UNCHANGED vars
  <2>1. thread' = thread /\ delivered' = delivered /\ posted' = posted /\ forgets' = forgets
    BY <1>5 DEF vars, threadVars, boundVars
  <2>2. QED
    BY <1>0, <2>1 DEF ShapeInv, AtWork, Ev
<1>6. QED
  BY <1>1, <1>2, <1>3, <1>4, <1>5 DEF Next

-----------------------------------------------------------------------------
(* The lock, and what was seen.                                             *)

LockInv ==
  /\ lock \in Threads \cup {NoOne}
  /\ \A t \in Threads : lock = t => AtIt(t)
  /\ \A t \in Threads : AtIt(t) => (Named(Ev(t)) <=> lock = t) /\ Name(Ev(t)) \notin seen
  /\ seen \subseteq seenFile /\ NoName \notin seenFile

(* At first the lock is free and nothing was seen.                          *)
LEMMA LockInit == ASSUME Init PROVE LockInv
<1>1. thread = [t \in Threads |-> Idle] /\ lock = NoOne /\ seen = {} /\ seenFile = {}
  BY DEF Init
<1> HIDE DEF Idle
<1>2. \A t \in Threads : thread[t].at = "idle"
  BY <1>1, IdleShaped
<1>3. QED
  BY <1>1, <1>2, ChatAssumption DEF LockInv, AtIt

(* The check and the mark are one critical section.                         *)
LEMMA LockStep ==
  ASSUME ShapeInv, LockInv, [Next]_vars
  PROVE  LockInv'
<1>0. /\ lock \in Threads \cup {NoOne} /\ NoOne \notin Threads
      /\ \A t \in Threads : lock = t => AtIt(t)
      /\ \A t \in Threads : AtIt(t) => (Named(Ev(t)) <=> lock = t) /\ Name(Ev(t)) \notin seen
      /\ seen \subseteq seenFile /\ NoName \notin seenFile
  BY ChatAssumption DEF LockInv
<1>1. ASSUME NEW t \in Threads, WorksOn(t)
      PROVE  LockInv'
  <2>1. PICK r : Becomes(t, r) /\ r.ev = thread[t].ev /\ r.at \notin {"idle", "enter"}
    BY <1>1 DEF WorksOn, Stays
  <2>2. AtIt(t) /\ lock' = lock /\ seen' = seen /\ seenFile' = seenFile
    BY <1>1 DEF WorksOn
  <2>3. \A u \in Threads : (AtIt(u)' <=> AtIt(u)) /\ Ev(u)' = Ev(u)
    BY <2>1, <2>2 DEF Becomes, AtIt, Ev
  <2>4. QED
    BY <1>0, <2>2, <2>3 DEF LockInv, Named, Name
<1>2. ASSUME NEW t \in Threads, Enters(t)
      PROVE  LockInv'
  <2>1. ~AtIt(t) /\ seen' = seen /\ seenFile' = seenFile
    BY <1>2 DEF Enters, AtIt
  <2>2. CASE Becomes(t, Idle) /\ lock' = lock
    <3>1. \A u \in Threads : (AtIt(u)' <=> AtIt(u)) /\ (AtIt(u) => Ev(u)' = Ev(u))
      BY <2>1, <2>2, IdleShaped DEF Becomes, AtIt, Ev
    <3>2. QED
      BY <1>0, <2>1, <2>2, <3>1 DEF LockInv, Named, Name
  <2>3. CASE Stays(t)
    <3>1. PICK r : Becomes(t, r) /\ r.ev = thread[t].ev /\ r.at \notin {"idle", "enter"}
      BY <2>3 DEF Stays
    <3>2. /\ \A u \in Threads : Ev(u)' = Ev(u) /\ (u # t => (AtIt(u)' <=> AtIt(u)))
          /\ AtIt(t)'
      BY <3>1 DEF Becomes, AtIt, Ev
    <3>3. CASE ~Named(Ev(t)) /\ lock' = lock
      BY <1>0, <2>1, <3>2, <3>3 DEF LockInv, Named, Name
    <3>4. CASE Named(Ev(t)) /\ Name(Ev(t)) \notin seen /\ lock = NoOne /\ lock' = t
      BY <1>0, <2>1, <3>2, <3>4 DEF LockInv, Named, Name
    <3>5. \/ Becomes(t, Idle) /\ lock' = lock
          \/ ~Named(Ev(t)) /\ lock' = lock
          \/ Named(Ev(t)) /\ Name(Ev(t)) \notin seen /\ lock = NoOne /\ lock' = t
      BY <1>2 DEF Enters
    <3>6. QED
      BY <2>2, <3>3, <3>4, <3>5
  <2>4. QED
    BY <1>2, <2>2, <2>3 DEF Enters
<1>3. ASSUME NEW t \in Threads, Finishes(t)
      PROVE  LockInv'
  <2>1. /\ AtIt(t) /\ Becomes(t, Idle) /\ lock' = IF lock = t THEN NoOne ELSE lock
        /\ seen \subseteq seen' /\ seen' \subseteq seen \cup ({Name(Ev(t))} \ {NoName})
        /\ seenFile \subseteq seenFile' /\ seenFile' \subseteq seenFile \cup ({Name(Ev(t))} \ {NoName})
        /\ seen' \subseteq seen \cup seenFile'
    BY <1>3 DEF Finishes, Saw
  <2>2. ~AtIt(t)' /\ \A u \in Threads : u # t => (AtIt(u)' <=> AtIt(u)) /\ Ev(u)' = Ev(u)
    BY <2>1, IdleShaped DEF Becomes, AtIt, Ev
  <2>3. ASSUME NEW u \in Threads, AtIt(u)'
        PROVE  (Named(Ev(u)') <=> lock' = u) /\ Name(Ev(u)') \notin seen'
    <3>1. u # t /\ AtIt(u) /\ Ev(u)' = Ev(u)
      BY <2>2, <2>3
    <3>2. Named(Ev(u)) <=> lock' = u
      BY <1>0, <2>1, <3>1
    <3>3. Name(Ev(u)) \notin seen'
      <4>1. CASE Name(Ev(u)) = Name(Ev(t))
        BY <1>0, <2>1, <3>1, <4>1 DEF Named
      <4>2. CASE Name(Ev(u)) # Name(Ev(t))
        BY <1>0, <2>1, <3>1, <4>2
      <4>3. QED
        BY <4>1, <4>2
    <3>4. QED
      BY <3>1, <3>2, <3>3
  <2>4. \A u \in Threads : lock' = u => AtIt(u)'
    BY <1>0, <2>1, <2>2
  <2>5. lock' \in Threads \cup {NoOne} /\ seen' \subseteq seenFile' /\ NoName \notin seenFile'
    BY <1>0, <2>1
  <2>6. QED
    BY <2>3, <2>4, <2>5 DEF LockInv, Named, Name
<1>4. ASSUME NEW t \in Threads, Deliver(t)
      PROVE  LockInv'
  <2>1. PICK e \in Events : Wakes(t, e)
    BY <1>4, DeliverWakes
  <2>2. /\ thread[t].at = "idle" /\ lock' = lock /\ seen' = seen /\ seenFile' = seenFile
        /\ \/ thread' = thread
           \/ \E r : Becomes(t, r) /\ r.at = "enter" /\ r.ev = e
    BY <2>1 DEF Wakes
  <2>3. \A u \in Threads : (AtIt(u)' <=> AtIt(u)) /\ (AtIt(u) => Ev(u)' = Ev(u))
    BY <2>2 DEF Becomes, AtIt, Ev
  <2>4. QED
    BY <1>0, <2>2, <2>3 DEF LockInv, Named, Name
<1>5. CASE Crash
  <2>1. thread' = [t \in Threads |-> Idle] /\ lock' = NoOne /\ seen' = seenFile /\ seenFile' = seenFile
    BY <1>5 DEF Crash
  <2> HIDE DEF Idle
  <2>2. \A t \in Threads : ~AtIt(t)'
    BY <2>1, IdleShaped DEF AtIt
  <2>3. QED
    BY <1>0, <2>1, <2>2 DEF LockInv
<1>6. CASE (\E p \in Personas : ForgetThread(p)) \/ UNCHANGED vars
  <2>1. thread' = thread /\ lock' = lock /\ seen' = seen /\ seenFile' = seenFile
    BY <1>6 DEF ForgetThread, vars, threadVars, storeVars
  <2>2. \A u \in Threads : (AtIt(u)' <=> AtIt(u)) /\ Ev(u)' = Ev(u)
    BY <2>1 DEF AtIt, Ev
  <2>3. QED
    BY <1>0, <2>1, <2>2 DEF LockInv, Named, Name
<1>7. QED
  BY <1>1, <1>2, <1>3, <1>4, <1>5, <1>6, HandleWorks DEF Next

(* The lock is held by whoever is at an event with a name, in every run.    *)
LEMMA LockHolds == Spec => [](ShapeInv /\ LockInv)
<1>1. Init => ShapeInv /\ LockInv
  BY ShapeInit, LockInit
<1>2. ShapeInv /\ LockInv /\ [Next]_vars => (ShapeInv /\ LockInv)'
  BY ShapeStep, LockStep
<1>3. QED
  BY <1>1, <1>2, PTL DEF Spec


-----------------------------------------------------------------------------
(* What a step does to each transcript.                                     *)

Functional ==
  disk = [p \in Personas |-> disk[p]] /\ spoken = [p \in Personas |-> spoken[p]]

Same(q) == disk'[q] = disk[q] /\ spoken'[q] = spoken[q]

(* What is on disk after a record, wherever it was cut short.               *)
Made(d, i, line, read) ==
  {Write(d, i, line)} \cup HalfRecorded(d, i, line, read) \cup Recorded(d, i, line, read)

(* The thread makes a record, or some of one; with every file read it says  *)
(* the next turn, or else one whose index may be in use.                    *)
OneRecord(t) ==
  /\ thread[t].at \in Roles
  /\ \E read \in BOOLEAN : \E i \in Indices(t, read) :
       /\ Leaves(t, Made(disk[P(t)], i, Line(t, thread[t].at), read), read)
       /\ Says(t, thread[t].at, i)
Records(t, q) ==
  /\ thread[t].at \in Roles /\ P(t) = q
  /\ disk'[q] \in Made(disk[q], NextIndex(disk[q]), Line(t, thread[t].at), TRUE)
  /\ spoken'[q] = Append(spoken[q], Turn(disk[q], thread[t].at, Ev(t)))
Misreads(t, q) ==
  /\ thread[t].at \in Roles /\ P(t) = q /\ q \in misread'
  /\ \E i : /\ disk'[q] \in Made(disk[q], i, Line(t, thread[t].at), FALSE)
            /\ spoken'[q] = Append(spoken[q], [idx |-> i, line |-> Line(t, thread[t].at)])
Withdraws(t, q) ==
  /\ thread[t].at = "undo" /\ P(t) = q
  /\ disk'[q] = Forget(disk[q], thread[t].mine)
  /\ IF \E u \in Unfolded(disk[q]) : u.idx = thread[t].mine
     THEN spoken'[q] = Withdrawn(spoken[q], thread[t].mine)
     ELSE spoken'[q] = spoken[q]
Clears(q) == disk'[q] = NoThread /\ spoken'[q] = <<>>

RecordsOnly(t) ==
  \A q \in Personas : IF q = P(t) THEN Records(t, q) \/ Misreads(t, q) ELSE Same(q)
WithdrawsOnly(t) == \A q \in Personas : IF q = P(t) THEN Withdraws(t, q) ELSE Same(q)
SameForAll == \A q \in Personas : Same(q)

(* A record changes the one transcript it is made in.                       *)
LEMMA RecordsOne ==
  ASSUME Functional, NEW t \in Threads, OneRecord(t)
  PROVE  Functional' /\ RecordsOnly(t) /\ misread \subseteq misread'
<1> DEFINE p == P(t)
           role == thread[t].at
           line == Line(t, role)
<1>1. PICK read \in BOOLEAN :
        \E i \in Indices(t, read) :
          /\ Leaves(t, Made(disk[P(t)], i, Line(t, thread[t].at), read), read)
          /\ Says(t, thread[t].at, i)
  BY DEF OneRecord
<1>2. PICK i \in Indices(t, read) : Leaves(t, Made(disk[p], i, line, read), read) /\ Says(t, role, i)
  BY <1>1
<1>3. PICK d \in Made(disk[p], i, line, read) : disk' = [disk EXCEPT ![p] = d]
  BY <1>2 DEF Leaves
<1>4. misread' = IF read THEN misread ELSE misread \cup {p}
  BY <1>2 DEF Leaves
<1> DEFINE u == [idx |-> i, line |-> line]
<1>5. spoken' = [spoken EXCEPT ![p] = Append(@, u)]
  BY <1>2 DEF Says
<1>6. disk = [q \in Personas |-> disk[q]] /\ spoken = [q \in Personas |-> spoken[q]]
  BY DEF Functional
<1>7. role \in Roles
  BY DEF OneRecord
<1>8. read = TRUE => i = NextIndex(disk[p]) /\ u = Turn(disk[p], role, Ev(t))
  <2>1. ASSUME read = TRUE
        PROVE  i = NextIndex(disk[p])
    <3>1. i \in {NextIndex(v) : v \in Views(disk[p], TRUE)}
      BY <2>1 DEF Indices
    <3>2. Views(disk[p], TRUE) = {disk[p]}
      BY ReadWhole
    <3>3. QED
      BY <3>1, <3>2
  <2>2. QED
    BY <2>1 DEF Turn, Line
<1> HIDE DEF u
<1>9. /\ disk' = [q \in Personas |-> IF q = p THEN d ELSE disk[q]]
      /\ spoken' = [q \in Personas |-> IF q = p THEN Append(spoken[q], u) ELSE spoken[q]]
  BY <1>3, <1>5, <1>6
<1>10. Functional'
  BY <1>9 DEF Functional
<1>11. ASSUME NEW q \in Personas, q = p
       PROVE  Records(t, q) \/ Misreads(t, q)
  <2>1. disk'[q] = d /\ spoken'[q] = Append(spoken[q], u) /\ P(t) = q
    BY <1>9, <1>11
  <2>2. CASE read = TRUE
    <3>1. d \in Made(disk[q], NextIndex(disk[q]), Line(t, thread[t].at), TRUE)
      BY <1>3, <1>8, <1>11, <2>2
    <3>2. u = Turn(disk[q], thread[t].at, Ev(t))
      BY <1>8, <1>11, <2>2
    <3>3. QED
      BY <1>7, <2>1, <3>1, <3>2 DEF Records
  <2>3. CASE read = FALSE
    <3>1. d \in Made(disk[q], i, Line(t, thread[t].at), FALSE) /\ q \in misread'
      BY <1>3, <1>4, <1>11, <2>3
    <3>2. QED
      BY <1>7, <2>1, <3>1 DEF Misreads, u
  <2>4. QED
    BY <2>2, <2>3
<1>12. ASSUME NEW q \in Personas, q # p
       PROVE  Same(q)
  BY <1>9, <1>12 DEF Same
<1>13. QED
  BY <1>4, <1>10, <1>11, <1>12 DEF RecordsOnly

(* The actions that make a record.                                          *)
LEMMA HandleRecords ==
  ASSUME NEW t \in Threads
  PROVE  /\ RecordUser(t) \/ RecordPersona(t) => OneRecord(t)
         /\ RecordUserRaises(t) \/ RecordPersonaRaises(t) =>
              UNCHANGED memoryVars \/ (OneRecord(t) /\ cut' = cut \cup {<<P(t), Ev(t)>>})
<1>1. ASSUME NEW read \in BOOLEAN, NEW i \in Indices(t, read), NEW D,
             D \subseteq Made(disk[P(t)], i, Line(t, thread[t].at), read),
             Leaves(t, D, read), Says(t, thread[t].at, i), thread[t].at \in Roles
      PROVE  OneRecord(t)
  <2>1. Leaves(t, Made(disk[P(t)], i, Line(t, thread[t].at), read), read)
    BY <1>1 DEF Leaves
  <2>2. QED
    BY <1>1, <2>1 DEF OneRecord
<1>2. ASSUME NEW role \in Roles, thread[t].at = role, NEW read \in BOOLEAN, NEW i \in Indices(t, read),
             Leaves(t, Recorded(disk[P(t)], i, Line(t, role), read), read), Says(t, role, i)
      PROVE  OneRecord(t)
  <2> DEFINE D == Recorded(disk[P(t)], i, Line(t, role), read)
  <2>1. D \subseteq Made(disk[P(t)], i, Line(t, role), read)
    BY DEF Made
  <2> HIDE DEF D
  <2>2. QED
    BY <1>1, <1>2, <2>1 DEF D
<1>3. ASSUME NEW role \in Roles, thread[t].at = role, RaisesHalfway(t, role)
      PROVE  OneRecord(t) /\ cut' = cut \cup {<<P(t), Ev(t)>>}
  <2>1. PICK read \in BOOLEAN : \E i \in Indices(t, read) :
          /\ Leaves(t, HalfRecorded(disk[P(t)], i, Line(t, role), read), read)
          /\ Says(t, role, i)
    BY <1>3 DEF RaisesHalfway, Reads
  <2>2. PICK i \in Indices(t, read) :
          /\ Leaves(t, HalfRecorded(disk[P(t)], i, Line(t, role), read), read)
          /\ Says(t, role, i)
    BY <2>1
  <2> DEFINE D == HalfRecorded(disk[P(t)], i, Line(t, role), read)
  <2>3. D \subseteq Made(disk[P(t)], i, Line(t, role), read)
    BY DEF Made
  <2>4. cut' = cut \cup {<<P(t), Ev(t)>>}
    BY <1>3 DEF RaisesHalfway
  <2> HIDE DEF D
  <2>5. QED
    BY <1>1, <1>3, <2>2, <2>3, <2>4 DEF D
<1>4. ASSUME RecordUser(t)
      PROVE  OneRecord(t)
  <2>1. PICK read \in BOOLEAN : \E i \in Indices(t, read) :
          /\ Leaves(t, Recorded(disk[P(t)], i, Line(t, "user"), read), read)
          /\ Says(t, "user", i)
    BY <1>4 DEF RecordUser
  <2>2. thread[t].at = "user"
    BY <1>4 DEF RecordUser
  <2>3. QED
    BY <1>2, <2>1, <2>2 DEF Roles
<1>5. ASSUME RecordPersona(t)
      PROVE  OneRecord(t)
  <2>1. PICK read \in BOOLEAN : \E i \in Indices(t, read) :
          /\ Leaves(t, Recorded(disk[P(t)], i, Line(t, "persona"), read), read)
          /\ Says(t, "persona", i)
    BY <1>5 DEF RecordPersona
  <2>2. thread[t].at = "persona"
    BY <1>5 DEF RecordPersona
  <2>3. QED
    BY <1>2, <2>1, <2>2 DEF Roles
<1>6. ASSUME RecordUserRaises(t)
      PROVE  UNCHANGED memoryVars \/ (OneRecord(t) /\ cut' = cut \cup {<<P(t), Ev(t)>>})
  <2>1. thread[t].at = "user" /\ (UNCHANGED memoryVars \/ RaisesHalfway(t, "user"))
    BY <1>6 DEF RecordUserRaises
  <2>2. QED
    BY <1>3, <2>1 DEF Roles
<1>7. ASSUME RecordPersonaRaises(t)
      PROVE  UNCHANGED memoryVars \/ (OneRecord(t) /\ cut' = cut \cup {<<P(t), Ev(t)>>})
  <2>1. thread[t].at = "persona" /\ (UNCHANGED memoryVars \/ RaisesHalfway(t, "persona"))
    BY <1>7 DEF RecordPersonaRaises
  <2>2. QED
    BY <1>3, <2>1 DEF Roles
<1>8. QED
  BY <1>4, <1>5, <1>6, <1>7

(* A withdrawal changes one transcript too.                                 *)
LEMMA WithdrawsOne ==
  ASSUME Functional, NEW t \in Threads, thread[t].at = "undo",
         disk' = [disk EXCEPT ![P(t)] = Forget(@, thread[t].mine)],
         IF \E u \in Unfolded(disk[P(t)]) : u.idx = thread[t].mine
         THEN spoken' = [spoken EXCEPT ![P(t)] = Withdrawn(@, thread[t].mine)] ELSE spoken' = spoken
  PROVE  Functional' /\ WithdrawsOnly(t)
<1> DEFINE p == P(t)
           m == thread[t].mine
           w == Withdrawn(spoken[p], m)
           f == Forget(disk[p], m)
           there == \E u \in Unfolded(disk[p]) : u.idx = m
<1>1. /\ disk' = [disk EXCEPT ![p] = f]
      /\ IF there THEN spoken' = [spoken EXCEPT ![p] = w] ELSE spoken' = spoken
  OBVIOUS
<1>2. disk = [q \in Personas |-> disk[q]] /\ spoken = [q \in Personas |-> spoken[q]]
  BY DEF Functional
<1> HIDE DEF w, f, there, m, p
<1>3. /\ disk' = [q \in Personas |-> IF q = p THEN f ELSE disk[q]]
      /\ spoken' = [q \in Personas |-> IF q = p /\ there THEN w ELSE spoken[q]]
  BY <1>1, <1>2
<1>4. Functional'
  BY <1>3 DEF Functional
<1>5. ASSUME NEW q \in Personas, q = p
      PROVE  Withdraws(t, q)
  <2>1. disk'[q] = f /\ IF there THEN spoken'[q] = w ELSE spoken'[q] = spoken[q]
    BY <1>3, <1>5
  <2>2. /\ P(t) = q /\ f = Forget(disk[q], thread[t].mine) /\ w = Withdrawn(spoken[q], thread[t].mine)
        /\ there = \E u \in Unfolded(disk[q]) : u.idx = thread[t].mine
    BY <1>5 DEF p, f, w, m, there
  <2>3. QED
    BY <2>1, <2>2 DEF Withdraws
<1>6. ASSUME NEW q \in Personas, q # p
      PROVE  Same(q)
  BY <1>3, <1>6 DEF Same
<1>7. QED
  BY <1>4, <1>5, <1>6 DEF WithdrawsOnly, p

(* So does forgetting a thread.                                             *)
LEMMA ClearsOne ==
  ASSUME Functional, NEW p \in Personas, ForgetThread(p)
  PROVE  /\ Functional' /\ misread' = misread \ {p}
         /\ \A q \in Personas : IF q = p THEN Clears(q) ELSE Same(q)
<1>1. /\ disk' = [disk EXCEPT ![p] = NoThread] /\ spoken' = [spoken EXCEPT ![p] = <<>>]
      /\ misread' = misread \ {p}
  BY DEF ForgetThread
<1>2. disk = [q \in Personas |-> disk[q]] /\ spoken = [q \in Personas |-> spoken[q]]
  BY DEF Functional
<1>3. /\ disk' = [q \in Personas |-> IF q = p THEN NoThread ELSE disk[q]]
      /\ spoken' = [q \in Personas |-> IF q = p THEN <<>> ELSE spoken[q]]
  BY <1>1, <1>2
<1>4. QED
  BY <1>1, <1>3 DEF Functional, Clears, Same

(* What is not assigned stays for every persona.                            *)
LEMMA SameAll ==
  ASSUME Functional, disk' = disk, spoken' = spoken
  PROVE  Functional' /\ SameForAll
BY DEF Functional, Same, SameForAll

(* A rollback withdraws the turn, or raises and withdraws nothing.          *)
LEMMA UndoMemory ==
  ASSUME Functional, NEW t \in Threads, UndoUser(t)
  PROVE  /\ Functional' /\ thread[t].at = "undo" /\ misread' = misread
         /\ \/ SameForAll /\ thread[t].mine = NoTurn /\ cut' = cut
            \/ SameForAll /\ thread[t].mine # NoTurn /\ cut' = cut \cup {<<P(t), Ev(t)>>}
            \/ /\ WithdrawsOnly(t) /\ thread[t].mine # NoTurn
               /\ IF \E u \in Unfolded(disk[P(t)]) : u.idx = thread[t].mine
                  THEN cut' = cut ELSE cut' = cut \cup {<<P(t), Ev(t)>>}
<1>1. thread[t].at = "undo"
  BY DEF UndoUser
<1>2. CASE thread[t].mine = NoTurn /\ UNCHANGED memoryVars
  BY <1>1, <1>2, SameAll DEF memoryVars
<1>3. CASE /\ thread[t].mine # NoTurn
           /\ cut' = cut \cup {<<P(t), Ev(t)>>} /\ UNCHANGED <<disk, spoken, misread>>
  BY <1>1, <1>3, SameAll
<1>4. CASE /\ thread[t].mine # NoTurn
           /\ disk' = [disk EXCEPT ![P(t)] = Forget(@, thread[t].mine)]
           /\ IF \E u \in Unfolded(disk[P(t)]) : u.idx = thread[t].mine
              THEN spoken' = [spoken EXCEPT ![P(t)] = Withdrawn(@, thread[t].mine)] /\ UNCHANGED cut
              ELSE cut' = cut \cup {<<P(t), Ev(t)>>} /\ UNCHANGED spoken
           /\ UNCHANGED misread
  <2> DEFINE there == \E u \in Unfolded(disk[P(t)]) : u.idx = thread[t].mine
             w == [spoken EXCEPT ![P(t)] = Withdrawn(@, thread[t].mine)]
             c == cut \cup {<<P(t), Ev(t)>>}
  <2>1. IF there THEN spoken' = w /\ cut' = cut ELSE cut' = c /\ spoken' = spoken
    BY <1>4
  <2> HIDE DEF there, w, c
  <2>2. (IF there THEN spoken' = w ELSE spoken' = spoken) /\ (IF there THEN cut' = cut ELSE cut' = c)
    BY <2>1
  <2>3. Functional' /\ WithdrawsOnly(t)
    BY <1>1, <1>4, <2>2, WithdrawsOne DEF there, w
  <2>4. QED
    BY <1>1, <1>4, <2>2, <2>3 DEF there, c
<1>5. QED
  BY <1>2, <1>3, <1>4 DEF UndoUser

(* A step of a thread changes the transcript of its persona at most.        *)
LEMMA HandleMemory ==
  ASSUME Functional, NEW t \in Threads, Handle(t)
  PROVE  /\ Functional' /\ misread \subseteq misread'
         /\ SameForAll \/ RecordsOnly(t) \/ WithdrawsOnly(t)
<1>1. CASE UNCHANGED memoryVars
  BY <1>1, SameAll DEF memoryVars
<1>2. CASE \/ Enter(t) \/ Mark(t) \/ ModelRaises(t) \/ PostRaises(t) \/ PassOver(t) \/ ReadSummary(t)
           \/ ReadTurns(t) \/ StayQuiet(t) \/ Reply(t) \/ RecordNothing(t) \/ Post(t)
  BY <1>1, <1>2 DEF Enter, Mark, ModelRaises, PostRaises, PassOver, ReadSummary, ReadTurns,
                    StayQuiet, Reply, RecordNothing, Post
<1>3. CASE RecordUser(t) \/ RecordPersona(t)
  BY <1>3, HandleRecords, RecordsOne
<1>4. CASE RecordUserRaises(t) \/ RecordPersonaRaises(t)
  BY <1>1, <1>4, HandleRecords, RecordsOne
<1>5. CASE UndoUser(t)
  BY <1>5, UndoMemory
<1>6. QED
  BY <1>2, <1>3, <1>4, <1>5 DEF Handle

(* So does a crash, at most.                                                *)
LEMMA CrashMemory ==
  ASSUME Functional, Crash
  PROVE  /\ Functional' /\ misread \subseteq misread'
         /\ SameForAll \/ \E t \in Threads : RecordsOnly(t)
<1>1. CASE UNCHANGED <<disk, spoken, misread>>
  BY <1>1, SameAll
<1>2. CASE \E t \in Busy, read \in Reads : Recording(t) /\ \E i \in Indices(t, read) :
             Leaves(t, MidRecord(t, i, read), read) /\ Says(t, thread[t].at, i)
  <2>1. PICK t \in Threads, read \in BOOLEAN : Recording(t) /\ \E i \in Indices(t, read) :
             Leaves(t, MidRecord(t, i, read), read) /\ Says(t, thread[t].at, i)
    BY <1>2 DEF Busy, Reads
  <2>2. PICK i \in Indices(t, read) : Leaves(t, MidRecord(t, i, read), read) /\ Says(t, thread[t].at, i)
    BY <2>1
  <2> DEFINE D == MidRecord(t, i, read)
             M == Made(disk[P(t)], i, Line(t, thread[t].at), read)
  <2>3. D \subseteq M
    BY DEF MidRecord, Made
  <2> HIDE DEF D, M
  <2>4. Leaves(t, M, read)
    BY <2>2, <2>3 DEF Leaves, D
  <2>5. OneRecord(t)
    BY <2>1, <2>2, <2>4 DEF OneRecord, M, Recording
  <2>6. QED
    BY <2>5, RecordsOne
<1>3. QED
  BY <1>1, <1>2 DEF Crash

-----------------------------------------------------------------------------
(* Every transcript holds what was said, unless a record misread it; and    *)
(* every turn of its files is one that was said.                            *)

Framed(d) == d = [turns |-> d.turns, summary |-> d.summary, through |-> d.through]
Within(e, d) == Framed(e) /\ e.turns \subseteq d.turns
Backed(d, s) ==
  /\ Framed(d) /\ \E S : s \in Seq(S)
  /\ \A t \in d.turns : \E k \in 1..Len(s) : s[k].idx = t.idx

DiskInv ==
  /\ Functional
  /\ \A p \in Personas : Backed(disk[p], spoken[p])
  /\ \A p \in Personas \ misread : Holds(disk[p], spoken[p])

(* What is deleted or folded leaves no turn that was not there.             *)
LEMMA DeleteWithin ==
  ASSUME NEW d, Framed(d), NEW S
  PROVE  Within(Delete(d, S), d)
<1>1. Delete(d, S) = [turns |-> d.turns \ S, summary |-> d.summary, through |-> d.through]
  BY DEF Framed, Delete
<1>2. QED
  BY <1>1 DEF Within, Framed

LEMMA FoldWithin ==
  ASSUME NEW d, Framed(d), NEW v, NEW old
  PROVE  Within(Fold(d, v, old), d)
<1> DEFINE last == CHOOSE t \in ToFold(v) : \A u \in ToFold(v) : u.idx <= t.idx
           new == Newest(old \o LinesOf(ToFold(v)), SummaryMax)
           g == last.idx
<1>1. Fold(d, v, old) = [d EXCEPT !.summary = new, !.through = g]
  BY DEF Fold
<1> HIDE DEF new, g
<1>2. Fold(d, v, old) = [turns |-> d.turns, summary |-> new, through |-> g]
  BY <1>1 DEF Framed
<1>3. QED
  BY <1>2 DEF Within, Framed

(* Nor does a record but its own, whatever it read.                         *)
LEMMA MadeWithin ==
  ASSUME NEW d, Framed(d), NEW i, NEW line, NEW read \in BOOLEAN, NEW e \in Made(d, i, line, read)
  PROVE  Framed(e) /\ e.turns \subseteq d.turns \cup {[idx |-> i, line |-> line]}
<1> DEFINE w == Write(d, i, line)
           z == [idx |-> i, line |-> line]
<1>1. Framed(w) /\ w.turns \subseteq d.turns \cup {z}
  <2> DEFINE T == {t \in d.turns : t.idx # i} \cup {z}
  <2>1. w = [d EXCEPT !.turns = T]
    BY DEF Write
  <2>2. T \subseteq d.turns \cup {z}
    OBVIOUS
  <2> HIDE DEF T, w
  <2>3. w = [turns |-> T, summary |-> d.summary, through |-> d.through]
    BY <2>1 DEF Framed
  <2>4. QED
    BY <2>2, <2>3 DEF Framed
<1>2. \/ e = w \/ e \in HalfRecorded(d, i, line, read) \/ e \in Recorded(d, i, line, read)
  BY DEF Made
<1> HIDE DEF z
<1>3. ASSUME Within(e, w)
      PROVE  Framed(e) /\ e.turns \subseteq d.turns \cup {z}
  BY <1>1, <1>3 DEF Within
<1>4. ASSUME NEW h, Within(h, w), NEW S, e \in CutShort(h, S)
      PROVE  Within(e, w)
  <2>1. PICK T : e = Delete(h, T)
    BY <1>4 DEF CutShort
  <2>2. QED
    BY <1>4, <2>1, DeleteWithin DEF Within
<1>5. Within(w, w)
  BY <1>1 DEF Within
<1>6. ASSUME NEW s \in Swept(w, read)
      PROVE  Within(s[1], w)
  <2>1. PICK v \in Views(w, read) : \E u : s = <<Sweep(w, v), u>>
    BY <1>6 DEF Swept
  <2>2. s[1] = Delete(w, Folded(v))
    BY <2>1 DEF Sweep
  <2>3. QED
    BY <1>1, <2>2, DeleteWithin
<1>7. ASSUME NEW h, Within(h, w), NEW v, NEW old
      PROVE  Within(Fold(h, v, old), w)
  BY <1>7, FoldWithin DEF Within
<1>8. CASE e \in HalfRecorded(d, i, line, read)
  <2>1. \/ \E v \in Views(w, read) : e \in CutShort(w, Folded(v))
        \/ \E s \in Swept(w, read) : e \in HalfCompacted(s[1], s[2], read)
    BY <1>8 DEF HalfRecorded
  <2> HIDE DEF w
  <2>2. CASE \E v \in Views(w, read) : e \in CutShort(w, Folded(v))
    BY <1>3, <1>4, <1>5, <2>2 DEF z
  <2>3. CASE \E s \in Swept(w, read) : e \in HalfCompacted(s[1], s[2], read)
    <3>1. PICK s \in Swept(w, read) : e \in HalfCompacted(s[1], s[2], read)
      BY <2>3
    <3>2. Within(s[1], w)
      BY <1>6
    <3>3. e = s[1] \/ \E old : e \in CutShort(Fold(s[1], s[2], old), ToFold(s[2]))
      BY <3>1 DEF HalfCompacted
    <3>4. QED
      BY <1>3, <1>4, <1>7, <3>2, <3>3 DEF z
  <2>4. QED
    BY <2>1, <2>2, <2>3 DEF z
<1>9. CASE e \in Recorded(d, i, line, read)
  <2>1. PICK s \in Swept(w, read) : e \in Compacted(s[1], s[2], read)
    BY <1>9 DEF Recorded
  <2> HIDE DEF w
  <2>2. Within(s[1], w)
    BY <1>6
  <2>3. e = s[1] \/ \E old : e = Delete(Fold(s[1], s[2], old), ToFold(s[2]))
    BY <2>1 DEF Compacted
  <2>4. Within(e, w)
    BY <1>7, <2>2, <2>3, DeleteWithin DEF Within
  <2>5. QED
    BY <1>3, <2>4 DEF z
<1>10. QED
  BY <1>1, <1>2, <1>8, <1>9 DEF z

(* Every turn of a record's files was said.                                 *)
LEMMA RecordBacked ==
  ASSUME NEW d, NEW s, Backed(d, s), NEW i, NEW line, NEW read \in BOOLEAN,
         NEW e \in Made(d, i, line, read), NEW z, z = [idx |-> i, line |-> line]
  PROVE  Backed(e, Append(s, z))
<1>1. Framed(e) /\ e.turns \subseteq d.turns \cup {z}
  BY MadeWithin DEF Backed
<1>2. PICK S : s \in Seq(S)
  BY DEF Backed
<1> DEFINE Z == S \cup {z}
           r == Append(s, z)
<1>3. s \in Seq(Z) /\ z \in Z
  BY <1>2, SeqMonotonic
<1> HIDE DEF Z
<1>4. /\ r \in Seq(Z) /\ Len(r) = Len(s) + 1 /\ Len(s) \in Nat
      /\ r[Len(s) + 1] = z /\ \A k \in 1..Len(s) : r[k] = s[k]
  BY <1>3, AppendProperties, LenProperties
<1> HIDE DEF r
<1>5. ASSUME NEW t \in e.turns
      PROVE  \E k \in 1..Len(r) : r[k].idx = t.idx
  <2>1. CASE t = z
    BY <1>4, <2>1
  <2>2. CASE t \in d.turns
    <3>1. PICK k \in 1..Len(s) : s[k].idx = t.idx
      BY <2>2 DEF Backed
    <3>2. k \in 1..Len(r) /\ r[k] = s[k]
      BY <1>4, <3>1
    <3>3. QED
      BY <3>1, <3>2
  <2>3. QED
    BY <1>1, <2>1, <2>2
<1>6. QED
  BY <1>1, <1>4, <1>5 DEF Backed, r

(* A turn that is rolled back was said, and is so no more.                  *)
LEMMA WithdrawnPlace ==
  ASSUME NEW d, NEW s, Backed(d, s), NEW i, \E u \in Unfolded(d) : u.idx = i
  PROVE  \E k \in 1..Len(s) : s[k].idx = i /\ Withdrawn(s, i) = RemoveAt(s, k)
<1>1. DOMAIN s = 1..Len(s)
  BY LenProperties DEF Backed
<1>2. \E k \in 1..Len(s) : s[k].idx = i
  BY DEF Backed, Unfolded
<1>3. QED
  BY <1>1, <1>2 DEF Withdrawn

LEMMA ForgetBacked ==
  ASSUME NEW d, NEW s, Backed(d, s), NEW i
  PROVE  Backed(Forget(d, i), IF \E u \in Unfolded(d) : u.idx = i THEN Withdrawn(s, i) ELSE s)
<1> DEFINE e == Forget(d, i)
           T == {t \in d.turns : t.idx # i}
<1>1. e = [d EXCEPT !.turns = T]
  BY DEF Forget
<1>2. \A t \in T : t \in d.turns /\ t.idx # i
  OBVIOUS
<1> HIDE DEF T
<1>a. e = [turns |-> T, summary |-> d.summary, through |-> d.through]
  BY <1>1 DEF Backed, Framed
<1> HIDE DEF e
<1>b. Framed(e) /\ \A t \in e.turns : t \in d.turns /\ t.idx # i
  BY <1>2, <1>a DEF Framed
<1>3. \A t \in e.turns : \E k \in 1..Len(s) : s[k].idx = t.idx /\ t.idx # i
  BY <1>b DEF Backed
<1>4. CASE \E u \in Unfolded(d) : u.idx = i
  <2>1. PICK k \in 1..Len(s) : s[k].idx = i /\ Withdrawn(s, i) = RemoveAt(s, k)
    BY <1>4, WithdrawnPlace
  <2>2. PICK S : s \in Seq(S)
    BY DEF Backed
  <2> DEFINE r == RemoveAt(s, k)
             m == Len(s)
  <2>3. /\ r \in Seq(S) /\ Len(r) = m - 1 /\ m \in Nat /\ k \in 1..m
        /\ \A j \in 1..(m - 1) : r[j] = IF j < k THEN s[j] ELSE s[j + 1]
    BY <2>2, RemovedAt, LenProperties
  <2> HIDE DEF r
  <2>4. ASSUME NEW t \in e.turns
        PROVE  \E j \in 1..Len(r) : r[j].idx = t.idx
    <3>1. PICK j \in 1..m : s[j].idx = t.idx /\ t.idx # i
      BY <1>3
    <3> HIDE DEF m
    <3>2. j # k
      BY <2>1, <3>1
    <3>3. CASE j < k
      BY <2>3, <3>1, <3>3
    <3>4. CASE j > k
      <4>1. j - 1 \in 1..(m - 1) /\ ~(j - 1 < k) /\ j - 1 + 1 = j
        BY <2>3, <3>1, <3>4
      <4>2. r[j - 1] = s[j]
        BY <2>3, <4>1
      <4>3. QED
        BY <2>3, <3>1, <4>1, <4>2
    <3>5. QED
      BY <2>3, <3>2, <3>3, <3>4
  <2>5. Backed(e, r)
    BY <1>b, <2>3, <2>4 DEF Backed
  <2>6. QED
    BY <1>4, <2>1, <2>5 DEF e, r
<1>5. CASE ~\E u \in Unfolded(d) : u.idx = i
  <2>1. Backed(e, s)
    BY <1>b, <1>3 DEF Backed
  <2>2. QED
    BY <1>5, <2>1 DEF e
<1>6. QED
  BY <1>4, <1>5

(* Nothing was said of an empty thread.                                     *)
LEMMA NothingBacked == Backed(NoThread, <<>>)
<1>1. NoThread.turns = {} /\ Framed(NoThread)
  BY DEF NoThread, Framed
<1>2. <<>> \in Seq({})
  BY EmptySeq
<1>3. QED
  BY <1>1, <1>2 DEF Backed

(* At first nothing is on disk and nothing was said.                        *)
LEMMA DiskInit == ASSUME Init PROVE DiskInv
<1>1. disk = [p \in Personas |-> NoThread] /\ spoken = [p \in Personas |-> <<>>]
  BY DEF Init
<1> HIDE DEF NoThread
<1>2. QED
  BY <1>1, NothingHeld, NothingBacked DEF DiskInv, Functional

(* However a record ends, the transcript holds the turn it wrote.           *)
LEMMA RecordsHold ==
  ASSUME NEW d, NEW s, Holds(d, s), NEW role \in Roles, NEW x \in Events,
         NEW e \in Made(d, NextIndex(d), [role |-> role, of |-> x], TRUE)
  PROVE  Holds(e, Append(s, Turn(d, role, x)))
<1> DEFINE u == Turn(d, role, x)
<1>1. x \in Exchanges
  BY ChatAssumption
<1>2. u = [idx |-> NextIndex(d), line |-> [role |-> role, of |-> x]]
  BY DEF Turn
<1>3. u.idx = NextIndex(d) /\ u.line = [role |-> role, of |-> x]
  BY <1>2
<1>4. u = Turn(d, role, x)
  OBVIOUS
<1> HIDE DEF u
<1>5. CASE e \in Recorded(d, u.idx, u.line, TRUE)
  BY <1>1, <1>4, <1>5, RecordedHolds
<1>6. CASE e \in HalfRecorded(d, u.idx, u.line, TRUE)
  BY <1>1, <1>4, <1>6, HalfHolds
<1>7. CASE e = Write(d, u.idx, u.line)
  BY <1>1, <1>2, <1>4, <1>7, WriteHolds
<1>8. QED
  BY <1>3, <1>4, <1>5, <1>6, <1>7 DEF Made

(* A withdrawn turn is held no more; one that was folded is held still.     *)
LEMMA ForgetHolds ==
  ASSUME NEW d, NEW s, Holds(d, s), NEW i
  PROVE  Holds(Forget(d, i), IF \E u \in Unfolded(d) : u.idx = i THEN Withdrawn(s, i) ELSE s)
<1>1. CASE \E u \in Unfolded(d) : u.idx = i
  <2>1. PICK u \in Unfolded(d) : i = u.idx
    BY <1>1
  <2>2. QED
    BY <1>1, <2>1, WithdrawnHolds
<1>2. CASE ~\E u \in Unfolded(d) : u.idx = i
  <2> DEFINE T == {t \in d.turns : t.idx = i}
             e == Forget(d, i)
  <2>1. T \subseteq d.turns /\ T \cap Unfolded(d) = {}
    BY <1>2
  <2>2. {t \in d.turns : t.idx # i} = d.turns \ T
    OBVIOUS
  <2>3. e = Delete(d, T)
    BY <2>2 DEF Forget, Delete
  <2> HIDE DEF T, e
  <2>4. Holds(e, s)
    BY <2>1, <2>3, TrimHolds
  <2>5. QED
    BY <1>2, <2>4 DEF e
<1>3. QED
  BY <1>1, <1>2

(* No step parts a transcript from what was said.                           *)
LEMMA DiskStep ==
  ASSUME ShapeInv, DiskInv, [Next]_vars
  PROVE  DiskInv'
<1> DEFINE Kept(q) == /\ Backed(disk'[q], spoken'[q])
                      /\ q \notin misread => Holds(disk'[q], spoken'[q])
<1>0. /\ Functional /\ \A p \in Personas : Backed(disk[p], spoken[p])
      /\ \A p \in Personas : p \notin misread => Holds(disk[p], spoken[p])
  BY DEF DiskInv
<1>1. ASSUME Functional', misread \subseteq misread',
             \A q \in Personas : Backed(disk'[q], spoken'[q])
                                 /\ (q \notin misread' => Holds(disk'[q], spoken'[q]))
      PROVE  DiskInv'
  BY <1>1 DEF DiskInv
<1>2. ASSUME NEW q \in Personas, Same(q)
      PROVE  Kept(q)
  BY <1>0, <1>2 DEF Same
<1>3. ASSUME NEW q \in Personas, NEW t \in Threads, Records(t, q)
      PROVE  Kept(q)
  <2> DEFINE d == disk[q]
             s == spoken[q]
             role == thread[t].at
             e == disk'[q]
             r == spoken'[q]
             x == Ev(t)
             line == [role |-> role, of |-> x]
             u == Turn(d, role, x)
  <2>1. role \in Roles /\ e \in Made(d, NextIndex(d), line, TRUE) /\ r = Append(s, u)
    BY <1>3 DEF Records, Line
  <2>2. x \in Events
    BY <2>1 DEF ShapeInv, AtWork, Roles
  <2>3. Backed(d, s) /\ (q \notin misread => Holds(d, s)) /\ u = [idx |-> NextIndex(d), line |-> line]
    BY <1>0 DEF Turn
  <2> HIDE DEF d, s, role, e, r, x, u
  <2>4. q \notin misread => Holds(e, r)
    BY <2>1, <2>2, <2>3, RecordsHold DEF u
  <2> HIDE DEF line
  <2>5. Backed(e, r)
    BY <2>1, <2>3, RecordBacked
  <2>6. QED
    BY <2>4, <2>5 DEF e, r
<1>4. ASSUME NEW q \in Personas, NEW t \in Threads, Misreads(t, q)
      PROVE  Backed(disk'[q], spoken'[q]) /\ q \in misread'
  <2> DEFINE d == disk[q]
             s == spoken[q]
             line == Line(t, thread[t].at)
             e == disk'[q]
             r == spoken'[q]
  <2>1. PICK i : e \in Made(d, i, line, FALSE) /\ r = Append(s, [idx |-> i, line |-> line])
    BY <1>4 DEF Misreads
  <2>2. Backed(d, s) /\ q \in misread'
    BY <1>0, <1>4 DEF Misreads
  <2> HIDE DEF d, s, line, e, r
  <2>3. Backed(e, r)
    BY <2>1, <2>2, RecordBacked
  <2>4. QED
    BY <2>2, <2>3 DEF e, r
<1>5. ASSUME NEW q \in Personas, NEW t \in Threads, Withdraws(t, q)
      PROVE  Kept(q)
  <2> DEFINE d == disk[q]
             s == spoken[q]
             e == disk'[q]
             r == spoken'[q]
             i == thread[t].mine
  <2>1. e = Forget(d, i) /\ r = IF \E u \in Unfolded(d) : u.idx = i THEN Withdrawn(s, i) ELSE s
    BY <1>5 DEF Withdraws
  <2>2. Backed(d, s) /\ (q \notin misread => Holds(d, s))
    BY <1>0
  <2> HIDE DEF d, s, e, r, i
  <2>3. Backed(e, r) /\ (q \notin misread => Holds(e, r))
    BY <2>1, <2>2, ForgetHolds, ForgetBacked
  <2>4. QED
    BY <2>3 DEF e, r
<1>6. ASSUME NEW q \in Personas, Clears(q)
      PROVE  Backed(disk'[q], spoken'[q]) /\ Holds(disk'[q], spoken'[q])
  BY <1>6, NothingHeld, NothingBacked DEF Clears
<1> HIDE DEF Kept
<1>7. ASSUME NEW t \in Threads, Functional', misread \subseteq misread', NEW q \in Personas,
             Same(q) \/ Records(t, q) \/ Misreads(t, q) \/ Withdraws(t, q)
      PROVE  Backed(disk'[q], spoken'[q]) /\ (q \notin misread' => Holds(disk'[q], spoken'[q]))
  BY <1>2, <1>3, <1>4, <1>5, <1>7 DEF Kept
<1>8. CASE \E t \in Threads : Handle(t)
  <2>1. PICK t \in Threads : Handle(t)
    BY <1>8
  <2>2. /\ Functional' /\ misread \subseteq misread'
        /\ \A q \in Personas : Same(q) \/ Records(t, q) \/ Misreads(t, q) \/ Withdraws(t, q)
    BY <1>0, <2>1, HandleMemory DEF SameForAll, RecordsOnly, WithdrawsOnly
  <2>3. QED
    BY <1>1, <1>7, <2>2
<1>9. CASE (\E t \in Threads : Deliver(t)) \/ UNCHANGED vars
  <2>1. disk' = disk /\ spoken' = spoken /\ misread' = misread
    BY <1>9 DEF Deliver, memoryVars, vars
  <2>2. Functional' /\ SameForAll
    BY <1>0, <2>1, SameAll
  <2>3. QED
    BY <1>0, <2>1, <2>2 DEF DiskInv, SameForAll, Same
<1>10. CASE Crash
  <2>1. /\ Functional' /\ misread \subseteq misread'
        /\ SameForAll \/ \E t \in Threads : RecordsOnly(t)
    BY <1>0, <1>10, CrashMemory
  <2>2. CASE SameForAll
    BY <1>1, <1>2, <2>1, <2>2 DEF SameForAll, Kept
  <2>3. CASE \E t \in Threads : RecordsOnly(t)
    <3>1. PICK t \in Threads : RecordsOnly(t)
      BY <2>3
    <3>2. \A q \in Personas : Same(q) \/ Records(t, q) \/ Misreads(t, q)
      BY <3>1 DEF RecordsOnly
    <3>3. QED
      BY <1>1, <1>7, <2>1, <3>2
  <2>4. QED
    BY <2>1, <2>2, <2>3
<1>11. CASE \E p \in Personas : ForgetThread(p)
  <2>1. PICK p \in Personas : ForgetThread(p)
    BY <1>11
  <2>2. /\ Functional' /\ misread' = misread \ {p}
        /\ \A q \in Personas : IF q = p THEN Clears(q) ELSE Same(q)
    BY <1>0, <2>1, ClearsOne
  <2>3. ASSUME NEW q \in Personas
        PROVE  Backed(disk'[q], spoken'[q]) /\ (q \notin misread' => Holds(disk'[q], spoken'[q]))
    BY <1>2, <1>6, <2>2 DEF Kept
  <2>4. QED
    BY <2>2, <2>3 DEF DiskInv
<1>12. QED
  BY <1>8, <1>9, <1>10, <1>11 DEF Next

(* Every transcript holds what was said, in every run.                      *)
LEMMA DiskHolds == Spec => [](ShapeInv /\ DiskInv)
<1>1. Init => ShapeInv /\ DiskInv
  BY ShapeInit, DiskInit
<1>2. ShapeInv /\ DiskInv /\ [Next]_vars => (ShapeInv /\ DiskInv)'
  BY ShapeStep, DiskStep
<1>3. QED
  BY <1>1, <1>2, PTL DEF Spec

(* Every transcript whose files could be read at every record of it is its  *)
(* conversation, however often it was compacted.                            *)
THEOREM TranscriptAlwaysConversation == Spec => []TranscriptIsConversation
<1>1. DiskInv => TranscriptIsConversation
  <2> SUFFICES ASSUME DiskInv, NEW p \in Personas \ misread
               PROVE  LET c == Conversation(disk[p])
                      IN IsSuffix(c, Said(p)) /\ (c = Said(p) \/ Len(disk[p].summary) = SummaryMax)
    BY DEF TranscriptIsConversation
  <2> DEFINE d == disk[p]
             s == spoken[p]
             said == Said(p)
             c == Conversation(d)
  <2>1. Holds(d, s)
    BY DEF DiskInv
  <2>2. said = [i \in DOMAIN s |-> s[i].line]
    BY DEF Said
  <2> HIDE DEF d, s, said, c
  <2>3. c = Conversation(d)
    BY DEF c
  <2>4. IsSuffix(c, said) /\ (c = said \/ Len(d.summary) = SummaryMax)
    BY <2>1, <2>2, <2>3, HeldIsSaid
  <2>5. QED
    BY <2>4 DEF d, s, said, c
<1>2. QED
  BY <1>1, DiskHolds, PTL


-----------------------------------------------------------------------------
(* The prompt.                                                              *)

(* Every event that came has a name, and nobody forgot a thread.            *)
Undisturbed == forgets = <<>> /\ \A e \in Events : delivered[e] > 0 => Named(e)
Asking(t) == thread[t].at \in {"read", "model"}
PromptInv ==
  Undisturbed =>
    \A t \in Threads :
      /\ Asking(t) => thread[t].prompt.summary = disk[P(t)].summary
      /\ thread[t].at = "model" =>
           thread[t].prompt = [summary |-> thread[t].prompt.summary,
                               turns |-> Recent(disk[P(t)], HistoryTurns)]

(* At first nobody reads.                                                   *)
LEMMA PromptInit == ASSUME Init PROVE PromptInv
<1>1. thread = [t \in Threads |-> Idle]
  BY DEF Init
<1> HIDE DEF Idle
<1>2. \A t \in Threads : thread[t].at = "idle"
  BY <1>1, IdleShaped
<1>3. QED
  BY <1>2 DEF PromptInv, Asking

(* Whoever is at work is alone with the lock.                               *)
LEMMA OneAtWork ==
  ASSUME ShapeInv, LockInv, Undisturbed, NEW t \in Threads, NEW u \in Threads, AtIt(t), AtIt(u)
  PROVE  t = u
<1>1. /\ Ev(t) \in Events /\ delivered[Ev(t)] > 0 /\ Ev(u) \in Events /\ delivered[Ev(u)] > 0
  BY DEF ShapeInv, AtWork, AtIt
<1>2. Named(Ev(t)) /\ Named(Ev(u))
  BY <1>1 DEF Undisturbed
<1>3. lock = t /\ lock = u
  BY <1>2 DEF LockInv
<1>4. QED
  BY <1>3

(* A step that is no read leaves a thread with nothing it reads.            *)
LEMMA HandleReads ==
  ASSUME ShapeInv, NEW t \in Threads, Handle(t)
  PROVE  \/ ReadSummary(t) \/ ReadTurns(t)
         \/ /\ \E r : Becomes(t, r) /\ r.at \notin {"read", "model"}
            /\ AtIt(t) \/ disk' = disk
<1>1. CASE thread' = [thread EXCEPT ![t] = Idle] /\ (AtIt(t) \/ disk' = disk)
  BY <1>1, GoesHome, IdleShaped
<1>2. CASE Enter(t)
  <2>1. disk' = disk /\ (thread' = [thread EXCEPT ![t] = Idle] \/ Route(t))
    BY <1>2 DEF Enter, memoryVars
  <2>2. CASE Route(t)
    <3>1. PICK r : Becomes(t, r) /\ r.at = "route"
      BY <2>2, Routed
    <3>2. QED
      BY <2>1, <3>1
  <2>3. QED
    BY <1>1, <2>1, <2>2
<1>3. CASE Mark(t) \/ ModelRaises(t) \/ RecordUserRaises(t) \/ UndoUser(t) \/ PostRaises(t)
  BY <1>1, <1>3 DEF Mark, ModelRaises, RecordUserRaises, UndoUser, PostRaises, Release, Done, AtIt
<1>4. CASE PassOver(t)
  <2>1. AtIt(t) /\ \E r : Becomes(t, r) /\ r.at = "route"
    BY <1>4, PassedOver DEF PassOver, AtIt
  <2>2. QED
    BY <2>1
<1>5. CASE StayQuiet(t)
  <2>1. AtIt(t) /\ NextPersona(t, <<>>, 0)
    BY <1>5 DEF StayQuiet, AtIt
  <2>2. PICK r : Becomes(t, r) /\ r.at = "route"
    BY <2>1, NextCalled
  <2>3. QED
    BY <2>1, <2>2
<1>6. CASE Post(t)
  <2>1. PICK more : AtIt(t) /\ NextPersona(t, more, 1)
    BY <1>6 DEF Post, AtIt
  <2>2. PICK r : Becomes(t, r) /\ r.at = "route"
    BY <2>1, NextCalled
  <2>3. QED
    BY <2>1, <2>2
<1>7. CASE Reply(t) \/ RecordPersona(t) \/ RecordPersonaRaises(t)
  <2>1. PICK at \in {"user", "post", "undo"} : AtIt(t) /\ Goes(t, at)
    BY <1>7 DEF Reply, RecordPersona, RecordPersonaRaises, AtIt
  <2>2. Becomes(t, [thread[t] EXCEPT !.at = at]) /\ thread'[t] = [thread[t] EXCEPT !.at = at] /\ thread'[t].at = at
    BY <2>1, GoesOn
  <2> DEFINE r == [thread[t] EXCEPT !.at = at]
  <2>3. Becomes(t, r) /\ r.at = at
    BY <2>2
  <2> HIDE DEF r
  <2>4. r.at \notin {"read", "model"}
    BY <2>3
  <2>5. QED
    BY <2>1, <2>3, <2>4
<1>8. CASE RecordUser(t) \/ RecordNothing(t)
  <2>1. AtIt(t)
    BY <1>8 DEF RecordUser, RecordNothing, AtIt
  <2>2. PICK i : thread' = [thread EXCEPT ![t].at = "persona", ![t].mine = i, ![t].prompt = NoPrompt]
    BY <1>8 DEF RecordUser, RecordNothing
  <2>3. PICK r : Becomes(t, r) /\ r.at = "persona"
    BY <2>2, UserRecorded
  <2>4. QED
    BY <2>1, <2>3
<1>9. QED
  BY <1>2, <1>3, <1>4, <1>5, <1>6, <1>7, <1>8 DEF Handle

(* No step changes a thread between the two reads of it.                    *)
LEMMA PromptStep ==
  ASSUME ShapeInv, LockInv, PromptInv, [Next]_vars
  PROVE  PromptInv'
<1> SUFFICES ASSUME Undisturbed'
             PROVE  \A t \in Threads :
                      /\ Asking(t)' => thread'[t].prompt.summary = disk'[P(t)'].summary
                      /\ thread'[t].at = "model" =>
                           thread'[t].prompt = [summary |-> thread'[t].prompt.summary,
                                                turns |-> Recent(disk'[P(t)'], HistoryTurns)]
  BY DEF PromptInv, Recent, LinesOf, Nth, Unfolded
<1>0. forgets \in Seq(Forgettings) /\ delivered \in [Events -> Nat]
  BY DEF ShapeInv
<1>9. \A e \in Events : delivered'[e] \in Nat
  BY ShapeStep DEF ShapeInv
<1>a. ASSUME forgets' = forgets, \A e \in Events : delivered'[e] >= delivered[e]
      PROVE  Undisturbed
  <2>1. forgets' = <<>> /\ \A e \in Events : delivered'[e] > 0 => Named(e)
    BY DEF Undisturbed, Named, Name
  <2>2. \A e \in Events : delivered[e] \in Nat
    BY <1>0
  <2>3. ASSUME NEW e \in Events, delivered[e] > 0
        PROVE  Named(e)
    <3>1. delivered'[e] > 0
      BY <1>9, <1>a, <2>2, <2>3
    <3>2. QED
      BY <2>1, <3>1
  <2>4. QED
    BY <1>a, <2>1, <2>3 DEF Undisturbed
<1>b. ASSUME Undisturbed, NEW t \in Threads
      PROVE  /\ Asking(t) => thread[t].prompt.summary = disk[P(t)].summary
             /\ thread[t].at = "model" =>
                  thread[t].prompt = [summary |-> thread[t].prompt.summary,
                                      turns |-> Recent(disk[P(t)], HistoryTurns)]
  BY <1>b DEF PromptInv
<1>c. ASSUME Undisturbed, disk' = disk, NEW t \in Threads,
             thread'[t] = thread[t] \/ thread'[t].at \notin {"read", "model"}
      PROVE  /\ Asking(t)' => thread'[t].prompt.summary = disk'[P(t)'].summary
             /\ thread'[t].at = "model" =>
                  thread'[t].prompt = [summary |-> thread'[t].prompt.summary,
                                       turns |-> Recent(disk'[P(t)'], HistoryTurns)]
  BY <1>b, <1>c DEF Asking, P
<1>1. ASSUME NEW t \in Threads, Handle(t)
      PROVE  \A u \in Threads :
               /\ Asking(u)' => thread'[u].prompt.summary = disk'[P(u)'].summary
               /\ thread'[u].at = "model" =>
                    thread'[u].prompt = [summary |-> thread'[u].prompt.summary,
                                         turns |-> Recent(disk'[P(u)'], HistoryTurns)]
  <2>1. Undisturbed
    <3>1. delivered' = delivered /\ forgets' = forgets
      BY <1>1, HandleKeeps
    <3>2. QED
      BY <1>0, <1>a, <3>1
  <2>2. CASE ReadSummary(t)
    <3>1. PICK r : /\ Becomes(t, r) /\ r.at = "read" /\ r.todo = thread[t].todo
                   /\ r.prompt.summary = disk[P(t)].summary
      BY <2>2, SummaryRead
    <3>2. disk' = disk
      BY <2>2 DEF ReadSummary, memoryVars
    <3>3. /\ thread'[t].at = "read" /\ P(t)' = P(t) /\ thread'[t].prompt.summary = disk[P(t)].summary
          /\ \A u \in Threads : u # t => thread'[u] = thread[u]
      BY <3>1 DEF Becomes, P
    <3>4. QED
      BY <1>c, <2>1, <3>2, <3>3
  <2>3. CASE ReadTurns(t)
    <3>1. PICK r : /\ Becomes(t, r) /\ r.at = "model" /\ r.todo = thread[t].todo
                   /\ r.prompt.summary = thread[t].prompt.summary
                   /\ r.prompt = [summary |-> r.prompt.summary, turns |-> Recent(disk[P(t)], HistoryTurns)]
      BY <2>3, TurnsRead
    <3>2. disk' = disk /\ thread[t].at = "read"
      BY <2>3 DEF ReadTurns, memoryVars
    <3>3. /\ thread'[t] = r /\ P(t)' = P(t)
          /\ \A u \in Threads : u # t => thread'[u] = thread[u]
      BY <3>1 DEF Becomes, P
    <3>4. r.prompt.summary = disk[P(t)].summary
      BY <1>b, <2>1, <3>1, <3>2 DEF Asking
    <3>5. QED
      BY <1>c, <2>1, <3>1, <3>2, <3>3, <3>4
  <2>4. ASSUME NEW r, Becomes(t, r), r.at \notin {"read", "model"}, AtIt(t) \/ disk' = disk, NEW u \in Threads
        PROVE  /\ Asking(u)' => thread'[u].prompt.summary = disk'[P(u)'].summary
               /\ thread'[u].at = "model" =>
                    thread'[u].prompt = [summary |-> thread'[u].prompt.summary,
                                         turns |-> Recent(disk'[P(u)'], HistoryTurns)]
    <3>1. thread'[u] = thread[u] \/ thread'[u].at \notin {"read", "model"}
      BY <2>4 DEF Becomes
    <3>2. CASE disk' = disk
      BY <1>c, <2>1, <3>1, <3>2
    <3>3. CASE AtIt(t)
      <4>1. u # t => thread[u].at \notin {"read", "model"}
        BY <2>1, <3>3, OneAtWork DEF AtIt
      <4>2. thread'[u].at \notin {"read", "model"}
        BY <2>4, <3>1, <4>1 DEF Becomes
      <4>3. QED
        BY <4>2 DEF Asking
    <3>4. QED
      BY <2>4, <3>2, <3>3
  <2>5. QED
    BY <1>1, <2>2, <2>3, <2>4, HandleReads
<1>2. CASE \E t \in Threads : Deliver(t)
  <2>1. PICK t \in Threads, e \in Events : Wakes(t, e)
    BY <1>2, DeliverWakes
  <2>2. /\ disk' = disk /\ forgets' = forgets /\ delivered' = [delivered EXCEPT ![e] = @ + 1]
        /\ \/ thread' = thread
           \/ \E r : Becomes(t, r) /\ r.at = "enter" /\ r.ev = e
    BY <2>1 DEF Wakes
  <2>3. \A u \in Threads : thread'[u] = thread[u] \/ thread'[u].at \notin {"read", "model"}
    BY <2>2 DEF Becomes
  <2>4. Undisturbed
    <3>1. \A x \in Events : delivered'[x] >= delivered[x]
      BY <1>0, <2>2
    <3>2. QED
      BY <1>a, <2>2, <3>1
  <2>5. QED
    BY <1>c, <2>2, <2>3, <2>4
<1>3. CASE Crash
  <2>1. thread' = [t \in Threads |-> Idle]
    BY <1>3 DEF Crash
  <2> HIDE DEF Idle
  <2>2. \A t \in Threads : thread'[t].at = "idle"
    BY <2>1, IdleShaped
  <2>3. QED
    BY <2>2 DEF Asking
<1>4. CASE \E p \in Personas : ForgetThread(p)
  <2>1. PICK f : forgets' = Append(forgets, f)
    BY <1>4 DEF ForgetThread
  <2>2. Len(forgets') = Len(forgets) + 1 /\ Len(forgets) \in Nat
    BY <1>0, <2>1, LenProperties
  <2>3. forgets' # <<>>
    BY <2>2, EmptySeq
  <2>4. QED
    BY <2>3 DEF Undisturbed
<1>5. CASE UNCHANGED vars
  <2>1. /\ thread' = thread /\ disk' = disk /\ delivered' = delivered /\ forgets' = forgets
    BY <1>5 DEF vars, threadVars, memoryVars, boundVars
  <2>2. Undisturbed
    BY <1>0, <1>a, <2>1
  <2>3. QED
    BY <1>c, <2>1, <2>2
<1>6. QED
  BY <1>1, <1>2, <1>3, <1>4, <1>5 DEF Next

(* What the model is shown is the thread as it is, while nobody disturbs it. *)
THEOREM PromptAlwaysWhole == Spec => []PromptIsWhole
<1>1. PromptInv => PromptIsWhole
  <2> SUFFICES ASSUME PromptInv, NEW t \in Threads, thread[t].at = "model", Undisturbed
               PROVE  thread[t].prompt
                        = [summary |-> disk[P(t)].summary, turns |-> Recent(disk[P(t)], HistoryTurns)]
    BY DEF PromptIsWhole, Undisturbed
  <2>1. thread[t].prompt.summary = disk[P(t)].summary
    BY DEF PromptInv, Asking
  <2>2. thread[t].prompt = [summary |-> thread[t].prompt.summary,
                            turns |-> Recent(disk[P(t)], HistoryTurns)]
    BY DEF PromptInv
  <2>3. QED
    BY <2>1, <2>2
<1>2. Init => PromptInv
  BY PromptInit
<1>3. ShapeInv /\ LockInv /\ PromptInv /\ [Next]_vars => PromptInv'
  BY PromptStep
<1>4. QED
  BY <1>1, <1>2, <1>3, LockHolds, PTL DEF Spec


-----------------------------------------------------------------------------
(* How many turns are of a line.                                            *)

LinePlaces(s, l) == {i \in 1..Len(s) : s[i].line = l}
Count(s, l) == Cardinality(LinePlaces(s, l))

(* There are finitely many turns of a line.                                 *)
LEMMA CountNat ==
  ASSUME NEW S, NEW s \in Seq(S), NEW l
  PROVE  IsFiniteSet(LinePlaces(s, l)) /\ Count(s, l) \in Nat
<1>1. Len(s) \in Nat
  BY LenProperties
<1>2. IsFiniteSet(1..Len(s))
  BY <1>1, FS_Interval
<1>3. IsFiniteSet(LinePlaces(s, l))
  BY <1>2, FS_Subset DEF LinePlaces
<1>4. QED
  BY <1>3, FS_CardinalityType DEF Count

(* Counting what was said is counting the turns.                            *)
LEMMA OfIsCount ==
  ASSUME NEW S, NEW s \in Seq(S), NEW said, said = [i \in DOMAIN s |-> s[i].line], NEW role, NEW e
  PROVE  Of(said, role, e) = Count(s, [role |-> role, of |-> e])
<1> DEFINE l == [role |-> role, of |-> e]
<1>1. DOMAIN s = 1..Len(s)
  BY LenProperties
<1> HIDE DEF l
<1>2. {i \in DOMAIN said : said[i] = l} = LinePlaces(s, l)
  BY <1>1 DEF LinePlaces
<1>3. QED
  BY <1>2 DEF Of, Count, l

(* Nothing was said of an empty thread.                                     *)
LEMMA CountEmpty == ASSUME NEW l PROVE Count(<<>>, l) = 0
<1>1. Len(<<>>) = 0
  OBVIOUS
<1>2. LinePlaces(<<>>, l) = {}
  BY <1>1 DEF LinePlaces
<1>3. QED
  BY <1>2, FS_EmptySet DEF Count

(* A turn that is said counts for its line alone.                           *)
LEMMA CountAppend ==
  ASSUME NEW S, NEW s \in Seq(S), NEW u \in S, NEW l
  PROVE  Count(Append(s, u), l) = IF u.line = l THEN Count(s, l) + 1 ELSE Count(s, l)
<1> DEFINE r == Append(s, u)
           n == Len(s)
<1>1. n \in Nat /\ Len(r) = n + 1 /\ r[n + 1] = u /\ \A i \in 1..n : r[i] = s[i]
  BY LenProperties, AppendProperties
<1>2. IsFiniteSet(LinePlaces(s, l))
  BY CountNat
<1> HIDE DEF r, n
<1>3. n + 1 \notin LinePlaces(s, l)
  BY <1>1 DEF LinePlaces, n
<1>4. CASE u.line = l
  <2>1. LinePlaces(r, l) = LinePlaces(s, l) \cup {n + 1}
    BY <1>1, <1>4 DEF LinePlaces, n
  <2>2. Cardinality(LinePlaces(r, l)) = Cardinality(LinePlaces(s, l)) + 1
    BY <1>2, <1>3, <2>1, FS_AddElement
  <2>3. QED
    BY <1>4, <2>2 DEF Count, r
<1>5. CASE u.line # l
  <2>1. LinePlaces(r, l) = LinePlaces(s, l)
    BY <1>1, <1>5 DEF LinePlaces, n
  <2>2. QED
    BY <1>5, <2>1 DEF Count, r
<1>6. QED
  BY <1>4, <1>5

(* So does one that is withdrawn.                                           *)
LEMMA CountRemove ==
  ASSUME NEW S, NEW s \in Seq(S), NEW k \in 1..Len(s), NEW l
  PROVE  Count(RemoveAt(s, k), l) = IF s[k].line = l THEN Count(s, l) - 1 ELSE Count(s, l)
<1> DEFINE r == RemoveAt(s, k)
           n == Len(s)
           A == LinePlaces(s, l) \ {k}
           B == LinePlaces(r, l)
           f == [i \in A |-> IF i < k THEN i ELSE i - 1]
<1>1. /\ Len(r) = n - 1 /\ n \in Nat /\ k \in 1..n
      /\ \A j \in 1..(n - 1) : r[j] = IF j < k THEN s[j] ELSE s[j + 1]
  BY RemovedAt, LenProperties
<1>2. IsFiniteSet(LinePlaces(s, l)) /\ Count(s, l) \in Nat
  BY CountNat
<1>3. IsFiniteSet(A)
  BY <1>2, FS_Subset
<1>4. Cardinality(A) = IF k \in LinePlaces(s, l) THEN Count(s, l) - 1 ELSE Count(s, l)
  BY <1>2, FS_RemoveElement DEF Count
<1>5. k \in LinePlaces(s, l) <=> s[k].line = l
  BY DEF LinePlaces
<1>6. \A i \in A : i \in 1..n /\ i # k /\ s[i].line = l
  BY DEF LinePlaces
<1>7. \A j \in 1..(n - 1) : j \in B <=> (IF j < k THEN s[j] ELSE s[j + 1]).line = l
  BY <1>1 DEF LinePlaces
<1>8. \A j \in B : j \in 1..(n - 1)
  BY <1>1 DEF LinePlaces
<1>9. \A i \in 1..n : i # k /\ s[i].line = l => i \in A
  BY DEF LinePlaces
<1> HIDE DEF r, n, A, B
<1>10. \A i \in A : f[i] \in B
  BY <1>1, <1>6, <1>7
<1>11. f \in Injection(A, B)
  BY <1>1, <1>6, <1>10 DEF Injection, IsInjective
<1>12. ASSUME NEW j \in B
       PROVE  \E i \in A : f[i] = j
  <2>1. j \in 1..(n - 1) /\ (IF j < k THEN s[j] ELSE s[j + 1]).line = l
    BY <1>7, <1>8
  <2>2. CASE j < k
    <3>1. j \in A
      BY <1>1, <1>9, <2>1, <2>2
    <3>2. f[j] = j
      BY <2>2, <3>1
    <3>3. QED
      BY <3>1, <3>2
  <2>3. CASE ~(j < k)
    <3>1. j + 1 \in A
      BY <1>1, <1>9, <2>1, <2>3
    <3>2. f[j + 1] = j
      BY <1>1, <2>1, <2>3, <3>1
    <3>3. QED
      BY <3>1, <3>2
  <2>4. QED
    BY <2>2, <2>3
<1>13. f \in Surjection(A, B)
  BY <1>10, <1>12 DEF Surjection
<1>14. f \in Bijection(A, B)
  BY <1>11, <1>13 DEF Bijection
<1>15. Cardinality(A) = Cardinality(B)
  BY <1>3, <1>14, FS_Bijection DEF ExistsBijection
<1>16. QED
  BY <1>4, <1>5, <1>15 DEF Count, r, B


-----------------------------------------------------------------------------
(* An event that was marked.                                                *)

(* What a record writes is a turn.                                          *)
LEMMA TurnIsTurn ==
  ASSUME NEW d, NEW s, Holds(d, s), NEW role \in Roles, NEW x \in Events
  PROVE  /\ s \in Seq(Turns) /\ Turn(d, role, x) \in Turns
         /\ Turn(d, role, x).line = [role |-> role, of |-> x]
         /\ Turn(d, role, x).idx = NextIndex(d)
<1>1. x \in Exchanges
  BY ChatAssumption
<1>2. s \in Seq(Turns) /\ NextIndex(d) \in Nat
  BY NextIsBeyond DEF Holds
<1>3. QED
  BY <1>1, <1>2 DEF Turn, Turns, Lines

(* No more of it is said, by no step.                                       *)
NoMore(q, e) ==
  \A r \in Roles :
    Count(spoken'[q], [role |-> r, of |-> e]) <= Count(spoken[q], [role |-> r, of |-> e])

(* No step posts or records anything of an event that was seen.             *)
LEMMA MarkedStep ==
  ASSUME ShapeInv, LockInv, DiskInv, [Next]_vars
  PROVE  MarkedIsDone
<1>0. /\ Functional /\ \A p \in Personas : Backed(disk[p], spoken[p]) /\ \E S : spoken[p] \in Seq(S)
      /\ Functional' /\ \A p \in Personas : \E S : spoken'[p] \in Seq(S)
  BY DiskStep DEF DiskInv, Backed
<1> SUFFICES ASSUME NEW e \in Events, Name(e) \in seen
             PROVE  /\ posted'[e] = posted[e]
                    /\ \A p \in Personas : NoMore(p, e)
  <2>1. ASSUME NEW p \in Personas, NEW r \in Roles, NEW e \in Events
        PROVE  /\ Of(Said(p), r, e) = Count(spoken[p], [role |-> r, of |-> e])
               /\ Of(Said(p)', r, e) = Count(spoken'[p], [role |-> r, of |-> e])
    <3> DEFINE a == Said(p)
               b == Said(p)'
               s == spoken[p]
               z == spoken'[p]
    <3>1. a = [i \in DOMAIN s |-> s[i].line] /\ b = [i \in DOMAIN z |-> z[i].line]
      BY DEF Said
    <3>2. (\E S : s \in Seq(S)) /\ (\E S : z \in Seq(S))
      BY <1>0
    <3> HIDE DEF a, b, s, z
    <3>3. /\ Of(a, r, e) = Count(s, [role |-> r, of |-> e])
          /\ Of(b, r, e) = Count(z, [role |-> r, of |-> e])
      BY <3>1, <3>2, OfIsCount
    <3>4. QED
      BY <3>3 DEF a, b, s, z
  <2>2. QED
    BY <2>1 DEF MarkedIsDone, NoMore
<1>1. ASSUME NEW t \in Threads, AtIt(t)
      PROVE  Ev(t) # e
  BY <1>1 DEF LockInv
<1>2. \A p \in Personas : \A l : Count(spoken[p], l) \in Nat
  BY <1>0, CountNat
<1>3. ASSUME NEW q \in Personas, Same(q)
      PROVE  NoMore(q, e)
  BY <1>2, <1>3 DEF Same, NoMore
<1>4. ASSUME NEW q \in Personas, NEW t \in Threads, Records(t, q) \/ Misreads(t, q)
      PROVE  NoMore(q, e)
  <2> DEFINE s == spoken[q]
             role == thread[t].at
             x == Ev(t)
             line == [role |-> role, of |-> x]
  <2>1. role \in Roles /\ \E i : spoken'[q] = Append(s, [idx |-> i, line |-> line])
    BY <1>4 DEF Records, Misreads, Turn, Line
  <2>2. AtIt(t) /\ x # e
    BY <1>1, <2>1 DEF AtIt, Roles
  <2>3. PICK i : spoken'[q] = Append(s, [idx |-> i, line |-> line])
    BY <2>1
  <2>4. PICK S : s \in Seq(S)
    BY <1>0
  <2> DEFINE u == [idx |-> i, line |-> line]
             Z == S \cup {u}
  <2>5. s \in Seq(Z) /\ u \in Z /\ u.line = line /\ spoken'[q] = Append(s, u)
    BY <2>3, <2>4, SeqMonotonic
  <2> HIDE DEF u, Z
  <2>6. ASSUME NEW r \in Roles
        PROVE  Count(spoken'[q], [role |-> r, of |-> e]) <= Count(spoken[q], [role |-> r, of |-> e])
    <3> DEFINE l == [role |-> r, of |-> e]
    <3>1. u.line # l
      BY <2>2, <2>5
    <3> HIDE DEF l, s, line
    <3>2. Count(Append(s, u), l) = Count(s, l) /\ Count(s, l) \in Nat
      BY <2>5, <3>1, CountAppend, CountNat
    <3>3. QED
      BY <2>5, <3>2 DEF l, s
  <2>7. QED
    BY <2>6 DEF NoMore
<1>5. ASSUME NEW q \in Personas, NEW t \in Threads, Withdraws(t, q)
      PROVE  NoMore(q, e)
  <2> DEFINE d == disk[q]
             s == spoken[q]
             i == thread[t].mine
  <2>1. IF \E u \in Unfolded(d) : u.idx = i
        THEN spoken'[q] = Withdrawn(s, i) ELSE spoken'[q] = s
    BY <1>5 DEF Withdraws
  <2>2. Backed(d, s) /\ \E S : s \in Seq(S)
    BY <1>0
  <2> HIDE DEF d, s, i
  <2>3. CASE spoken'[q] = s
    BY <1>2, <2>3 DEF NoMore, s
  <2>4. CASE \E u \in Unfolded(d) : u.idx = i
    <3>1. PICK k \in 1..Len(s) : spoken'[q] = RemoveAt(s, k)
      BY <2>1, <2>2, <2>4, WithdrawnPlace
    <3>2. \A l : Count(RemoveAt(s, k), l) = IF s[k].line = l THEN Count(s, l) - 1 ELSE Count(s, l)
      BY <2>2, CountRemove
    <3>3. ASSUME NEW r \in Roles
          PROVE  Count(spoken'[q], [role |-> r, of |-> e]) <= Count(spoken[q], [role |-> r, of |-> e])
      <4> DEFINE l == [role |-> r, of |-> e]
      <4> HIDE DEF l
      <4>1. Count(s, l) \in Nat
        BY <2>2, CountNat
      <4>2. Count(spoken'[q], l) <= Count(s, l)
        BY <3>1, <3>2, <4>1
      <4>3. QED
        BY <4>2 DEF l, s
    <3>4. QED
      BY <3>3 DEF NoMore
  <2>5. QED
    BY <2>1, <2>3, <2>4
<1>6. ASSUME NEW q \in Personas, Clears(q)
      PROVE  NoMore(q, e)
  BY <1>2, <1>6, CountEmpty DEF Clears, NoMore
<1>7. CASE \E t \in Threads : Handle(t)
  <2>1. PICK t \in Threads : Handle(t)
    BY <1>7
  <2>2. posted' = posted \/ (AtIt(t) /\ posted' = [posted EXCEPT ![Ev(t)] = @ + 1])
    BY <2>1, HandleKeeps
  <2>3. posted'[e] = posted[e]
    BY <1>1, <2>2 DEF ShapeInv
  <2>4. \A q \in Personas : Same(q) \/ Records(t, q) \/ Misreads(t, q) \/ Withdraws(t, q)
    BY <1>0, <2>1, HandleMemory DEF SameForAll, RecordsOnly, WithdrawsOnly
  <2>5. QED
    BY <1>3, <1>4, <1>5, <2>3, <2>4
<1>8. CASE (\E t \in Threads : Deliver(t)) \/ UNCHANGED vars
  <2>1. posted' = posted /\ disk' = disk /\ spoken' = spoken
    BY <1>8 DEF Deliver, memoryVars, vars
  <2>2. QED
    BY <1>0, <1>3, <2>1, SameAll DEF SameForAll
<1>9. CASE Crash
  <2>1. posted' = posted
    BY <1>9 DEF Crash
  <2>2. \A q \in Personas : Same(q) \/ \E t \in Threads : Records(t, q) \/ Misreads(t, q)
    BY <1>0, <1>9, CrashMemory DEF SameForAll, RecordsOnly
  <2>3. QED
    BY <1>3, <1>4, <2>1, <2>2
<1>10. CASE \E p \in Personas : ForgetThread(p)
  <2>1. posted' = posted
    BY <1>10 DEF ForgetThread
  <2>2. \A q \in Personas : Same(q) \/ Clears(q)
    BY <1>0, <1>10, ClearsOne
  <2>3. QED
    BY <1>3, <1>6, <2>1, <2>2
<1>11. QED
  BY <1>7, <1>8, <1>9, <1>10 DEF Next

(* The invariants of the chat hold together.                                *)
LEMMA ChatHolds == Spec => [](ShapeInv /\ LockInv /\ DiskInv)
<1>1. QED
  BY LockHolds, DiskHolds, PTL

(* An event that was marked as handled is handled no more.                  *)
THEOREM MarkedAlwaysDone == Spec => MarkedStaysDone
<1>1. ShapeInv /\ LockInv /\ DiskInv /\ [Next]_vars => [MarkedIsDone]_vars
  BY MarkedStep
<1>2. QED
  BY <1>1, ChatHolds, PTL DEF Spec, MarkedStaysDone


-----------------------------------------------------------------------------
(* What a step of a thread does to its exchange.                            *)

CutsOff(t) == cut' = cut \cup {<<P(t), Ev(t)>>}

Half == {"persona", "undo"}
(* The thread is in no exchange, before or after.                           *)
Aside(t) ==
  /\ thread[t].at \notin Half /\ \E r : Becomes(t, r) /\ r.at \notin Half
  /\ \/ SameForAll /\ cut' = cut
     \/ thread[t].at = "user" /\ RecordsOnly(t) /\ CutsOff(t)
Begins(t) ==
  /\ thread[t].at = "user" /\ RecordsOnly(t) /\ cut' = cut
  /\ \E r : /\ Becomes(t, r) /\ r.at = "persona" /\ r.ev = Ev(t) /\ r.todo = thread[t].todo
            /\ P(t) \notin misread' => r.mine = NextIndex(disk[P(t)])
(* It begins one without a user turn.                                       *)
BeginsMute(t) ==
  /\ thread[t].at = "user" /\ Envelope[Ev(t)].blank /\ SameForAll /\ cut' = cut
  /\ \E r : /\ Becomes(t, r) /\ r.at = "persona" /\ r.ev = Ev(t) /\ r.todo = thread[t].todo
            /\ r.mine = NoTurn
Fails(t) ==
  /\ thread[t].at = "persona"
  /\ \E r : /\ Becomes(t, r) /\ r.at = "undo" /\ r.ev = Ev(t) /\ r.todo = thread[t].todo
            /\ r.mine = thread[t].mine
  /\ \/ SameForAll /\ cut' = cut
     \/ RecordsOnly(t) /\ CutsOff(t)
Answers(t) ==
  /\ thread[t].at = "persona" /\ RecordsOnly(t) /\ cut' = cut
  /\ \E r : Becomes(t, r) /\ r.at \notin Half
(* It ends one that failed: there was no user turn, it is withdrawn, or it  *)
(* is left.                                                                 *)
Undoes(t) ==
  /\ thread[t].at = "undo" /\ \E r : Becomes(t, r) /\ r.at \notin Half
  /\ \/ SameForAll /\ thread[t].mine = NoTurn /\ cut' = cut
     \/ SameForAll /\ thread[t].mine # NoTurn /\ CutsOff(t)
     \/ /\ WithdrawsOnly(t) /\ thread[t].mine # NoTurn
        /\ IF \E u \in Unfolded(disk[P(t)]) : u.idx = thread[t].mine THEN cut' = cut ELSE CutsOff(t)

(* Every step of a thread is one of these.                                  *)
LEMMA HandleHalf ==
  ASSUME ShapeInv, Functional, NEW t \in Threads, Handle(t)
  PROVE  \/ Aside(t) \/ Begins(t) \/ BeginsMute(t) \/ Fails(t) \/ Answers(t) \/ Undoes(t)
<1>a. ASSUME UNCHANGED memoryVars
      PROVE  SameForAll /\ cut' = cut
  <2>1. disk' = disk /\ spoken' = spoken /\ cut' = cut
    BY <1>a DEF memoryVars
  <2>2. QED
    BY <2>1, SameAll DEF SameForAll
<1>b. ASSUME UNCHANGED memoryVars, thread[t].at \notin Half, NEW r, Becomes(t, r), r.at \notin Half
      PROVE  Aside(t)
  BY <1>a, <1>b DEF Aside
<1>c. ASSUME Release(t)
      PROVE  \E r : Becomes(t, r) /\ r.at \notin Half
  BY <1>c, GoesHome, IdleShaped DEF Release, Half
<1>d. ASSUME NEW at, Goes(t, at)
      PROVE  \E r : /\ Becomes(t, r) /\ r.at = at /\ r.ev = Ev(t) /\ r.todo = thread[t].todo
                    /\ r.mine = thread[t].mine
  <2> DEFINE r == [thread[t] EXCEPT !.at = at]
  <2>1. /\ Becomes(t, r) /\ thread'[t] = r /\ thread'[t].at = at /\ thread'[t].ev = thread[t].ev
        /\ thread'[t].todo = thread[t].todo /\ thread'[t].mine = thread[t].mine
    BY <1>d, GoesOn
  <2> HIDE DEF r
  <2>2. QED
    BY <2>1 DEF Ev
<1>1. CASE Enter(t)
  <2>1. UNCHANGED memoryVars /\ thread[t].at \notin Half
    BY <1>1 DEF Enter, Half
  <2>2. thread' = [thread EXCEPT ![t] = Idle] \/ Route(t)
    BY <1>1 DEF Enter
  <2>3. \E r : Becomes(t, r) /\ r.at \notin Half
    <3>1. CASE Route(t)
      <4>1. PICK r : Becomes(t, r) /\ r.at = "route"
        BY <3>1, Routed
      <4>2. QED
        BY <4>1 DEF Half
    <3>2. QED
      BY <2>2, <3>1, GoesHome, IdleShaped DEF Half
  <2>4. QED
    BY <1>b, <2>1, <2>3
<1>2. CASE Mark(t) \/ ModelRaises(t) \/ PostRaises(t)
  <2>1. UNCHANGED memoryVars /\ thread[t].at \notin Half /\ Release(t)
    BY <1>2 DEF Mark, ModelRaises, PostRaises, Half, Done
  <2>2. QED
    BY <1>b, <1>c, <2>1
<1>3. CASE PassOver(t)
  <2>1. UNCHANGED memoryVars /\ thread[t].at \notin Half
    BY <1>3 DEF PassOver, Half
  <2>2. PICK r : Becomes(t, r) /\ r.at = "route"
    BY <1>3, PassedOver
  <2>3. QED
    BY <1>b, <2>1, <2>2 DEF Half
<1>4. CASE ReadSummary(t)
  <2>1. UNCHANGED memoryVars /\ thread[t].at \notin Half
    BY <1>4 DEF ReadSummary, Half
  <2>2. PICK r : Becomes(t, r) /\ r.at = "read"
    BY <1>4, SummaryRead
  <2>3. QED
    BY <1>b, <2>1, <2>2 DEF Half
<1>5. CASE ReadTurns(t)
  <2>1. UNCHANGED memoryVars /\ thread[t].at \notin Half
    BY <1>5 DEF ReadTurns, Half
  <2>2. PICK r : Becomes(t, r) /\ r.at = "model"
    BY <1>5, TurnsRead
  <2>3. QED
    BY <1>b, <2>1, <2>2 DEF Half
<1>6. CASE StayQuiet(t) \/ Post(t)
  <2>1. UNCHANGED memoryVars /\ thread[t].at \notin Half /\ \E more, n : NextPersona(t, more, n)
    BY <1>6 DEF StayQuiet, Post, Half
  <2>2. PICK more, n : NextPersona(t, more, n)
    BY <2>1
  <2>3. PICK r : Becomes(t, r) /\ r.at = "route"
    BY <2>2, NextCalled
  <2>4. QED
    BY <1>b, <2>1, <2>3 DEF Half
<1>7. CASE Reply(t)
  <2>1. UNCHANGED memoryVars /\ thread[t].at \notin Half /\ Goes(t, "user")
    BY <1>7 DEF Reply, Half
  <2>2. PICK r : Becomes(t, r) /\ r.at = "user"
    BY <1>d, <2>1
  <2>3. QED
    BY <1>b, <2>1, <2>2 DEF Half
<1>8. CASE RecordUser(t)
  <2>1. thread[t].at = "user" /\ cut' = cut
    BY <1>8 DEF RecordUser
  <2>2. RecordsOnly(t)
    BY <1>8, HandleRecords, RecordsOne
  <2>3. PICK read \in BOOLEAN : \E i \in Indices(t, read) :
          /\ Leaves(t, Recorded(disk[P(t)], i, Line(t, "user"), read), read)
          /\ thread' = [thread EXCEPT ![t].at = "persona", ![t].mine = i, ![t].prompt = NoPrompt]
    BY <1>8 DEF RecordUser
  <2>4. PICK i \in Indices(t, read) :
          /\ Leaves(t, Recorded(disk[P(t)], i, Line(t, "user"), read), read)
          /\ thread' = [thread EXCEPT ![t].at = "persona", ![t].mine = i, ![t].prompt = NoPrompt]
    BY <2>3
  <2>5. P(t) \notin misread' => i = NextIndex(disk[P(t)])
    <3>1. CASE read = TRUE
      <4>1. i \in {NextIndex(v) : v \in Views(disk[P(t)], TRUE)}
        BY <3>1 DEF Indices
      <4>2. Views(disk[P(t)], TRUE) = {disk[P(t)]}
        BY ReadWhole
      <4>3. QED
        BY <4>1, <4>2
    <3>2. CASE read = FALSE
      BY <2>4, <3>2 DEF Leaves
    <3>3. QED
      BY <3>1, <3>2
  <2>6. PICK r : /\ Becomes(t, r) /\ r.at = "persona" /\ r.ev = thread[t].ev
                 /\ r.todo = thread[t].todo /\ r.turns = thread[t].turns /\ r.mine = i
    <3>1. thread' = [thread EXCEPT ![t].at = "persona", ![t].mine = i, ![t].prompt = NoPrompt]
      BY <2>4
    <3>2. QED
      BY <3>1, UserRecorded, Zenon
  <2>7. QED
    BY <2>1, <2>2, <2>5, <2>6 DEF Begins, Ev
<1>n. CASE RecordNothing(t)
  <2>1. /\ thread[t].at = "user" /\ Envelope[Ev(t)].blank /\ UNCHANGED memoryVars
        /\ thread' = [thread EXCEPT ![t].at = "persona", ![t].mine = NoTurn, ![t].prompt = NoPrompt]
    BY <1>n DEF RecordNothing, Blank
  <2>2. PICK r : /\ Becomes(t, r) /\ r.at = "persona" /\ r.ev = thread[t].ev
                 /\ r.todo = thread[t].todo /\ r.turns = thread[t].turns /\ r.mine = NoTurn
    <3>1. thread' = [thread EXCEPT ![t].at = "persona", ![t].mine = NoTurn, ![t].prompt = NoPrompt]
      BY <2>1
    <3>2. QED
      BY <3>1, UserRecorded, Zenon
  <2>3. QED
    BY <1>a, <2>1, <2>2 DEF BeginsMute, Ev
<1>9. CASE RecordUserRaises(t)
  <2>1. thread[t].at = "user" /\ thread[t].at \notin Half /\ Release(t)
    BY <1>9 DEF RecordUserRaises, Half
  <2>2. CASE UNCHANGED memoryVars
    BY <1>b, <1>c, <2>1, <2>2
  <2>3. CASE ~UNCHANGED memoryVars
    <3>1. RecordsOnly(t) /\ CutsOff(t)
      BY <1>9, <2>3, HandleRecords, RecordsOne DEF CutsOff
    <3>2. QED
      BY <1>c, <2>1, <3>1 DEF Aside
  <2>4. QED
    BY <2>2, <2>3
<1>10. CASE RecordPersona(t)
  <2>1. thread[t].at = "persona" /\ cut' = cut /\ Goes(t, "post")
    BY <1>10 DEF RecordPersona
  <2>2. RecordsOnly(t)
    BY <1>10, HandleRecords, RecordsOne
  <2>3. PICK r : Becomes(t, r) /\ r.at = "post"
    BY <1>d, <2>1
  <2>4. QED
    BY <2>1, <2>2, <2>3 DEF Answers, Half
<1>11. CASE RecordPersonaRaises(t)
  <2>1. thread[t].at = "persona" /\ Goes(t, "undo")
    BY <1>11 DEF RecordPersonaRaises
  <2>2. \E r : /\ Becomes(t, r) /\ r.at = "undo" /\ r.ev = Ev(t) /\ r.todo = thread[t].todo
               /\ r.mine = thread[t].mine
    BY <1>d, <2>1
  <2>3. CASE UNCHANGED memoryVars
    BY <1>a, <2>1, <2>2, <2>3 DEF Fails
  <2>4. CASE ~UNCHANGED memoryVars
    <3>1. RecordsOnly(t) /\ CutsOff(t)
      BY <1>11, <2>4, HandleRecords, RecordsOne DEF CutsOff
    <3>2. QED
      BY <2>1, <2>2, <3>1 DEF Fails
  <2>5. QED
    BY <2>3, <2>4
<1>12. CASE UndoUser(t)
  <2>1. Release(t)
    BY <1>12 DEF UndoUser
  <2>2. /\ thread[t].at = "undo"
        /\ \/ SameForAll /\ thread[t].mine = NoTurn /\ cut' = cut
           \/ SameForAll /\ thread[t].mine # NoTurn /\ CutsOff(t)
           \/ /\ WithdrawsOnly(t) /\ thread[t].mine # NoTurn
              /\ IF \E u \in Unfolded(disk[P(t)]) : u.idx = thread[t].mine
                 THEN cut' = cut ELSE CutsOff(t)
    BY <1>12, UndoMemory DEF CutsOff
  <2>3. QED
    BY <1>c, <2>1, <2>2 DEF Undoes
<1>13. QED
  BY <1>1, <1>2, <1>3, <1>4, <1>5, <1>6, <1>7, <1>8, <1>n, <1>9, <1>10, <1>11, <1>12 DEF Handle


-----------------------------------------------------------------------------
(* Pairs.                                                                   *)

UserLine(e) == [role |-> "user", of |-> e]
PersonaLine(e) == [role |-> "persona", of |-> e]
Midway(p) == \E i \in 1..Len(forgets) : forgets[i] = [of |-> p, midway |-> TRUE]
(* A thread is in an exchange with its user turn, or without one.           *)
At(t, p) == Halfway(t) /\ P(t) = p /\ thread[t].mine # NoTurn
Mute(t, p) == Halfway(t) /\ P(t) = p /\ thread[t].mine = NoTurn
Doing(p, e) == {t \in Threads : At(t, p) /\ Ev(t) = e}

(* A thread's user turn is where its index says, and nobody else's.         *)
Mine(p) ==
  \A t \in Threads : At(t, p) =>
    \E k \in 1..Len(spoken[p]) :
      spoken[p][k].idx = thread[t].mine /\ spoken[p][k].line = UserLine(Ev(t))
Distinct(p) ==
  \A t, u \in Threads : At(t, p) /\ At(u, p) /\ thread[t].mine = thread[u].mine => t = u
Silent(p) == \A t \in Threads : Mute(t, p) => Envelope[Ev(t)].blank
(* Every user turn has its reply, or a thread that is at it; and every      *)
(* reply its user turn, but to blank text.                                  *)
Even(p, e) ==
  LET asked == Count(spoken[p], UserLine(e))
      answered == Count(spoken[p], PersonaLine(e)) + Cardinality(Doing(p, e))
  IN asked <= answered /\ (~Envelope[e].blank => asked = answered)
Paired(p) ==
  Mine(p) /\ Distinct(p) /\ Silent(p) /\ \A e \in Events : <<p, e>> \in cut \/ Even(p, e)
PairsAt(p) == p \in misread \/ Midway(p) \/ Paired(p)
PairInv == \A p \in Personas : PairsAt(p)

(* Finitely many threads are at an exchange.                                *)
LEMMA DoingFinite ==
  ASSUME NEW p, NEW e
  PROVE  IsFiniteSet(Doing(p, e)) /\ Cardinality(Doing(p, e)) \in Nat
<1>1. IsFiniteSet(Threads)
  BY ChatAssumption
<1>2. IsFiniteSet(Doing(p, e))
  BY <1>1, FS_Subset DEF Doing
<1>3. QED
  BY <1>2, FS_CardinalityType

(* The next index is above that of every turn that was said.                *)
LEMMA BeyondSaid ==
  ASSUME NEW d, NEW s, Holds(d, s), NEW k \in 1..Len(s)
  PROVE  s[k].idx < NextIndex(d) /\ s[k].idx \in Nat
<1>1. Stored(d) /\ s \in Seq(Turns) /\ d.through \in Int /\ d.turns \subseteq Turns
  BY StoredParts DEF Holds
<1>2. PICK n \in 0..Len(s) : FoldedTo(d, s, n)
  BY DEF Holds
<1>3. NextIndex(d) \in Nat /\ NextIndex(d) > d.through /\ \A t \in d.turns : NextIndex(d) > t.idx
  BY <1>1, NextIsBeyond
<1>4. s[k] \in Turns /\ s[k].idx \in Nat
  <2>1. s[k] \in Turns
    BY <1>1, ElementOfSeq
  <2>2. QED
    BY <2>1 DEF Turns
<1>5. Len(s) \in Nat
  BY <1>1, LenProperties
<1>6. CASE k <= n
  BY <1>2, <1>1, <1>3, <1>4, <1>5, <1>6 DEF FoldedTo
<1>7. CASE k > n
  <2>1. s[k] \in Stretch(s, n, Len(s))
    BY <1>2, <1>5, <1>7 DEF Stretch
  <2>2. s[k] \in Unfolded(d)
    BY <1>2, <2>1 DEF FoldedTo
  <2>3. s[k] \in d.turns
    BY <2>2 DEF Unfolded
  <2>4. QED
    BY <1>3, <1>4, <2>3
<1>8. QED
  BY <1>2, <1>5, <1>6, <1>7

(* The same threads are at it, at the same.                                 *)
SameAt(u, p) ==
  /\ At(u, p)' <=> At(u, p)
  /\ At(u, p) => Ev(u)' = Ev(u) /\ thread'[u].mine = thread[u].mine
  /\ Mute(u, p)' => Envelope[Ev(u)'].blank \/ (Mute(u, p) /\ Ev(u)' = Ev(u))

(* As many threads are at an exchange as were.                              *)
LEMMA SameDoing ==
  ASSUME NEW p, NEW e, \A u \in Threads : SameAt(u, p)
  PROVE  Doing(p, e)' = Doing(p, e)
BY DEF SameAt, Doing

(* The count after a step, spelled out.                                     *)
LEMMA EvenLater ==
  ASSUME NEW p, NEW e,
         NEW asked, asked = Count(spoken'[p], UserLine(e)),
         NEW answered, answered = Count(spoken'[p], PersonaLine(e)) + Cardinality(Doing(p, e)'),
         asked <= answered, ~Envelope[e].blank => asked = answered
  PROVE  Even(p, e)'
BY DEF Even, Count, LinePlaces, UserLine, PersonaLine

LEMMA SilentLater ==
  ASSUME NEW p, Silent(p), \A u \in Threads : SameAt(u, p)
  PROVE  Silent(p)'
BY DEF Silent, SameAt, Mute, Ev

(* Where nothing is said and nobody comes or goes, pairs stay pairs.        *)
LEMMA KeptPairs ==
  ASSUME NEW p \in Personas, Paired(p), Same(p), cut \subseteq cut',
         \A u \in Threads : SameAt(u, p)
  PROVE  Paired(p)'
<1>0. Mine(p) /\ Distinct(p) /\ Silent(p) /\ \A e \in Events : <<p, e>> \in cut \/ Even(p, e)
  BY DEF Paired
<1>1. spoken'[p] = spoken[p]
  BY DEF Same
<1>2. Mine(p)'
  BY <1>0, <1>1 DEF Mine, SameAt, UserLine
<1>3. Distinct(p)' /\ Silent(p)'
  BY <1>0, SilentLater DEF Distinct, SameAt
<1>4. ASSUME NEW e \in Events, Even(p, e)
      PROVE  Even(p, e)'
  <2>1. Doing(p, e)' = Doing(p, e)
    BY SameDoing
  <2>2. QED
    BY <1>1, <1>4, <2>1, EvenLater DEF Even
<1>5. QED
  BY <1>0, <1>2, <1>3, <1>4 DEF Paired

(* The threads at another persona's exchange are as they were.              *)
LEMMA OthersAt ==
  ASSUME NEW t \in Threads, NEW r, Becomes(t, r), r.at \in Half => r.todo = thread[t].todo,
         NEW p, p # P(t)
  PROVE  \A u \in Threads : SameAt(u, p)
<1>1. thread'[t] = r /\ \A u \in Threads : u # t => thread'[u] = thread[u]
  BY DEF Becomes
<1>2. ~At(t, p) /\ ~At(t, p)' /\ ~Mute(t, p)'
  BY <1>1 DEF At, Mute, P, Halfway, Half
<1>3. ASSUME NEW u \in Threads, u # t
      PROVE  SameAt(u, p)
  BY <1>1, <1>3 DEF SameAt, At, Mute, P, Halfway, Ev
<1>4. SameAt(t, p)
  BY <1>2 DEF SameAt
<1>5. QED
  BY <1>3, <1>4

(* A record, as the pairs see it.                                           *)
LEMMA RecordCounts ==
  ASSUME ShapeInv, NEW p \in Personas, Holds(disk[p], spoken[p]), NEW t \in Threads, Records(t, p)
  PROVE  /\ Len(spoken[p]) \in Nat /\ Len(spoken'[p]) = Len(spoken[p]) + 1
         /\ \A k \in 1..Len(spoken[p]) : spoken'[p][k] = spoken[p][k]
         /\ spoken'[p][Len(spoken[p]) + 1].idx = NextIndex(disk[p])
         /\ spoken'[p][Len(spoken[p]) + 1].line = [role |-> thread[t].at, of |-> Ev(t)]
         /\ \A l : Count(spoken[p], l) \in Nat
         /\ \A l : Count(spoken'[p], l) = IF l = [role |-> thread[t].at, of |-> Ev(t)]
                                         THEN Count(spoken[p], l) + 1 ELSE Count(spoken[p], l)
<1> DEFINE d == disk[p]
           s == spoken[p]
           role == thread[t].at
           x == Ev(t)
           u == Turn(d, role, x)
           r == spoken'[p]
<1>1. role \in Roles /\ r = Append(s, u)
  BY DEF Records
<1>2. x \in Events
  BY <1>1 DEF ShapeInv, AtWork, Roles
<1>3. Holds(d, s)
  OBVIOUS
<1> HIDE DEF d, s, role, x, r
<1>4. s \in Seq(Turns) /\ u \in Turns /\ u.line = [role |-> role, of |-> x] /\ u.idx = NextIndex(d)
  BY <1>1, <1>2, <1>3, TurnIsTurn
<1> HIDE DEF u
<1>5. /\ Len(s) \in Nat /\ Len(r) = Len(s) + 1 /\ r[Len(s) + 1] = u
      /\ \A k \in 1..Len(s) : r[k] = s[k]
  BY <1>1, <1>4, LenProperties, AppendProperties
<1>6. ASSUME NEW l
      PROVE  /\ Count(s, l) \in Nat
             /\ Count(r, l) = IF l = u.line THEN Count(s, l) + 1 ELSE Count(s, l)
  BY <1>1, <1>4, CountNat, CountAppend
<1>7. r[Len(s) + 1].idx = NextIndex(d) /\ r[Len(s) + 1].line = [role |-> role, of |-> x]
  BY <1>4, <1>5
<1>8. \A l : Count(r, l) = IF l = [role |-> role, of |-> x] THEN Count(s, l) + 1 ELSE Count(s, l)
  BY <1>4, <1>6
<1>9. QED
  BY <1>5, <1>6, <1>7, <1>8 DEF d, s, role, x, r


(* A record that is cut short, the thread as much at it as before.          *)
LEMMA CutPairs ==
  ASSUME ShapeInv, NEW t \in Threads, NEW p \in Personas, p = P(t), Paired(p),
         Holds(disk[p], spoken[p]), Records(t, p), CutsOff(t), \A u \in Threads : SameAt(u, p)
  PROVE  Paired(p)'
<1>0. Mine(p) /\ Distinct(p) /\ Silent(p) /\ \A e \in Events : <<p, e>> \in cut \/ Even(p, e)
  BY DEF Paired
<1> DEFINE n == Len(spoken[p])
           said == [role |-> thread[t].at, of |-> Ev(t)]
<1>1. /\ n \in Nat /\ Len(spoken'[p]) = n + 1
      /\ \A k \in 1..n : spoken'[p][k] = spoken[p][k]
      /\ \A l : Count(spoken'[p], l) = IF l = said THEN Count(spoken[p], l) + 1 ELSE Count(spoken[p], l)
  BY RecordCounts
<1> HIDE DEF said
<1>2. ASSUME NEW u \in Threads, At(u, p)'
      PROVE  \E k \in 1..Len(spoken'[p]) :
               spoken'[p][k].idx = thread'[u].mine /\ spoken'[p][k].line = UserLine(Ev(u)')
  <2>1. At(u, p) /\ Ev(u)' = Ev(u) /\ thread'[u].mine = thread[u].mine
    BY <1>2 DEF SameAt
  <2>2. PICK k \in 1..n : spoken[p][k].idx = thread[u].mine /\ spoken[p][k].line = UserLine(Ev(u))
    BY <1>0, <2>1 DEF Mine
  <2>3. k \in 1..Len(spoken'[p]) /\ spoken'[p][k] = spoken[p][k]
    BY <1>1, <2>2
  <2>4. QED
    BY <2>1, <2>2, <2>3
<1>3. Mine(p)'
  BY <1>2 DEF Mine, UserLine
<1>4. Distinct(p)' /\ Silent(p)'
  BY <1>0, SilentLater DEF Distinct, SameAt
<1>5. ASSUME NEW e \in Events, <<p, e>> \notin cut'
      PROVE  Even(p, e)'
  <2>1. <<p, e>> \notin cut /\ e # Ev(t)
    BY <1>5 DEF CutsOff
  <2>2. UserLine(e) # said /\ PersonaLine(e) # said
    BY <2>1 DEF UserLine, PersonaLine, said
  <2>3. Doing(p, e)' = Doing(p, e)
    BY SameDoing
  <2>4. Even(p, e)
    BY <1>0, <2>1
  <2>5. /\ Count(spoken'[p], UserLine(e)) = Count(spoken[p], UserLine(e))
        /\ Count(spoken'[p], PersonaLine(e)) = Count(spoken[p], PersonaLine(e))
    BY <1>1, <2>2
  <2>6. QED
    BY <2>3, <2>4, <2>5, EvenLater DEF Even
<1>6. QED
  BY <1>3, <1>4, <1>5 DEF Paired

(* A user turn is recorded: an exchange begins.                             *)
LEMMA BeginsPairs ==
  ASSUME ShapeInv, NEW t \in Threads, NEW p \in Personas, p = P(t), Paired(p),
         Holds(disk[p], spoken[p]), Records(t, p), Begins(t), p \notin misread'
  PROVE  Paired(p)'
<1>0. Mine(p) /\ Distinct(p) /\ Silent(p) /\ \A e \in Events : <<p, e>> \in cut \/ Even(p, e)
  BY DEF Paired
<1> DEFINE n == Len(spoken[p])
           s == spoken[p]
           z == spoken'[p]
           i == NextIndex(disk[p])
           x == Ev(t)
<1>1. /\ thread[t].at = "user" /\ cut' = cut /\ x \in Events
      /\ thread'[t].at = "persona" /\ Ev(t)' = x /\ P(t)' = p /\ thread'[t].mine = i
      /\ \A u \in Threads : u # t => thread'[u] = thread[u]
  BY DEF Begins, Becomes, Ev, P, ShapeInv, AtWork
<1>2. /\ n \in Nat /\ Len(z) = n + 1
      /\ \A k \in 1..n : z[k] = s[k]
      /\ z[n + 1].idx = i /\ z[n + 1].line = UserLine(x)
      /\ \A l : Count(s, l) \in Nat
      /\ \A l : Count(z, l) = IF l = UserLine(x) THEN Count(s, l) + 1 ELSE Count(s, l)
  <2> DEFINE line == [role |-> thread[t].at, of |-> Ev(t)]
  <2>1. /\ n \in Nat /\ Len(z) = n + 1
        /\ \A k \in 1..n : z[k] = s[k]
        /\ z[n + 1].idx = i /\ z[n + 1].line = line
        /\ \A l : Count(s, l) \in Nat
        /\ \A l : Count(z, l) = IF l = line THEN Count(s, l) + 1 ELSE Count(s, l)
    BY RecordCounts
  <2>2. line = UserLine(x)
    BY <1>1 DEF UserLine
  <2> HIDE DEF line, n, s, z, i, x
  <2>3. QED
    BY <2>1, <2>2
<1>3. \A k \in 1..n : s[k].idx < i /\ s[k].idx \in Nat
  BY BeyondSaid
<1>i. i # NoTurn
  BY NextIsBeyond DEF Holds, NoTurn
<1>4. At(t, p)' /\ ~At(t, p) /\ ~Mute(t, p)'
  BY <1>1, <1>i DEF At, Mute, Halfway, P
<1>5. \A u \in Threads : u # t => SameAt(u, p)
  BY <1>1 DEF SameAt, At, Mute, Halfway, P, Ev
<1>6. ASSUME NEW u \in Threads, u # t, At(u, p)'
      PROVE  \E k \in 1..n : s[k].idx = thread'[u].mine /\ s[k].line = UserLine(Ev(u)')
  <2>1. At(u, p) /\ Ev(u)' = Ev(u) /\ thread'[u].mine = thread[u].mine
    BY <1>5, <1>6 DEF SameAt
  <2>2. QED
    BY <1>0, <2>1 DEF Mine
<1> HIDE DEF n, s, z, i
<1>7. ASSUME NEW u \in Threads, At(u, p)'
      PROVE  \E k \in 1..Len(z) : z[k].idx = thread'[u].mine /\ z[k].line = UserLine(Ev(u)')
  <2>1. CASE u = t
    <3>1. n + 1 \in 1..Len(z)
      BY <1>2
    <3>2. QED
      BY <1>1, <1>2, <2>1, <3>1
  <2>2. CASE u # t
    <3>1. PICK k \in 1..n : s[k].idx = thread'[u].mine /\ s[k].line = UserLine(Ev(u)')
      BY <1>6, <1>7, <2>2
    <3>2. k \in 1..Len(z) /\ z[k] = s[k]
      BY <1>2, <3>1
    <3>3. QED
      BY <3>1, <3>2
  <2>3. QED
    BY <2>1, <2>2
<1>8. Mine(p)'
  BY <1>7 DEF Mine, UserLine, z
<1>9. \A u \in Threads : u # t /\ At(u, p)' => thread'[u].mine # i
  BY <1>2, <1>3, <1>6
<1>s. Silent(p)'
  BY <1>0, <1>4, <1>5 DEF Silent, SameAt
<1>10. Distinct(p)'
  <2>1. ASSUME NEW u \in Threads, NEW v \in Threads, At(u, p)', At(v, p)',
               thread'[u].mine = thread'[v].mine
        PROVE  u = v
    <3>1. CASE u = t \/ v = t
      BY <1>1, <1>9, <2>1, <3>1
    <3>2. CASE u # t /\ v # t
      BY <1>0, <1>5, <2>1, <3>2 DEF Distinct, SameAt
    <3>3. QED
      BY <3>1, <3>2
  <2>2. QED
    BY <2>1 DEF Distinct
<1>11. ASSUME NEW e \in Events, <<p, e>> \notin cut'
       PROVE  Even(p, e)'
  <2> DEFINE asked == Count(s, UserLine(e))
             answered == Count(s, PersonaLine(e)) + Cardinality(Doing(p, e))
             askedNow == Count(z, UserLine(e))
             answeredNow == Count(z, PersonaLine(e)) + Cardinality(Doing(p, e)')
  <2>1. asked <= answered /\ (~Envelope[e].blank => asked = answered)
    BY <1>0, <1>1, <1>11 DEF Even, s
  <2>2. Count(z, PersonaLine(e)) = Count(s, PersonaLine(e)) /\ Count(s, PersonaLine(e)) \in Nat
        /\ asked \in Nat
    BY <1>2 DEF PersonaLine, UserLine
  <2>3. UserLine(e) = UserLine(x) <=> e = x
    BY DEF UserLine
  <2>4. IsFiniteSet(Doing(p, e)) /\ Cardinality(Doing(p, e)) \in Nat
    BY DoingFinite
  <2>5. CASE e = x
    <3>1. Doing(p, e)' = Doing(p, e) \cup {t} /\ t \notin Doing(p, e)
      BY <1>1, <1>4, <1>5, <2>5 DEF Doing, SameAt
    <3>2. Cardinality(Doing(p, e)') = Cardinality(Doing(p, e)) + 1
      <4>1. t \notin Doing(p, e) => Cardinality(Doing(p, e) \cup {t}) = Cardinality(Doing(p, e)) + 1
        BY <2>4, FS_AddElement
      <4>2. QED
        BY <3>1, <4>1
    <3>3. Count(z, UserLine(e)) = Count(s, UserLine(e)) + 1
      BY <1>2, <2>5
    <3>4. askedNow = asked + 1 /\ answeredNow = answered + 1
      BY <2>2, <2>4, <3>2, <3>3
    <3>5. QED
      BY <2>1, <2>2, <2>4, <3>4, EvenLater DEF z
  <2>6. CASE e # x
    <3>1. Doing(p, e)' = Doing(p, e)
      BY <1>1, <1>4, <1>5, <2>6 DEF Doing, SameAt
    <3>2. Count(z, UserLine(e)) = Count(s, UserLine(e))
      BY <1>2, <2>3, <2>6
    <3>3. askedNow = asked /\ answeredNow = answered
      BY <2>2, <3>1, <3>2
    <3>4. QED
      BY <2>1, <3>3, EvenLater DEF z
  <2>7. QED
    BY <2>5, <2>6
<1>12. QED
  BY <1>8, <1>s, <1>10, <1>11 DEF Paired

(* The reply is recorded: the exchange is whole.                            *)
LEMMA AnswersPairs ==
  ASSUME ShapeInv, NEW t \in Threads, NEW p \in Personas, p = P(t), Paired(p),
         Holds(disk[p], spoken[p]), Records(t, p), Answers(t)
  PROVE  Paired(p)'
<1>0. Mine(p) /\ Distinct(p) /\ Silent(p) /\ \A e \in Events : <<p, e>> \in cut \/ Even(p, e)
  BY DEF Paired
<1> DEFINE n == Len(spoken[p])
           s == spoken[p]
           z == spoken'[p]
           x == Ev(t)
<1>1. /\ thread[t].at = "persona" /\ cut' = cut /\ thread'[t].at \notin Half
      /\ \A u \in Threads : u # t => thread'[u] = thread[u]
  BY DEF Answers, Becomes
<1>2. /\ n \in Nat /\ Len(z) = n + 1
      /\ \A k \in 1..n : z[k] = s[k]
      /\ \A l : Count(s, l) \in Nat
      /\ \A l : Count(z, l) = IF l = PersonaLine(x) THEN Count(s, l) + 1 ELSE Count(s, l)
  <2> DEFINE line == [role |-> thread[t].at, of |-> Ev(t)]
  <2>1. /\ n \in Nat /\ Len(z) = n + 1
        /\ \A k \in 1..n : z[k] = s[k]
        /\ \A l : Count(s, l) \in Nat
        /\ \A l : Count(z, l) = IF l = line THEN Count(s, l) + 1 ELSE Count(s, l)
    BY RecordCounts
  <2>2. line = PersonaLine(x)
    BY <1>1 DEF PersonaLine
  <2> HIDE DEF line, n, s, z, x
  <2>3. QED
    BY <2>1, <2>2
<1>4. ~At(t, p)' /\ ~Mute(t, p)' /\ (At(t, p) \/ Mute(t, p))
  BY <1>1 DEF At, Mute, Halfway, P, Half
<1>5. \A u \in Threads : u # t => SameAt(u, p)
  BY <1>1 DEF SameAt, At, Mute, Halfway, P, Ev
<1>m. ~At(t, p) => Envelope[x].blank
  BY <1>0, <1>4 DEF Silent
<1>6. ASSUME NEW u \in Threads, At(u, p)'
      PROVE  \E k \in 1..n : s[k].idx = thread'[u].mine /\ s[k].line = UserLine(Ev(u)')
  <2>1. At(u, p) /\ Ev(u)' = Ev(u) /\ thread'[u].mine = thread[u].mine
    BY <1>4, <1>5, <1>6 DEF SameAt
  <2>2. QED
    BY <1>0, <2>1 DEF Mine
<1> HIDE DEF n, s, z
<1>7. ASSUME NEW u \in Threads, At(u, p)'
      PROVE  \E k \in 1..Len(z) : z[k].idx = thread'[u].mine /\ z[k].line = UserLine(Ev(u)')
  <2>1. PICK k \in 1..n : s[k].idx = thread'[u].mine /\ s[k].line = UserLine(Ev(u)')
    BY <1>6, <1>7
  <2>2. k \in 1..Len(z) /\ z[k] = s[k]
    BY <1>2, <2>1
  <2>3. QED
    BY <2>1, <2>2
<1>8. Mine(p)'
  BY <1>7 DEF Mine, UserLine, z
<1>9. Distinct(p)' /\ Silent(p)'
  BY <1>0, <1>4, <1>5 DEF Distinct, Silent, SameAt
<1>10. ASSUME NEW e \in Events, <<p, e>> \notin cut'
       PROVE  Even(p, e)'
  <2> DEFINE asked == Count(s, UserLine(e))
             answered == Count(s, PersonaLine(e)) + Cardinality(Doing(p, e))
             askedNow == Count(z, UserLine(e))
             answeredNow == Count(z, PersonaLine(e)) + Cardinality(Doing(p, e)')
  <2>1. asked <= answered /\ (~Envelope[e].blank => asked = answered)
    BY <1>0, <1>1, <1>10 DEF Even, s
  <2>2. askedNow = asked /\ asked \in Nat /\ Count(s, PersonaLine(e)) \in Nat
    BY <1>2 DEF PersonaLine, UserLine
  <2>3. PersonaLine(e) = PersonaLine(x) <=> e = x
    BY DEF PersonaLine
  <2>4. IsFiniteSet(Doing(p, e)) /\ Cardinality(Doing(p, e)) \in Nat
    BY DoingFinite
  <2>n. CASE e = x /\ ~At(t, p)
    <3>1. Doing(p, e)' = Doing(p, e) /\ Envelope[e].blank
      BY <1>1, <1>4, <1>5, <1>m, <2>n DEF Doing, SameAt
    <3>2. Count(z, PersonaLine(e)) = Count(s, PersonaLine(e)) + 1
      BY <1>2, <2>n
    <3>3. askedNow <= answeredNow
      BY <2>1, <2>2, <2>4, <3>1, <3>2
    <3>4. QED
      BY <3>1, <3>3, EvenLater DEF z
  <2>5. CASE e = x /\ At(t, p)
    <3>1. Doing(p, e)' = Doing(p, e) \ {t} /\ t \in Doing(p, e)
      BY <1>1, <1>4, <1>5, <2>5 DEF Doing, SameAt
    <3>2. Cardinality(Doing(p, e)') = Cardinality(Doing(p, e)) - 1
      <4>1. t \in Doing(p, e) => Cardinality(Doing(p, e) \ {t}) = Cardinality(Doing(p, e)) - 1
        BY <2>4, FS_RemoveElement
      <4>2. QED
        BY <3>1, <4>1
    <3>3. Count(z, PersonaLine(e)) = Count(s, PersonaLine(e)) + 1
      BY <1>2, <2>5
    <3>4. answeredNow = answered
      BY <2>2, <2>4, <3>2, <3>3
    <3>5. QED
      BY <2>1, <2>2, <3>4, EvenLater DEF z
  <2>6. CASE e # x
    <3>1. Doing(p, e)' = Doing(p, e)
      BY <1>1, <1>4, <1>5, <2>6 DEF Doing, SameAt
    <3>2. Count(z, PersonaLine(e)) = Count(s, PersonaLine(e))
      BY <1>2, <2>3, <2>6
    <3>3. answeredNow = answered
      BY <3>1, <3>2
    <3>4. QED
      BY <2>1, <2>2, <3>3, EvenLater DEF z
  <2>7. QED
    BY <2>n, <2>5, <2>6
<1>11. QED
  BY <1>8, <1>9, <1>10 DEF Paired


(* An exchange is over, its user turn withdrawn, left, or none.             *)
LEMMA UndoesPairs ==
  ASSUME ShapeInv, NEW t \in Threads, NEW p \in Personas, p = P(t), Paired(p),
         Holds(disk[p], spoken[p]), Undoes(t)
  PROVE  Paired(p)'
<1>0. Mine(p) /\ Distinct(p) /\ Silent(p) /\ \A e \in Events : <<p, e>> \in cut \/ Even(p, e)
  BY DEF Paired
<1> DEFINE n == Len(spoken[p])
           s == spoken[p]
           z == spoken'[p]
           x == Ev(t)
           m == thread[t].mine
           d == disk[p]
           there == \E u \in Unfolded(d) : u.idx = m
<1>1. /\ thread[t].at = "undo" /\ thread'[t].at \notin Half
      /\ \A u \in Threads : u # t => thread'[u] = thread[u]
  BY DEF Undoes, Becomes
<1>2. \/ Same(p) /\ m = NoTurn /\ cut' = cut
      \/ z = s /\ m # NoTurn /\ cut' = cut \cup {<<p, x>>}
      \/ m # NoTurn /\ there /\ z = Withdrawn(s, m) /\ cut' = cut
  <2>1. CASE WithdrawsOnly(t) /\ m # NoTurn /\ IF there THEN cut' = cut ELSE CutsOff(t)
    <3>1. IF there THEN z = Withdrawn(s, m) ELSE z = s
      BY <2>1 DEF WithdrawsOnly, Withdraws
    <3> HIDE DEF there, z, s, m
    <3>2. QED
      BY <2>1, <3>1 DEF CutsOff
  <2>2. CASE SameForAll
    <3>1. Same(p)
      BY <2>2 DEF SameForAll
    <3>2. \/ m = NoTurn /\ cut' = cut
          \/ m # NoTurn /\ cut' = cut \cup {<<p, x>>}
          \/ m # NoTurn /\ there /\ WithdrawsOnly(t) /\ cut' = cut
          \/ m # NoTurn /\ ~there /\ WithdrawsOnly(t) /\ cut' = cut \cup {<<p, x>>}
      BY DEF Undoes, CutsOff
    <3>3. z = s
      BY <3>1 DEF Same
    <3>4. there /\ WithdrawsOnly(t) => z = Withdrawn(s, m)
      BY DEF WithdrawsOnly, Withdraws
    <3>5. QED
      BY <3>1, <3>2, <3>3, <3>4
  <2>3. QED
    BY <2>1, <2>2 DEF Undoes
<1>3. Holds(d, s) /\ s \in Seq(Turns) /\ Rising(s) /\ n \in Nat
  BY LenProperties DEF Holds
<1>4. ~At(t, p)' /\ ~Mute(t, p)' /\ (At(t, p) <=> m # NoTurn)
  BY <1>1 DEF At, Mute, Halfway, P, Half
<1>5. \A u \in Threads : u # t => SameAt(u, p)
  BY <1>1 DEF SameAt, At, Mute, Halfway, P, Ev
<1>n. CASE m = NoTurn
  <2>1. Same(p) /\ cut' = cut
    BY <1>2, <1>n
  <2>2. SameAt(t, p)
    BY <1>4, <1>n DEF SameAt
  <2>3. \A u \in Threads : SameAt(u, p)
    BY <1>5, <2>2
  <2>4. QED
    BY <2>1, <2>3, KeptPairs
<1> SUFFICES ASSUME m # NoTurn
             PROVE  Paired(p)'
  BY <1>n
<1>6. Distinct(p)' /\ Silent(p)'
  BY <1>0, <1>4, <1>5 DEF Distinct, Silent, SameAt
<1>7. ASSUME NEW u \in Threads, At(u, p)'
      PROVE  /\ thread'[u].mine # m
             /\ \E k \in 1..n : s[k].idx = thread'[u].mine /\ s[k].line = UserLine(Ev(u)')
  <2>1. u # t /\ At(u, p) /\ Ev(u)' = Ev(u) /\ thread'[u].mine = thread[u].mine
    BY <1>4, <1>5, <1>7 DEF SameAt
  <2>2. thread[u].mine # thread[t].mine
    BY <1>0, <1>4, <2>1 DEF Distinct
  <2>3. QED
    BY <1>0, <2>1, <2>2 DEF Mine
<1>8. PICK j \in 1..n : s[j].idx = m /\ s[j].line = UserLine(x)
  BY <1>0, <1>4 DEF Mine
<1>9. \A e \in Events : e # x => Doing(p, e)' = Doing(p, e)
  BY <1>4, <1>5 DEF Doing, SameAt
<1>10. \A e \in Events : e = x => Doing(p, e)' = Doing(p, e) \ {t} /\ t \in Doing(p, e)
  BY <1>4, <1>5 DEF Doing, SameAt
<1>11. \A l : Count(s, l) \in Nat
  BY <1>3, CountNat
<1>12. CASE z = s /\ cut' = cut \cup {<<p, x>>}
  <2>1. z = s /\ cut' = cut \cup {<<p, x>>}
    BY <1>12
  <2>2. Mine(p)'
    BY <1>7, <2>1 DEF Mine, UserLine
  <2>3. ASSUME NEW e \in Events, <<p, e>> \notin cut'
        PROVE  Even(p, e)'
    <3>1. Even(p, e) /\ Doing(p, e)' = Doing(p, e)
      BY <1>0, <1>9, <2>1, <2>3
    <3>2. QED
      BY <2>1, <3>1, EvenLater DEF Even
  <2>4. QED
    BY <1>6, <2>2, <2>3 DEF Paired
<1>13. CASE there /\ z = Withdrawn(s, m) /\ cut' = cut
  <2>1. cut' = cut /\ z = Withdrawn(s, m)
    BY <1>13
  <2>2. PICK w \in Unfolded(d) : m = w.idx
    BY <1>13
  <2> HIDE DEF s, z, m, d, there, x
  <2>3. PICK k \in 1..Len(s) : s[k].idx = m /\ Withdrawn(s, m) = RemoveAt(s, k)
    BY <1>3, <2>2, WithdrawnHolds
  <2>4. n = Len(s)
    BY DEF s
  <2> HIDE DEF n
  <2>5. k = j
    <3>1. \A i \in 1..n : s[i].idx \in Nat
      <4>1. \A i \in 1..n : s[i] \in Turns
        BY <1>3, <2>4, ElementOfSeq
      <4>2. QED
        BY <4>1 DEF Turns
    <3>2. QED
      BY <1>3, <1>8, <2>3, <2>4, <3>1 DEF Rising
  <2>6. /\ Len(z) = n - 1
        /\ \A i \in 1..(n - 1) : z[i] = IF i < j THEN s[i] ELSE s[i + 1]
    BY <1>3, <2>1, <2>3, <2>4, <2>5, RemovedAt
  <2>7. ASSUME NEW u \in Threads, At(u, p)'
        PROVE  \E i \in 1..Len(z) : z[i].idx = thread'[u].mine /\ z[i].line = UserLine(Ev(u)')
    <3>1. PICK i \in 1..n : s[i].idx = thread'[u].mine /\ s[i].line = UserLine(Ev(u)')
      BY <1>7, <2>7
    <3>2. i # j
      BY <1>7, <1>8, <2>7, <3>1
    <3>3. CASE i < j
      <4>1. i \in 1..Len(z) /\ z[i] = s[i]
        BY <1>3, <2>6, <3>3, <1>8
      <4>2. QED
        BY <3>1, <4>1
    <3>4. CASE i > j
      <4>1. i - 1 \in 1..Len(z) /\ z[i - 1] = s[i]
        BY <1>3, <2>6, <3>4, <1>8
      <4>2. QED
        BY <3>1, <4>1
    <3>5. QED
      BY <3>2, <3>3, <3>4
  <2>8. Mine(p)'
    BY <2>7 DEF Mine, UserLine, z
  <2>9. \A l : Count(z, l) = IF l = UserLine(x) THEN Count(s, l) - 1 ELSE Count(s, l)
    BY <1>3, <1>8, <2>1, <2>3, <2>5, CountRemove
  <2>10. ASSUME NEW e \in Events, <<p, e>> \notin cut'
         PROVE  Even(p, e)'
    <3> DEFINE asked == Count(s, UserLine(e))
               answered == Count(s, PersonaLine(e)) + Cardinality(Doing(p, e))
               askedNow == Count(z, UserLine(e))
               answeredNow == Count(z, PersonaLine(e)) + Cardinality(Doing(p, e)')
    <3>1. asked <= answered /\ (~Envelope[e].blank => asked = answered)
      BY <1>0, <2>1, <2>10 DEF Even, s
    <3>2. Count(z, PersonaLine(e)) = Count(s, PersonaLine(e)) /\ Count(s, PersonaLine(e)) \in Nat
          /\ asked \in Nat
      BY <1>11, <2>9 DEF PersonaLine, UserLine
    <3>3. UserLine(e) = UserLine(x) <=> e = x
      BY DEF UserLine
    <3>4. IsFiniteSet(Doing(p, e)) /\ Cardinality(Doing(p, e)) \in Nat
      BY DoingFinite
    <3>5. CASE e = x
      <4>0. Doing(p, e)' = Doing(p, e) \ {t} /\ t \in Doing(p, e)
        BY <1>10, <3>5
      <4>1. Cardinality(Doing(p, e)') = Cardinality(Doing(p, e)) - 1
        <5> DEFINE A == Doing(p, e)
                   B == Doing(p, e)'
        <5>1. B = A \ {t} /\ t \in A /\ IsFiniteSet(A)
          BY <3>4, <4>0
        <5> HIDE DEF A, B
        <5>2. Cardinality(B) = Cardinality(A) - 1
          BY <5>1, FS_RemoveElement
        <5>3. QED
          BY <5>2 DEF A, B
      <4>2. Count(z, UserLine(e)) = Count(s, UserLine(e)) - 1
        BY <2>9, <3>5
      <4>3. askedNow = asked - 1 /\ answeredNow = answered - 1
        BY <3>2, <3>4, <4>1, <4>2
      <4>4. QED
        BY <3>1, <3>2, <3>4, <4>3, EvenLater DEF z
    <3>6. CASE e # x
      <4>1. Doing(p, e)' = Doing(p, e)
        BY <1>9, <3>6
      <4>2. Count(z, UserLine(e)) = Count(s, UserLine(e))
        BY <2>9, <3>3, <3>6
      <4>3. askedNow = asked /\ answeredNow = answered
        BY <3>2, <4>1, <4>2
      <4>4. QED
        BY <3>1, <4>3, EvenLater DEF z
    <3>7. QED
      BY <3>5, <3>6
  <2>11. QED
    BY <1>6, <2>8, <2>10 DEF Paired
<1>14. QED
  BY <1>2, <1>12, <1>13

(* Of the pairs of a persona, a step of a thread.                           *)
LEMMA HandlePairs ==
  ASSUME ShapeInv, DiskInv, PairInv, NEW t \in Threads, Handle(t), NEW p \in Personas
  PROVE  PairsAt(p)'
<1>a. Functional /\ PairsAt(p) /\ misread \subseteq misread'
  BY HandleMemory DEF DiskInv, PairInv
<1>1. forgets' = forgets /\ cut \subseteq cut'
  <2>1. forgets' = forgets
    BY HandleKeeps
  <2>2. cut \subseteq cut'
    BY <1>a, HandleHalf DEF Aside, Begins, BeginsMute, Fails, Answers, Undoes, CutsOff
  <2>3. QED
    BY <2>1, <2>2
<1>2. Midway(p) => Midway(p)'
  BY <1>1 DEF Midway
<1>3. CASE Midway(p) \/ p \in misread'
  BY <1>2, <1>3 DEF PairsAt
<1> SUFFICES ASSUME ~Midway(p), p \notin misread'
             PROVE  Paired(p)'
  BY <1>3 DEF PairsAt
<1>0. Functional /\ Paired(p) /\ Holds(disk[p], spoken[p])
  BY <1>a DEF PairsAt, DiskInv
<1>4. CASE p # P(t)
  <2>1. /\ Same(p)
        /\ \E r : Becomes(t, r) /\ (r.at \in Half => r.todo = thread[t].todo)
    BY <1>0, <1>4, HandleHalf
       DEF Aside, Begins, BeginsMute, Fails, Answers, Undoes, RecordsOnly, WithdrawsOnly, SameForAll
  <2>2. \A u \in Threads : SameAt(u, p)
    BY <1>4, <2>1, OthersAt
  <2>3. QED
    BY <1>0, <1>1, <2>1, <2>2, KeptPairs
<1>5. CASE p = P(t)
  <2>0. RecordsOnly(t) => Records(t, p)
    BY <1>5 DEF RecordsOnly, Misreads
  <2>1. CASE Aside(t)
    <3>1. PICK r : Becomes(t, r) /\ r.at \notin Half /\ thread[t].at \notin Half
      BY <2>1 DEF Aside
    <3>2. \A u \in Threads : SameAt(u, p)
      <4>1. \A u \in Threads : u # t => thread'[u] = thread[u]
        BY <3>1 DEF Becomes
      <4>2. ~At(t, p) /\ ~At(t, p)' /\ ~Mute(t, p)'
        BY <3>1 DEF Becomes, At, Mute, Halfway, Half
      <4>3. QED
        BY <4>1, <4>2 DEF SameAt, At, Mute, Halfway, P, Ev
    <3>3. CASE SameForAll
      <4>1. Same(p)
        BY <3>3 DEF SameForAll
      <4>2. QED
        BY <1>0, <1>1, <3>2, <4>1, KeptPairs
    <3>4. CASE RecordsOnly(t) /\ CutsOff(t)
      BY <1>0, <1>5, <2>0, <3>2, <3>4, CutPairs
    <3>5. QED
      BY <2>1, <3>3, <3>4 DEF Aside
  <2>m. CASE BeginsMute(t)
    <3>1. PICK r : /\ Becomes(t, r) /\ r.at = "persona" /\ r.ev = Ev(t) /\ r.mine = NoTurn
                   /\ thread[t].at = "user" /\ Envelope[Ev(t)].blank
      BY <2>m DEF BeginsMute
    <3>2. thread'[t] = r /\ \A u \in Threads : u # t => thread'[u] = thread[u]
      BY <3>1 DEF Becomes
    <3>3. ~At(t, p) /\ ~At(t, p)' /\ Ev(t)' = Ev(t)
      BY <3>1, <3>2 DEF At, Halfway, Ev
    <3>4. SameAt(t, p)
      BY <3>1, <3>3 DEF SameAt
    <3>5. \A u \in Threads : SameAt(u, p)
      BY <3>2, <3>4 DEF SameAt, At, Mute, Halfway, P, Ev
    <3>6. Same(p)
      BY <2>m DEF BeginsMute, SameForAll
    <3>7. QED
      BY <1>0, <1>1, <3>5, <3>6, KeptPairs
  <2>2. CASE Begins(t)
    <3>1. Records(t, p)
      BY <2>0, <2>2 DEF Begins
    <3>2. QED
      BY <1>0, <1>5, <2>2, <3>1, BeginsPairs
  <2>3. CASE Fails(t)
    <3>1. PICK r : /\ Becomes(t, r) /\ r.at = "undo" /\ r.ev = Ev(t) /\ r.todo = thread[t].todo
                   /\ r.mine = thread[t].mine /\ thread[t].at = "persona"
      BY <2>3 DEF Fails
    <3>2. \A u \in Threads : SameAt(u, p)
      <4>1. thread'[t] = r /\ \A u \in Threads : u # t => thread'[u] = thread[u]
        BY <3>1 DEF Becomes
      <4>2. SameAt(t, p)
        BY <3>1, <4>1 DEF SameAt, At, Mute, Halfway, P, Ev
      <4>3. QED
        BY <4>1, <4>2 DEF SameAt, At, Mute, Halfway, P, Ev
    <3>3. CASE SameForAll
      <4>1. Same(p)
        BY <3>3 DEF SameForAll
      <4>2. QED
        BY <1>0, <1>1, <3>2, <4>1, KeptPairs
    <3>4. CASE RecordsOnly(t) /\ CutsOff(t)
      BY <1>0, <1>5, <2>0, <3>2, <3>4, CutPairs
    <3>5. QED
      BY <2>3, <3>3, <3>4 DEF Fails
  <2>4. CASE Answers(t)
    <3>1. Records(t, p)
      BY <2>0, <2>4 DEF Answers
    <3>2. QED
      BY <1>0, <1>5, <2>4, <3>1, AnswersPairs
  <2>5. CASE Undoes(t)
    BY <1>0, <1>5, <2>5, UndoesPairs
  <2>6. QED
    BY <1>0, <2>1, <2>m, <2>2, <2>3, <2>4, <2>5, HandleHalf
<1>6. QED
  BY <1>4, <1>5


(* Where nobody is at an exchange, the turns alone are counted.             *)
LEMMA NobodyDoing ==
  ASSUME NEW p, NEW e, Doing(p, e) = {}
  PROVE  Cardinality(Doing(p, e)) = 0
BY FS_EmptySet

(* Nobody is at anything.                                                   *)
LEMMA QuietPairs ==
  ASSUME NEW p \in Personas, \A u \in Threads : ~At(u, p)' /\ ~Mute(u, p)',
         \A e \in Events : <<p, e>> \notin cut' =>
           /\ Count(spoken'[p], UserLine(e)) <= Count(spoken'[p], PersonaLine(e))
           /\ ~Envelope[e].blank => Count(spoken'[p], UserLine(e)) = Count(spoken'[p], PersonaLine(e)),
         \A l : Count(spoken'[p], l) \in Nat
  PROVE  Paired(p)'
<1>1. Mine(p)' /\ Distinct(p)' /\ Silent(p)'
  BY DEF Mine, Distinct, Silent
<1>2. ASSUME NEW e \in Events, <<p, e>> \notin cut'
      PROVE  Even(p, e)'
  <2>1. Doing(p, e)' = {}
    BY DEF Doing
  <2> DEFINE A == Doing(p, e)'
  <2>2. A = {}
    BY <2>1
  <2> HIDE DEF A
  <2>3. Cardinality(A) = 0
    BY <2>2, FS_EmptySet
  <2> DEFINE asked == Count(spoken'[p], UserLine(e))
             answered == Count(spoken'[p], PersonaLine(e)) + Cardinality(A)
  <2>4. asked <= answered /\ (~Envelope[e].blank => asked = answered)
    BY <1>2, <2>3
  <2>5. QED
    BY <2>4, EvenLater DEF A
<1>3. QED
  BY <1>1, <1>2 DEF Paired

(* A crash cuts off whoever was at an exchange, and no one else.            *)
LEMMA CrashPairs ==
  ASSUME ShapeInv, DiskInv, PairInv, Crash, NEW p \in Personas
  PROVE  PairsAt(p)'
<1>0. Functional /\ PairsAt(p) /\ (p \notin misread => Holds(disk[p], spoken[p]))
  BY DEF DiskInv, PairInv
<1>m. misread \subseteq misread' /\ (SameForAll \/ \E t \in Threads : RecordsOnly(t))
  BY <1>0, CrashMemory
<1> DEFINE C == {u \in Busy : Halfway(u) \/ thread[u].at = "user"}
<1>1. /\ thread' = [t \in Threads |-> Idle] /\ forgets' = forgets
      /\ cut' = cut \cup {<<P(t), Ev(t)>> : t \in C}
  BY DEF Crash
<1>2. \A u \in Threads : ~At(u, p)' /\ ~Mute(u, p)'
  <2>1. \A u \in Threads : thread'[u] = Idle
    <3> HIDE DEF Idle
    <3>1. QED
      BY <1>1
  <2>2. QED
    BY <2>1, IdleShaped DEF At, Mute, Halfway
<1>3. CASE Midway(p) \/ p \in misread'
  BY <1>1, <1>3 DEF PairsAt, Midway
<1>4. CASE ~Midway(p) /\ p \notin misread'
  <2>0. Paired(p) /\ Holds(disk[p], spoken[p]) /\ spoken[p] \in Seq(Turns)
    BY <1>0, <1>m, <1>4 DEF PairsAt, Holds
  <2>1. \A u \in Threads : thread[u].at \in {"user", "persona", "undo"} => <<P(u), Ev(u)>> \in cut'
    BY <1>1 DEF Busy, Halfway
  <2>2. \A l : Count(spoken[p], l) \in Nat
    BY <2>0, CountNat
  <2>3. ASSUME NEW e \in Events, <<p, e>> \notin cut'
        PROVE  /\ Count(spoken[p], UserLine(e)) <= Count(spoken[p], PersonaLine(e))
               /\ ~Envelope[e].blank => Count(spoken[p], UserLine(e)) = Count(spoken[p], PersonaLine(e))
    <3>1. Even(p, e)
      BY <1>1, <2>0, <2>3 DEF Paired
    <3>2. Doing(p, e) = {}
      BY <2>1, <2>3 DEF Doing, At, Halfway
    <3>3. Cardinality(Doing(p, e)) = 0
      BY <3>2, NobodyDoing
    <3>4. QED
      BY <2>2, <3>1, <3>3 DEF Even
  <2>4. CASE Same(p)
    BY <1>2, <2>2, <2>3, <2>4, QuietPairs DEF Same, PairsAt
  <2>5. CASE \E t \in Threads : Records(t, p)
    <3>1. PICK t \in Threads : Records(t, p)
      BY <2>5
    <3> DEFINE said == [role |-> thread[t].at, of |-> Ev(t)]
    <3>2. \A l : Count(spoken'[p], l) = IF l = said THEN Count(spoken[p], l) + 1 ELSE Count(spoken[p], l)
      BY <2>0, <3>1, RecordCounts
    <3>3. <<p, Ev(t)>> \in cut'
      BY <2>1, <3>1 DEF Records, Roles
    <3> HIDE DEF said
    <3>4. ASSUME NEW e \in Events, <<p, e>> \notin cut'
          PROVE  /\ Count(spoken'[p], UserLine(e)) <= Count(spoken'[p], PersonaLine(e))
                 /\ ~Envelope[e].blank =>
                      Count(spoken'[p], UserLine(e)) = Count(spoken'[p], PersonaLine(e))
      <4>1. UserLine(e) # said /\ PersonaLine(e) # said
        BY <3>3, <3>4 DEF UserLine, PersonaLine, said
      <4>2. QED
        BY <2>3, <3>2, <3>4, <4>1
    <3>5. \A l : Count(spoken'[p], l) \in Nat
      BY <2>2, <3>2
    <3>6. QED
      BY <1>2, <3>4, <3>5, QuietPairs DEF PairsAt
  <2>6. Same(p) \/ \E t \in Threads : Records(t, p)
    BY <1>m, <1>4 DEF SameForAll, RecordsOnly, Misreads
  <2>7. QED
    BY <2>4, <2>5, <2>6
<1>5. QED
  BY <1>3, <1>4

(* A thread that is forgotten begins again, even or given up.               *)
LEMMA ForgetPairs ==
  ASSUME ShapeInv, DiskInv, PairInv, NEW q \in Personas, ForgetThread(q), NEW p \in Personas
  PROVE  PairsAt(p)'
<1>0. Functional /\ PairsAt(p) /\ forgets \in Seq(Forgettings)
  BY DEF DiskInv, PairInv, ShapeInv
<1> DEFINE m == \E t \in Threads : Halfway(t) /\ P(t) = q
           f == [of |-> q, midway |-> m]
<1>1. thread' = thread /\ forgets' = Append(forgets, f) /\ cut \subseteq cut'
  BY DEF ForgetThread, threadVars
<1>2. \A u \in Threads : SameAt(u, p) /\ (At(u, p)' <=> At(u, p)) /\ (Mute(u, p)' <=> Mute(u, p))
  BY <1>1 DEF SameAt, At, Mute, Halfway, P, Ev
<1> HIDE DEF m
<1>3. m \in BOOLEAN
  BY DEF m
<1>4. f \in Forgettings
  BY <1>3, Zenon DEF Forgettings
<1>5. m => f = [of |-> q, midway |-> TRUE]
  BY <1>3, Zenon
<1> HIDE DEF f
<1>6. /\ Len(forgets) \in Nat /\ Len(forgets') = Len(forgets) + 1
      /\ forgets'[Len(forgets) + 1] = f
      /\ \A i \in 1..Len(forgets) : forgets'[i] = forgets[i]
  BY <1>0, <1>1, <1>4, LenProperties, AppendProperties
<1>7. Midway(p) => Midway(p)'
  BY <1>6 DEF Midway
<1>8. CASE p # q
  <2>1. Same(p) /\ (p \in misread => p \in misread')
    BY <1>0, <1>8, ClearsOne
  <2>2. QED
    BY <1>0, <1>1, <1>2, <1>7, <2>1, KeptPairs DEF PairsAt
<1>9. CASE p = q
  <2>1. CASE m
    <3>1. Len(forgets) + 1 \in 1..Len(forgets')
      BY <1>6
    <3>2. Midway(p)'
      BY <1>5, <1>6, <1>9, <2>1, <3>1 DEF Midway
    <3>3. QED
      BY <3>2 DEF PairsAt
  <2>2. CASE ~m
    <3>1. \A u \in Threads : ~At(u, p)' /\ ~Mute(u, p)'
      BY <1>2, <1>9, <2>2 DEF m, At, Mute
    <3>2. spoken'[p] = <<>>
      BY <1>0, <1>9, ClearsOne DEF Clears
    <3>3. \A l : Count(spoken'[p], l) = 0
      BY <3>2, CountEmpty
    <3>4. QED
      BY <3>1, <3>3, QuietPairs DEF PairsAt
  <2>3. QED
    BY <2>1, <2>2
<1>10. QED
  BY <1>8, <1>9

(* At first there is nothing to pair.                                       *)
LEMMA PairInit == ASSUME Init PROVE PairInv
<1>1. /\ thread = [t \in Threads |-> Idle] /\ spoken = [p \in Personas |-> <<>>]
  BY DEF Init
<1> HIDE DEF Idle
<1>2. \A t \in Threads, p \in Personas : ~At(t, p) /\ ~Mute(t, p)
  BY <1>1, IdleShaped DEF At, Mute, Halfway
<1>3. ASSUME NEW p \in Personas
      PROVE  PairsAt(p)
  <2>1. Mine(p) /\ Distinct(p) /\ Silent(p)
    BY <1>2 DEF Mine, Distinct, Silent
  <2>2. ASSUME NEW e \in Events
        PROVE  Even(p, e)
    <3>1. Cardinality(Doing(p, e)) = 0
      <4>1. Doing(p, e) = {}
        BY <1>2 DEF Doing
      <4>2. QED
        BY <4>1, NobodyDoing
    <3>2. \A l : Count(spoken[p], l) = 0
      BY <1>1, CountEmpty
    <3>3. QED
      BY <3>1, <3>2 DEF Even
  <2>3. QED
    BY <2>1, <2>2 DEF PairsAt, Paired
<1>4. QED
  BY <1>3 DEF PairInv

(* No step leaves a user turn alone, but of an exchange that it cuts short. *)
LEMMA PairStep ==
  ASSUME ShapeInv, DiskInv, PairInv, [Next]_vars
  PROVE  PairInv'
<1>0. Functional
  BY DEF DiskInv
<1>1. ASSUME NEW p \in Personas, disk' = disk, spoken' = spoken, cut' = cut, misread' = misread,
             forgets' = forgets, \A u \in Threads : SameAt(u, p)
      PROVE  PairsAt(p)'
  <2>1. Same(p) /\ PairsAt(p) /\ (Midway(p) => Midway(p)')
    BY <1>0, <1>1, SameAll DEF PairInv, Midway, SameForAll
  <2>2. QED
    BY <1>1, <2>1, KeptPairs DEF PairsAt
<1>2. ASSUME NEW p \in Personas
      PROVE  PairsAt(p)'
  <2>1. CASE \E t \in Threads : Handle(t)
    BY <2>1, HandlePairs
  <2>2. CASE \E t \in Threads : Deliver(t)
    <3>1. PICK t \in Threads, e \in Events : Wakes(t, e)
      BY <2>2, DeliverWakes
    <3>2. /\ thread[t].at = "idle" /\ disk' = disk /\ spoken' = spoken /\ cut' = cut
          /\ misread' = misread /\ forgets' = forgets
          /\ \A u \in Threads : thread'[u] = thread[u] \/ (u = t /\ thread'[u].at = "enter")
      BY <3>1 DEF Wakes, Becomes
    <3>3. \A u \in Threads : SameAt(u, p)
      BY <3>2 DEF SameAt, At, Mute, Halfway, P, Ev
    <3>4. QED
      BY <1>1, <3>2, <3>3
  <2>3. CASE Crash
    BY <2>3, CrashPairs
  <2>4. CASE \E q \in Personas : ForgetThread(q)
    BY <2>4, ForgetPairs
  <2>5. CASE UNCHANGED vars
    <3>1. /\ thread' = thread /\ disk' = disk /\ spoken' = spoken /\ cut' = cut
          /\ misread' = misread /\ forgets' = forgets
      BY <2>5 DEF vars, threadVars, memoryVars, boundVars
    <3>2. \A u \in Threads : SameAt(u, p)
      BY <3>1 DEF SameAt, At, Mute, Halfway, P, Ev
    <3>3. QED
      BY <1>1, <3>1, <3>2
  <2>6. QED
    BY <2>1, <2>2, <2>3, <2>4, <2>5 DEF Next
<1>3. QED
  BY <1>2 DEF PairInv

(* Outside an exchange, every user turn has its reply and every reply to a  *)
(* text its user turn, unless it was cut or the thread was misread.         *)
THEOREM PairsAlwaysUnlessCut == Spec => []PairsUnlessCut
<1>1. ShapeInv /\ DiskInv /\ PairInv => PairsUnlessCut
  <2> SUFFICES ASSUME ShapeInv, DiskInv, PairInv, NEW p \in Personas \ misread, NEW e \in Events,
                      <<p, e>> \notin cut, ~UnderWay(p, e),
                      [of |-> p, midway |-> TRUE] \notin Range(forgets)
               PROVE  /\ Of(Said(p), "user", e) <= Of(Said(p), "persona", e)
                      /\ ~Envelope[e].blank => Of(Said(p), "user", e) = Of(Said(p), "persona", e)
    BY DEF PairsUnlessCut
  <2>1. ~Midway(p)
    <3>1. DOMAIN forgets = 1..Len(forgets)
      BY LenProperties DEF ShapeInv
    <3>2. QED
      BY <3>1 DEF Midway, Range
  <2>2. Even(p, e)
    BY <2>1 DEF PairInv, PairsAt, Paired
  <2>3. Cardinality(Doing(p, e)) = 0
    <3>1. Doing(p, e) = {}
      BY DEF UnderWay, Doing, At
    <3>2. QED
      BY <3>1, NobodyDoing
  <2> DEFINE s == spoken[p]
             said == Said(p)
  <2>4. s \in Seq(Turns) /\ said = [i \in DOMAIN s |-> s[i].line]
    BY DEF DiskInv, Holds, Said
  <2> HIDE DEF s, said
  <2>5. /\ Of(said, "user", e) = Count(s, UserLine(e))
        /\ Of(said, "persona", e) = Count(s, PersonaLine(e))
    BY <2>4, OfIsCount DEF UserLine, PersonaLine
  <2>6. Count(s, PersonaLine(e)) \in Nat
    BY <2>4, CountNat
  <2>7. QED
    BY <2>2, <2>3, <2>5, <2>6 DEF Even, s, said
<1>2. Init => PairInv
  BY PairInit
<1>3. ShapeInv /\ DiskInv /\ PairInv /\ [Next]_vars => PairInv'
  BY PairStep
<1>4. QED
  BY <1>1, <1>2, <1>3, DiskHolds, PTL DEF Spec

-----------------------------------------------------------------------------
(* Whose turn it is.                                                        *)

(* The places of a finite set of numbers, counted from the least.           *)
LEMMA PlaceOf ==
  ASSUME NEW S, IsFiniteSet(S), S \subseteq Nat, NEW k \in 1..Cardinality(S)
  PROVE  \E i \in S : Cardinality({j \in S : j <= i}) = k
<1> DEFINE n == Cardinality(S)
           upTo(i) == {j \in S : j <= i}
           f == [i \in S |-> Cardinality(upTo(i))]
<1>1. n \in Nat
  BY FS_CardinalityType
<1>2. ASSUME NEW i \in S
      PROVE  IsFiniteSet(upTo(i)) /\ Cardinality(upTo(i)) \in 1..n
  <2>1. upTo(i) \in SUBSET S /\ i \in upTo(i)
    BY <1>2
  <2>2. IsFiniteSet(upTo(i)) /\ Cardinality(upTo(i)) <= n
    <3> HIDE DEF upTo
    <3> QED BY <2>1, FS_Subset
  <2>3. Cardinality(upTo(i)) \in Nat /\ Cardinality(upTo(i)) # 0
    <3> HIDE DEF upTo
    <3> QED BY <2>1, <2>2, FS_CardinalityType, FS_EmptySet
  <2>4. QED
    <3> HIDE DEF upTo, n
    <3> QED BY <1>1, <2>2, <2>3
<1>3. ASSUME NEW i \in S, NEW j \in S, i < j
      PROVE  Cardinality(upTo(i)) # Cardinality(upTo(j))
  <2>1. i \in Nat /\ j \in Nat
    OBVIOUS
  <2>2. ASSUME NEW x \in S, x <= i PROVE x <= j
    <3>1. x \in Nat
      OBVIOUS
    <3>2. QED
      BY <1>3, <2>1, <2>2, <3>1
  <2>3. upTo(i) \in SUBSET upTo(j)
    BY <2>2
  <2>4. j \in upTo(j) /\ j \notin upTo(i)
    BY <1>3, <2>1
  <2>5. QED
    <3> HIDE DEF upTo
    <3> QED BY <1>2, <2>3, <2>4, FS_Subset
<1>4. f \in [S -> 1..n]
  BY <1>2
<1>5. \A i, j \in S : f[i] = f[j] => i = j
  <2> SUFFICES ASSUME NEW i \in S, NEW j \in S, i # j PROVE f[i] # f[j]
    OBVIOUS
  <2>1. i < j \/ j < i
    OBVIOUS
  <2>2. f[i] = Cardinality(upTo(i)) /\ f[j] = Cardinality(upTo(j))
    OBVIOUS
  <2>3. QED
    <3> HIDE DEF f, upTo
    <3> QED BY <1>3, <2>1, <2>2
<1>6. f \in Surjection(S, 1..n)
  <2>1. f \in Injection(S, 1..n)
    <3> HIDE DEF f, n
    <3> QED BY <1>4, <1>5 DEF Injection, IsInjective
  <2>2. IsFiniteSet(1..n) /\ Cardinality(1..n) = n
    <3> HIDE DEF n
    <3>1. IsFiniteSet(1..n) /\ Cardinality(1..n) = IF 1 > n THEN 0 ELSE n - 1 + 1
      BY <1>1, FS_Interval
    <3>2. QED
      BY <1>1, <3>1
  <2>3. QED
    <3> HIDE DEF f
    <3> QED BY <2>1, <2>2, FS_Injection
<1>7. PICK i \in S : f[i] = k
  <2> HIDE DEF f
  <2> QED BY <1>6 DEF Surjection
<1>8. QED
  BY <1>7

(* A persona whose turn it is, and whether an operator gave it.             *)
Entries == [persona : Personas, owner : BOOLEAN]

(* The registry, and the cap on what is posted for an event.                *)
LEMMA RoomType ==
  Registry \in Seq(Personas) /\ Len(Registry) \in Nat /\ Cap \in Nat /\ Len(Registry) <= Cap
  /\ MaxPersonaTurns \in Nat /\ MaxPersonaTurns <= Cap
<1>1. Registry \in Seq(Personas) /\ MaxPersonaTurns \in Nat
  BY ChatAssumption
<1>2. Len(Registry) \in Nat
  BY <1>1, LenProperties
<1>3. QED
  BY <1>1, <1>2 DEF Cap

(* Each persona of the registry has one turn at most.                       *)
LEMMA InTurnType ==
  ASSUME NEW S, NEW owner \in BOOLEAN
  PROVE  /\ InTurn(S, owner) \in Seq(Entries)
         /\ Len(InTurn(S, owner)) \in Nat /\ Len(InTurn(S, owner)) <= Len(Registry)
         /\ \A i \in 1..Len(InTurn(S, owner)) : InTurn(S, owner)[i].owner = owner
<1> DEFINE places == {i \in DOMAIN Registry : Registry[i] \in S}
           n == Cardinality(places)
           place(k) == CHOOSE i \in places : Cardinality({j \in places : j <= i}) = k
           f == [k \in 1..n |-> [persona |-> Registry[place(k)], owner |-> owner]]
<1>1. DOMAIN Registry = 1..Len(Registry) /\ Len(Registry) \in Nat
  BY RoomType, LenProperties
<1>2. IsFiniteSet(places) /\ n \in Nat /\ n <= Len(Registry)
  <2> DEFINE L == Len(Registry)
  <2>1. IsFiniteSet(1..L) /\ Cardinality(1..L) = IF 1 > L THEN 0 ELSE L - 1 + 1
    BY <1>1, FS_Interval
  <2>2. Cardinality(1..L) = L
    <3> HIDE DEF L
    <3> QED BY <1>1, <2>1 DEF L
  <2>3. places \in SUBSET (1..L)
    BY <1>1
  <2>4. QED
    <3> HIDE DEF places, L
    <3> QED BY <2>1, <2>2, <2>3, FS_Subset, FS_CardinalityType DEF L
<1>3. ASSUME NEW k \in 1..n PROVE place(k) \in places
  <2>1. places \subseteq Nat
    BY <1>1
  <2>2. \E i \in places : Cardinality({j \in places : j <= i}) = k
    <3> HIDE DEF places
    <3> QED BY <1>2, <2>1, PlaceOf
  <2>3. QED
    <3> HIDE DEF places
    <3> QED BY <2>2
<1>4. \A k \in 1..n : f[k] \in Entries /\ f[k].owner = owner
  <2> TAKE k \in 1..n
  <2>1. place(k) \in DOMAIN Registry
    BY <1>3
  <2>2. Registry[place(k)] \in Personas
    <3> HIDE DEF place
    <3> QED BY <2>1 DEF Personas
  <2>3. f[k] = [persona |-> Registry[place(k)], owner |-> owner]
    <3> HIDE DEF place
    <3> QED OBVIOUS
  <2>4. QED
    <3> HIDE DEF place, f
    <3> QED BY <2>2, <2>3 DEF Entries
<1>5. f \in [1..n -> Entries]
  <2>1. f = [k \in 1..n |-> f[k]]
    <3> HIDE DEF place
    <3> QED OBVIOUS
  <2>2. QED
    <3> HIDE DEF f, n
    <3> QED BY <1>4, <2>1
<1>6. f \in Seq(Entries) /\ Len(f) = n
  <2> HIDE DEF f, n
  <2> QED BY <1>2, <1>5, FunIsSeq
<1>7. InTurn(S, owner) = f
  BY DEF InTurn
<1>8. QED
  <2> HIDE DEF f, n
  <2> QED BY <1>2, <1>4, <1>6, <1>7

(* Whoever has a turn left from an operator's message can take it within    *)
(* the cap, and so can whoever is at a turn.                                *)
Orderly(r) ==
  /\ r.at \in Stages /\ r.turns \in Nat /\ r.turns <= Cap
  /\ r.todo \in Seq(Entries)
  /\ \A i \in 1..Len(r.todo) : r.todo[i].owner => r.turns + i <= Len(Registry)
  /\ r.at \in {"idle", "enter"} => r.todo = <<>> /\ r.turns = 0
  /\ r.at \notin {"idle", "enter", "route"} =>
       r.todo # <<>> /\ (Head(r.todo).owner \/ r.turns < MaxPersonaTurns)
TalkInv == \A t \in Threads : Orderly(thread[t])

(* The steps of a thread, by what they do to its place and its turns.       *)
From(t, here, there) ==
  /\ thread[t].at = here /\ thread'[t].at = there
  /\ thread'[t].todo = thread[t].todo /\ thread'[t].turns = thread[t].turns
Passes(t) ==
  /\ thread[t].at \in {"route", "model"} /\ thread'[t].at = "route" /\ thread[t].todo # <<>>
  /\ thread'[t].todo = Tail(thread[t].todo) /\ thread'[t].turns = thread[t].turns
Posts(t) ==
  /\ thread[t].at = "post" /\ thread'[t].at = "route"
  /\ \E more \in Addressed(t) : thread'[t].todo = Tail(thread[t].todo) \o more
  /\ thread'[t].turns = thread[t].turns + 1
Opens(t) ==
  /\ thread[t].at = "enter" /\ thread'[t].at = "route"
  /\ thread'[t].todo = Engaged(Ev(t)) /\ thread'[t].turns = thread[t].turns
TakesTurn(t) ==
  /\ From(t, "route", "read") /\ thread[t].todo # <<>>
  /\ Head(thread[t].todo).owner \/ thread[t].turns < MaxPersonaTurns

(* These are all there are.                                                 *)
LEMMA HandleTalks ==
  ASSUME ShapeInv, TalkInv, NEW t \in Threads, Handle(t)
  PROVE  /\ \A u \in Threads : u # t => thread'[u] = thread[u]
         /\ \/ thread'[t] = Idle \/ Opens(t) \/ Passes(t) \/ TakesTurn(t) \/ Posts(t)
            \/ From(t, "read", "model") \/ From(t, "model", "user") \/ From(t, "user", "persona")
            \/ From(t, "persona", "post") \/ From(t, "persona", "undo")
<1>1. \A u \in Threads : u # t => thread'[u] = thread[u]
  BY HandleAdvances DEF Becomes
<1>2. CASE \/ Mark(t) \/ ModelRaises(t) \/ RecordUserRaises(t) \/ UndoUser(t) \/ PostRaises(t)
  <2>1. Release(t)
    BY <1>2 DEF Mark, ModelRaises, RecordUserRaises, UndoUser, PostRaises
  <2>2. QED
    BY <1>1, <2>1, GoesHome DEF Release, Becomes
<1>3. CASE Enter(t)
  <2>1. CASE thread' = [thread EXCEPT ![t] = Idle]
    BY <1>1, <2>1, GoesHome DEF Becomes
  <2>2. CASE Route(t)
    <3>1. PICK r : /\ Becomes(t, r) /\ r.at = "route"
                   /\ r.todo = Engaged(Ev(t)) /\ r.turns = thread[t].turns
      BY <2>2, Routed
    <3>2. Opens(t)
      BY <1>3, <3>1 DEF Opens, Enter, Becomes
    <3>3. QED
      BY <1>1, <3>2
  <2>3. QED
    BY <1>3, <2>1, <2>2 DEF Enter
<1>4. CASE PassOver(t)
  <2>1. PICK r : /\ Becomes(t, r) /\ r.at = "route"
                 /\ r.todo = Tail(thread[t].todo) /\ r.turns = thread[t].turns
    BY <1>4, PassedOver
  <2>2. Passes(t)
    BY <1>4, <2>1 DEF Passes, PassOver, Becomes
  <2>3. QED
    BY <1>1, <2>2
<1>5. CASE ReadSummary(t)
  <2>1. PICK r : /\ Becomes(t, r) /\ r.at = "read"
                 /\ r.todo = thread[t].todo /\ r.turns = thread[t].turns
    BY <1>5, SummaryRead
  <2>2. thread[t].at = "route" /\ thread[t].todo # <<>> /\ ~Capped(t) /\ thread'[t] = r
    BY <1>5, <2>1 DEF ReadSummary, Becomes
  <2>3. Head(thread[t].todo).owner \/ thread[t].turns < MaxPersonaTurns
    BY <2>2, RoomType DEF Capped, TalkInv, Orderly
  <2>4. TakesTurn(t)
    BY <2>1, <2>2, <2>3 DEF TakesTurn, From
  <2>5. QED
    BY <1>1, <2>4
<1>6. CASE ReadTurns(t)
  <2>1. PICK r : /\ Becomes(t, r) /\ r.at = "model"
                 /\ r.todo = thread[t].todo /\ r.turns = thread[t].turns
    BY <1>6, TurnsRead
  <2>2. From(t, "read", "model")
    BY <1>6, <2>1 DEF ReadTurns, Becomes, From
  <2>3. QED
    BY <1>1, <2>2
<1>7. CASE StayQuiet(t)
  <2> DEFINE nobody == <<>>
  <2>1. thread[t].at = "model" /\ thread[t].todo # <<>> /\ NextPersona(t, nobody, 0)
    BY <1>7 DEF StayQuiet, TalkInv, Orderly
  <2> HIDE DEF nobody
  <2>2. PICK r : /\ Becomes(t, r) /\ r.at = "route"
                 /\ r.todo = Tail(thread[t].todo) \o nobody /\ r.turns = thread[t].turns + 0
    BY <2>1, NextCalled
  <2>3. thread[t].todo \in Seq(Entries) /\ thread[t].turns \in Nat
    BY DEF TalkInv, Orderly
  <2>4. r.todo = Tail(thread[t].todo) /\ r.turns = thread[t].turns
    BY <2>1, <2>2, <2>3, HeadTailProperties, ConcatEmptySeq DEF nobody
  <2>5. Passes(t)
    BY <2>1, <2>2, <2>4 DEF Passes, Becomes
  <2>6. QED
    BY <1>1, <2>5
<1>8. CASE Post(t)
  <2>1. PICK more \in Addressed(t) : NextPersona(t, more, 1)
    BY <1>8 DEF Post
  <2>2. PICK r : /\ Becomes(t, r) /\ r.at = "route"
                 /\ r.todo = Tail(thread[t].todo) \o more /\ r.turns = thread[t].turns + 1
    BY <2>1, NextCalled
  <2>3. Posts(t)
    BY <1>8, <2>2 DEF Posts, Post, Becomes
  <2>4. QED
    BY <1>1, <2>3
<1>9. CASE Reply(t) \/ RecordPersona(t) \/ RecordPersonaRaises(t)
  <2>1. \/ thread[t].at = "model" /\ Goes(t, "user")
        \/ thread[t].at = "persona" /\ Goes(t, "post")
        \/ thread[t].at = "persona" /\ Goes(t, "undo")
    BY <1>9 DEF Reply, RecordPersona, RecordPersonaRaises
  <2>2. From(t, "model", "user") \/ From(t, "persona", "post") \/ From(t, "persona", "undo")
    BY <2>1, GoesOn DEF From
  <2>3. QED
    BY <1>1, <2>2
<1>10. CASE RecordUser(t) \/ RecordNothing(t)
  <2>1. PICK i : thread' = [thread EXCEPT ![t].at = "persona", ![t].mine = i, ![t].prompt = NoPrompt]
    BY <1>10 DEF RecordUser, RecordNothing
  <2>2. \E r : /\ Becomes(t, r) /\ r.at = "persona" /\ r.ev = thread[t].ev
               /\ r.todo = thread[t].todo /\ r.turns = thread[t].turns /\ r.mine = i
    BY <2>1, UserRecorded, Zenon
  <2>3. From(t, "user", "persona")
    BY <1>10, <2>2 DEF RecordUser, RecordNothing, Becomes, From
  <2>4. QED
    BY <1>1, <2>3
<1>11. QED
  BY <1>2, <1>3, <1>4, <1>5, <1>6, <1>7, <1>8, <1>9, <1>10 DEF Handle

(* A thread at rest is orderly.                                             *)
LEMMA IdleOrderly == Orderly(Idle)
<1>1. Idle.at = "idle" /\ Idle.turns = 0 /\ Idle.todo = <<>>
  BY DEF Idle, AtRest
<1>2. <<>> \in Seq(Entries) /\ Len(<<>>) = 0
  BY EmptySeq
<1> HIDE DEF Idle
<1>3. QED
  BY <1>1, <1>2, RoomType DEF Orderly, Stages

(* A step within a turn.                                                    *)
LEMMA FromLeft ==
  ASSUME TalkInv, NEW t \in Threads, NEW here, NEW there, From(t, here, there),
         there \in Stages \ {"idle", "enter", "route"}, here \notin {"idle", "enter"},
         thread[t].todo # <<>>, Head(thread[t].todo).owner \/ thread[t].turns < MaxPersonaTurns
  PROVE  /\ Orderly(thread'[t])
         /\ TurnLeft[there] < TurnLeft[here] =>
              Shortens(ThreadLeft(thread'[t]), ThreadLeft(thread[t]))
<1>1. Orderly(thread'[t])
  BY DEF TalkInv, Orderly, From
<1>2. ASSUME TurnLeft[there] < TurnLeft[here]
      PROVE  Shortens(ThreadLeft(thread'[t]), ThreadLeft(thread[t]))
  <2> DEFINE w == Len(thread[t].todo) + (Cap - thread[t].turns) * Len(Registry)
  <2>1. ThreadLeft(thread[t]) = <<0, w, TurnLeft[here]>>
    BY DEF From, ThreadLeft
  <2>2. ThreadLeft(thread'[t]) = <<0, w, TurnLeft[there]>>
    BY DEF From, ThreadLeft
  <2> HIDE DEF w
  <2>3. QED
    BY <1>2, <2>1, <2>2 DEF Shortens
<1>3. QED
  BY <1>1, <1>2

(* A turn passed over, or kept quiet in.                                    *)
LEMMA PassesLeft ==
  ASSUME TalkInv, NEW t \in Threads, Passes(t)
  PROVE  Orderly(thread'[t]) /\ Shortens(ThreadLeft(thread'[t]), ThreadLeft(thread[t]))
<1> DEFINE q == thread[t].todo
           n == thread[t].turns
           rest == (Cap - n) * Len(Registry)
<1>1. q \in Seq(Entries) /\ q # <<>> /\ n \in Nat /\ n <= Cap
      /\ \A i \in 1..Len(q) : q[i].owner => n + i <= Len(Registry)
  BY DEF TalkInv, Orderly, Passes
<1>2. thread'[t].todo = Tail(q) /\ thread'[t].turns = n /\ thread'[t].at = "route"
  BY DEF Passes
<1>3. /\ Tail(q) \in Seq(Entries) /\ Len(Tail(q)) = Len(q) - 1 /\ Len(q) \in Nat
      /\ \A i \in 1..Len(Tail(q)) : Tail(q)[i] = q[i + 1]
  <2> HIDE DEF q
  <2> QED BY <1>1, HeadTailProperties, LenProperties
<1>4. Orderly(thread'[t])
  <2> HIDE DEF q, n
  <2>1. \A i \in 1..Len(Tail(q)) : Tail(q)[i].owner => n + i <= Len(Registry)
    BY <1>1, <1>3, RoomType
  <2>2. QED
    BY <1>1, <1>2, <1>3, <2>1 DEF Orderly, Stages
<1>5. thread[t].at \in {"route", "model"}
  BY DEF Passes
<1>6. ThreadLeft(thread[t]) = <<0, Len(q) + rest, TurnLeft[thread[t].at]>>
  BY <1>5 DEF ThreadLeft
<1>7. ThreadLeft(thread'[t]) = <<0, Len(Tail(q)) + rest, TurnLeft["route"]>>
  BY <1>2 DEF ThreadLeft
<1>8. rest \in Int
  <2> HIDE DEF n
  <2> QED BY <1>1, RoomType
<1> HIDE DEF q, rest
<1>9. QED
  BY <1>3, <1>4, <1>6, <1>7, <1>8 DEF Shortens

(* Whom a reply addresses has one turn more, no operator's.                 *)
LEMMA AddressedType ==
  ASSUME NEW t, NEW more \in Addressed(t)
  PROVE  /\ more \in Seq(Entries) /\ Len(more) \in Nat /\ Len(more) <= Len(Registry)
         /\ \A i \in 1..Len(more) : ~more[i].owner
<1>1. PICK S : more = InTurn(S, FALSE)
  BY DEF Addressed
<1>2. QED
  BY <1>1, InTurnType

(* One turn less.                                                           *)
LEMMA FewerTurns ==
  ASSUME NEW a \in Int, NEW b \in Int
  PROVE  (a - 1) * b = a * b - b /\ a * b \in Int
OBVIOUS

(* A reply adds a turn, and others' turns only while there are turns left.  *)
LEMMA PostsLeft ==
  ASSUME TalkInv, NEW t \in Threads, Posts(t)
  PROVE  Orderly(thread'[t]) /\ Shortens(ThreadLeft(thread'[t]), ThreadLeft(thread[t]))
<1> DEFINE q == thread[t].todo
           n == thread[t].turns
           L == Len(Registry)
<1>1. PICK more \in Addressed(t) : thread'[t].todo = Tail(q) \o more
  BY DEF Posts
<1>2. /\ q \in Seq(Entries) /\ q # <<>> /\ n \in Nat /\ n <= Cap
      /\ \A i \in 1..Len(q) : q[i].owner => n + i <= L
      /\ Head(q).owner \/ n < MaxPersonaTurns
  BY DEF TalkInv, Orderly, Posts
<1>3. thread'[t].turns = n + 1 /\ thread'[t].at = "route" /\ thread[t].at = "post"
  BY DEF Posts
<1>4. /\ more \in Seq(Entries) /\ Len(more) \in Nat /\ Len(more) <= L
      /\ \A i \in 1..Len(more) : ~more[i].owner
  BY AddressedType
<1> HIDE DEF q, n
<1>5. /\ Tail(q) \in Seq(Entries) /\ Len(Tail(q)) = Len(q) - 1 /\ Len(q) \in Nat \ {0}
      /\ \A i \in 1..Len(Tail(q)) : Tail(q)[i] = q[i + 1]
  BY <1>2, HeadTailProperties, LenProperties, EmptySeq
<1> DEFINE new == Tail(q) \o more
<1>6. /\ new \in Seq(Entries) /\ Len(new) = Len(q) - 1 + Len(more)
      /\ \A i \in 1..Len(new) : new[i] = IF i <= Len(q) - 1 THEN q[i + 1] ELSE more[i - (Len(q) - 1)]
  <2>1. /\ new \in Seq(Entries) /\ Len(new) = Len(Tail(q)) + Len(more)
        /\ \A i \in 1..Len(Tail(q)) + Len(more) :
             new[i] = IF i <= Len(Tail(q)) THEN Tail(q)[i] ELSE more[i - Len(Tail(q))]
    BY <1>4, <1>5, ConcatProperties
  <2> HIDE DEF new
  <2>2. QED
    BY <1>4, <1>5, <2>1
<1> HIDE DEF new
<1>7. n + 1 <= Cap
  <2>1. CASE Head(q).owner
    <3>1. Head(q) = q[1] /\ 1 \in 1..Len(q)
      BY <1>2, <1>5
    <3>2. n + 1 <= L
      BY <1>2, <2>1, <3>1
    <3>3. QED
      BY <1>2, <3>2, RoomType
  <2>2. CASE n < MaxPersonaTurns
    BY <1>2, <2>2, RoomType
  <2>3. QED
    BY <1>2, <2>1, <2>2
<1>8. Orderly(thread'[t])
  <2>1. \A i \in 1..Len(new) : new[i].owner => n + 1 + i <= L
    <3> TAKE i \in 1..Len(new)
    <3>1. CASE i <= Len(q) - 1
      <4>0. new[i] = q[i + 1]
        BY <1>6, <3>1
      <4>1. new[i] = q[i + 1] /\ i + 1 \in 1..Len(q) /\ i \in Nat
        BY <1>5, <3>1, <4>0
      <4>2. q[i + 1].owner => n + (i + 1) <= L
        BY <1>2, <4>1
      <4>3. QED
        BY <1>2, <4>1, <4>2, RoomType
    <3>2. CASE ~(i <= Len(q) - 1)
      <4>1. new[i] = more[i - (Len(q) - 1)] /\ i - (Len(q) - 1) \in 1..Len(more)
        BY <1>4, <1>5, <1>6, <3>2
      <4>2. QED
        BY <1>4, <4>1
    <3>3. QED
      BY <3>1, <3>2
  <2>2. QED
    BY <1>1, <1>2, <1>3, <1>6, <1>7, <2>1 DEF Orderly, Stages, new
<1> DEFINE rest == (Cap - n) * L
<1>9. (Cap - n - 1) * L = rest - L /\ rest \in Int
  BY <1>2, RoomType, FewerTurns
<1>10. Cap - (n + 1) = Cap - n - 1
  BY <1>2, RoomType
<1>11. ThreadLeft(thread'[t]) = <<0, Len(new) + (Cap - n - 1) * L, TurnLeft["route"]>>
  BY <1>1, <1>3, <1>10 DEF ThreadLeft, new
<1>12. ThreadLeft(thread[t]) = <<0, Len(q) + rest, TurnLeft["post"]>>
  BY <1>3 DEF ThreadLeft, q, n
<1>13. Len(new) + (Cap - n - 1) * L < Len(q) + rest
  <2> HIDE DEF rest, L
  <2> QED BY <1>4, <1>5, <1>6, <1>9, RoomType DEF L
<1> HIDE DEF rest, L
<1>14. QED
  BY <1>8, <1>11, <1>12, <1>13 DEF Shortens

(* The personas an event engages can all answer it within the cap.          *)
LEMMA OpensLeft ==
  ASSUME ShapeInv, TalkInv, NEW t \in Threads, Opens(t)
  PROVE  Orderly(thread'[t]) /\ Shortens(ThreadLeft(thread'[t]), ThreadLeft(thread[t]))
<1>1. thread[t].at = "enter" /\ thread[t].turns = 0 /\ Ev(t) \in Events
  BY DEF Opens, TalkInv, Orderly, ShapeInv, AtWork
<1>2. thread'[t].at = "route" /\ thread'[t].turns = 0 /\ thread'[t].todo = Engaged(Ev(t))
  BY <1>1 DEF Opens
<1>3. Envelope[Ev(t)].operator \in BOOLEAN
  BY <1>1, ChatAssumption
<1>4. /\ Engaged(Ev(t)) \in Seq(Entries) /\ Len(Engaged(Ev(t))) \in Nat
      /\ Len(Engaged(Ev(t))) <= Len(Registry)
  BY <1>3, InTurnType DEF Engaged
<1>5. Orderly(thread'[t])
  <2>1. \A i \in 1..Len(Engaged(Ev(t))) : 0 + i <= Len(Registry)
    BY <1>4, RoomType
  <2>2. QED
    BY <1>2, <1>4, <2>1, RoomType DEF Orderly, Stages
<1>6. ThreadLeft(thread[t])[1] = 1 /\ ThreadLeft(thread'[t])[1] = 0
  BY <1>1, <1>2 DEF ThreadLeft
<1>7. QED
  BY <1>5, <1>6 DEF Shortens

(* Every step of a thread keeps its turns in order and leaves less to do.   *)
LEMMA TalkStep ==
  ASSUME ShapeInv, TalkInv, NEW t \in Threads, Handle(t)
  PROVE  /\ TalkInv'
         /\ thread'[t].at = "idle" \/ Shortens(ThreadLeft(thread'[t]), ThreadLeft(thread[t]))
<1>1. \A u \in Threads : u # t => thread'[u] = thread[u]
  BY HandleTalks
<1>2. CASE thread'[t] = Idle
  BY <1>1, <1>2, IdleOrderly, IdleShaped DEF TalkInv
<1>3. CASE Opens(t) \/ Passes(t) \/ Posts(t)
  BY <1>1, <1>3, OpensLeft, PassesLeft, PostsLeft DEF TalkInv
<1>4. CASE TakesTurn(t)
  <2>1. TurnLeft["read"] < TurnLeft["route"] /\ "read" \in Stages \ {"idle", "enter", "route"}
    BY DEF TurnLeft, Stages
  <2>2. QED
    BY <1>1, <1>4, <2>1, FromLeft DEF TakesTurn, TalkInv
<1>5. ASSUME NEW here, NEW there, From(t, here, there), TurnLeft[there] < TurnLeft[here],
             there \in Stages \ {"idle", "enter", "route"}, here \notin {"idle", "enter", "route"}
      PROVE  /\ TalkInv'
             /\ Shortens(ThreadLeft(thread'[t]), ThreadLeft(thread[t]))
  <2>1. thread[t].todo # <<>> /\ (Head(thread[t].todo).owner \/ thread[t].turns < MaxPersonaTurns)
    BY <1>5 DEF From, TalkInv, Orderly
  <2>2. QED
    BY <1>1, <1>5, <2>1, FromLeft DEF TalkInv
<1>6. CASE \/ From(t, "read", "model") \/ From(t, "model", "user") \/ From(t, "user", "persona")
           \/ From(t, "persona", "post") \/ From(t, "persona", "undo")
  <2>1. /\ TurnLeft["model"] < TurnLeft["read"] /\ TurnLeft["user"] < TurnLeft["model"]
        /\ TurnLeft["persona"] < TurnLeft["user"] /\ TurnLeft["post"] < TurnLeft["persona"]
        /\ TurnLeft["undo"] < TurnLeft["persona"]
    BY DEF TurnLeft
  <2>2. {"model", "user", "persona", "post", "undo"} \subseteq Stages
    BY DEF Stages
  <2>3. QED
    BY <1>5, <1>6, <2>1, <2>2
<1>7. QED
  BY <1>2, <1>3, <1>4, <1>6, HandleTalks

(* So does every step of the system keep them in order.                     *)
LEMMA TalkNext ==
  ASSUME ShapeInv, TalkInv, [Next]_vars
  PROVE  TalkInv'
<1>1. CASE \E t \in Threads : Handle(t)
  BY <1>1, TalkStep
<1>2. CASE \E t \in Threads : Deliver(t)
  <2>1. PICK t \in Threads, e \in Events :
          \/ thread' = thread
          \/ thread' = [thread EXCEPT ![t] = [Idle EXCEPT !.at = "enter", !.ev = e]]
    BY <1>2 DEF Deliver
  <2> DEFINE r == [Idle EXCEPT !.at = "enter", !.ev = e]
  <2>2. Shaped(r) /\ r.at = "enter" /\ r.todo = Idle.todo /\ r.turns = Idle.turns
    BY IdleShaped DEF Shaped
  <2>3. Idle.todo = <<>> /\ Idle.turns = 0
    BY DEF Idle, AtRest
  <2>4. Orderly(r)
    <3> HIDE DEF r, Idle
    <3>1. <<>> \in Seq(Entries) /\ Len(<<>>) = 0
      BY EmptySeq
    <3>2. QED
      BY <2>2, <2>3, <3>1, RoomType DEF Orderly, Stages
  <2>5. thread' = thread \/ thread' = [thread EXCEPT ![t] = r]
    BY <2>1
  <2> HIDE DEF r
  <2>6. thread' = thread \/ Becomes(t, r)
    BY <2>2, <2>5, Moves
  <2>7. QED
    BY <2>4, <2>6 DEF TalkInv, Becomes
<1>3. CASE Crash
  <2>1. \A t \in Threads : thread'[t] = Idle
    <3> HIDE DEF Idle
    <3> QED BY <1>3 DEF Crash
  <2>2. QED
    BY <2>1, IdleOrderly DEF TalkInv
<1>4. CASE \E p \in Personas : ForgetThread(p)
  BY <1>4 DEF ForgetThread, threadVars, TalkInv
<1>5. CASE UNCHANGED vars
  BY <1>5 DEF vars, threadVars, TalkInv
<1>6. QED
  BY <1>1, <1>2, <1>3, <1>4, <1>5 DEF Next

(* At first no thread has a turn.                                           *)
LEMMA TalkInit == ASSUME Init PROVE TalkInv
<1>1. \A t \in Threads : thread[t] = Idle
  <2> HIDE DEF Idle
  <2> QED BY DEF Init
<1>2. QED
  BY <1>1, IdleOrderly DEF TalkInv

(* What is left is counted in natural numbers.                              *)
LEMMA LeftNat ==
  ASSUME TalkInv, NEW t \in Threads
  PROVE  ThreadLeft(thread[t]) \in Nat \X Nat \X Nat
<1> DEFINE n == thread[t].turns
           q == thread[t].todo
           e == IF thread[t].at = "enter" THEN 1 ELSE 0
           left == Len(q) + (Cap - n) * Len(Registry)
<1>1. n \in Nat /\ n <= Cap /\ q \in Seq(Entries) /\ thread[t].at \in Stages
  BY DEF TalkInv, Orderly
<1>2. Cap - n \in Nat /\ Len(q) \in Nat
  <2> HIDE DEF n, q
  <2> QED BY <1>1, RoomType, LenProperties
<1>3. left \in Nat
  <2> HIDE DEF n, q
  <2>1. (Cap - n) * Len(Registry) \in Nat
    BY <1>2, RoomType
  <2>2. QED
    BY <1>2, <2>1
<1>4. TurnLeft[thread[t].at] \in Nat
  BY <1>1 DEF TurnLeft, Stages
<1>5. ThreadLeft(thread[t]) = <<e, left, TurnLeft[thread[t].at]>> /\ e \in Nat
  BY DEF ThreadLeft
<1> HIDE DEF left, e
<1>6. QED
  BY <1>3, <1>4, <1>5

(* The turns are in order throughout.                                       *)
LEMMA TalkHolds == Spec => [](ShapeInv /\ TalkInv)
<1>1. Init => ShapeInv /\ TalkInv
  BY ShapeInit, TalkInit
<1>2. ShapeInv /\ TalkInv /\ [Next]_vars => ShapeInv' /\ TalkInv'
  BY ShapeStep, TalkNext
<1>3. QED
  BY <1>1, <1>2, PTL DEF Spec

(* Every event's handling takes finitely many steps, for any number of       *)
(* threads, personas and events, and whatever fails.                        *)
THEOREM ThreadsAlwaysShorten == Spec => ThreadsShorten
<1>1. ShapeInv /\ TalkInv => WorkShortens
  BY LeftNat, TalkStep DEF WorkShortens
<1>2. QED
  BY <1>1, TalkHolds, PTL DEF ThreadsShorten
=============================================================================
