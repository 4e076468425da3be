------------------------------ MODULE Figures -------------------------------
(***************************************************************************)
(* Arithmetic of the calculations of the browser.  A figure is an integer, *)
(* or None where the code has null, undefined or NaN.  A share is kept in  *)
(* whole units of a scale that its user names: none of the properties      *)
(* depends on the digits after it.                                         *)
(***************************************************************************)
EXTENDS Integers, Sequences, FiniteSets, SequencesExt, TLC

CONSTANT None

\* `a ?? b'.
Or(a, b) == IF a # None THEN a ELSE b

Magnitude(v) == IF v < 0 THEN -v ELSE v
Larger(a, b) == IF b > a THEN b ELSE a
Smaller(a, b) == IF b < a THEN b ELSE a
Clamp(v, lo, hi) == IF v < lo THEN lo ELSE IF v > hi THEN hi ELSE v

\* A note, or what is drawn, says of the figures what is true of them: the tags of its sentences.
Said(claims) == {c[1] : c \in {d \in claims : d[2]}}

\* A sequence with its values worked out once.
Kept(s) == SubSeq(s, 1, Len(s))
MapSeq(s, Op(_)) == Kept([i \in DOMAIN s |-> Op(s[i])])
Figured(s) == SelectSeq(s, LAMBDA v : v # None)
SumOf(s) == LET upTo[i \in 0..Len(s)] == IF i = 0 THEN 0 ELSE upTo[i - 1] + s[i] IN upTo[Len(s)]
SumBy(s, Op(_)) == SumOf(MapSeq(s, Op))
Greatest(s) == Max(Range(s))
Least(s) == Min(Range(s))
FirstOf(s, n) == SubSeq(s, 1, Smaller(n, Len(s)))
\* `a / b', rounded to the nearest unit, halves up.
Rounded(a, b) == (2 * a + b) \div (2 * b)
\* The part of `whole' that `part' is, of `scale'.
ShareOf(part, whole, scale) == Rounded(scale * part, whole)

\* Array.prototype.sort is stable, and so is this: a known figure goes before
\* an unknown one whichever the direction.
Precedes(a, b, ascending) ==
    /\ a # None
    /\ b = None \/ (IF ascending THEN a < b ELSE a > b)
SortedBy(s, Key(_), ascending) ==
    LET before(i, j) ==
            \/ Precedes(Key(s[i]), Key(s[j]), ascending)
            \/ ~Precedes(Key(s[j]), Key(s[i]), ascending) /\ i < j
        rank(i) == Cardinality({j \in DOMAIN s : j # i /\ before(j, i)}) + 1
        place == [k \in DOMAIN s |-> CHOOSE i \in DOMAIN s : rank(i) = k]
    IN  [k \in DOMAIN s |-> s[place[k]]]
=============================================================================
