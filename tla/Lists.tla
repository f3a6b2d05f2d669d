-------------------------------- MODULE Lists --------------------------------
(***************************************************************************)
(* The loops over a list of channels or of states that the programs share: *)
(* a running total, a filter, the first element of a kind, the highest     *)
(* figure.  Each is made of a first-order operator and one that takes the  *)
(* loop's condition, so that the lemmas can be about the former.           *)
(***************************************************************************)
EXTENDS Integers, Sequences, FiniteSets, SequencesExt

SumOf(t) == FoldLeft(LAMBDA acc, x : acc + x, 0, t)

SumOver(F(_), s) == SumOf([i \in 1..Len(s) |-> F(s[i])])

\* The elements of s that are in A, in their order.
Keep(s, A) == FoldLeft(LAMBDA kept, x : IF x \in A THEN Append(kept, x) ELSE kept, <<>>, s)

Select(s, P(_)) == Keep(s, {x \in ToSet(s) : P(x)})

\* The first element of s that has P, as a sequence of length 0 or 1.
FirstWith(s, P(_)) ==
    LET at == {i \in 1..Len(s) : P(s[i])} IN IF at = {} THEN <<>> ELSE <<s[Min(at)]>>

\* The first of the figures with the highest percentage, if any is above zero.
NoName == ""
None == [name |-> NoName, pct |-> [num |-> 0, den |-> 1]]
Less(p, q) == p.num * q.den < q.num * p.den
Highest(figures) ==
    FoldLeft(LAMBDA best, f : IF Less(best.pct, f.pct) THEN f ELSE best, None, figures)
=============================================================================
