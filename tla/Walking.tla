------------------------------ MODULE Walking ------------------------------
(***************************************************************************)
(* Loops of the code as folds over long sequences and integer ranges.      *)
(* (Those of SequencesExt enumerate subsets of the domain.)                *)
(***************************************************************************)
EXTENDS Integers, Sequences, FiniteSets

\* The only y = op(x, k) with x = w: TLC evaluates w before it evaluates op.
Eagerly(op(_, _), w, k) == CHOOSE y \in {op(x, k) : x \in {w}} : TRUE

\* v itself: TLC evaluates all of it, here and once.
Settled(v) == CHOOSE x \in {v} : x = x

Walk(op(_, _), w, s) ==
  LET at[k \in 0..Len(s)] == IF k = 0 THEN w ELSE Eagerly(op, at[k - 1], s[k]) IN at[Len(s)]
WalkDomain(op(_, _), w, s) ==
  LET at[k \in 0..Len(s)] == IF k = 0 THEN w ELSE Eagerly(op, at[k - 1], k) IN at[Len(s)]
WalkBack(op(_, _), s, w) ==
  LET at[k \in 1..(Len(s) + 1)] == IF k > Len(s) THEN w ELSE op(s[k], at[k + 1]) IN at[1]
Concat(ss) == LET at[k \in 0..Len(ss)] == IF k = 0 THEN << >> ELSE at[k - 1] \o ss[k] IN at[Len(ss)]

\* The elements of a set of numbers in ascending order.
Ascending(S) == [k \in 1..Cardinality(S) |-> CHOOSE x \in S : Cardinality({y \in S : y < x}) = k - 1]

=============================================================================
