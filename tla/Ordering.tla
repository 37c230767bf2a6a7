------------------------------ MODULE Ordering ------------------------------
(***************************************************************************)
(* Array.prototype.sort and filter, of sets: the elements of a finite set  *)
(* in a strict order, which is given as the set of its pairs.              *)
(***************************************************************************)
EXTENDS Integers, FiniteSets, Sequences

Preceding(S, R, x) == Cardinality({y \in S : <<y, x>> \in R})

\* The element at k is the one that k - 1 others come before.
InOrder(S, R) == [k \in 1..Cardinality(S) |-> CHOOSE x \in S : Preceding(S, R, x) = k - 1]

Upwards(S) == {e \in S \X S : e[1] < e[2]}

\* What s holds at the positions of S, in their order.
Picked(s, S) ==
    LET at == InOrder(S, Upwards(S))
    IN  [k \in 1..Cardinality(S) |-> s[at[k]]]
=============================================================================
