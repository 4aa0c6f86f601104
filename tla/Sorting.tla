------------------------------- MODULE Sorting -------------------------------
(***************************************************************************)
(* Finite sets in an order, where the code sorts or selects from a list:   *)
(* the order is the set of pairs of which the first comes before the       *)
(* second.                                                                 *)
(***************************************************************************)
EXTENDS Integers, FiniteSets

(* The n-th of S is the one that n - 1 others come before.                 *)
Ordered(S, before) ==
    [n \in 1..Cardinality(S) |->
        CHOOSE x \in S : Cardinality({y \in S : <<y, x>> \in before}) = n - 1]

Ascending(S) == Ordered(S, {p \in S \X S : p[1] < p[2]})

(* By a number, and where it is the same, by the members themselves.       *)
ByNumber(S, number) ==
    {p \in S \X S : \/ number[p[1]] < number[p[2]]
                    \/ number[p[1]] = number[p[2]] /\ p[1] < p[2]}
=============================================================================
