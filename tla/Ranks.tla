-------------------------------- MODULE Ranks --------------------------------
(* Counting through a set of numbers in ascending order.                   *)
EXTENDS Integers, FiniteSets

(* The place of n in the set S.                                            *)
Rank(n, S) == Cardinality({m \in S : m <= n})

(* The member of S that is in the k-th place.                              *)
Nth(k, S) == CHOOSE n \in S : Rank(n, S) = k
=============================================================================
