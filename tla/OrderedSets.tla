----------------------------- MODULE OrderedSets ----------------------------
(* Finite sets of integers read in increasing order: what a loop over a    *)
(* list makes of the places it keeps.  A member's place is the number of   *)
(* members up to it, which the proofs can count; SelectSeq has no          *)
(* definition the prover could unfold.                                     *)
EXTENDS Integers, FiniteSets

Rank(S, k) == Cardinality({j \in S : j <= k})

\* The members of S, the least one first.
Ascending(S) == [n \in 1 .. Cardinality(S) |-> CHOOSE k \in S : Rank(S, k) = n]
=============================================================================
