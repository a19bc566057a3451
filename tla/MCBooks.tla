------------------------------ MODULE MCBooks ------------------------------
(* Instances of Books.                                                     *)
EXTENDS Books, TLC
CONSTANTS p1, p2, v1, v2, h1, h2, k
MCStake == [v \in Vote |-> IF v = v1 THEN 2 ELSE 3]
Symmetry == Permutations(Platform) \cup Permutations({h1, h2})
=============================================================================
