------------------------ MODULE MCSubscriptionEvents ------------------------
(* Instances of SubscriptionEvents.                                        *)
EXTENDS SubscriptionEvents, TLC
CONSTANTS s1, s2, h1, h2
Symmetry == Permutations(Sub) \cup Permutations(Handler)
=============================================================================
