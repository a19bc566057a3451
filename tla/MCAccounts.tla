----------------------------- MODULE MCAccounts -----------------------------
(* Instances of Accounts.                                                    *)
EXTENDS Accounts, TLC
CONSTANTS h1, h2, acme, other
Symmetry == Permutations(Handler) \cup Permutations(Slug)
=============================================================================
