-------------------------- MODULE MCOverageBilling --------------------------
(***************************************************************************)
(* Small instances of OverageBilling.  Amounts are the source's: r1 alone  *)
(* is inside the Starter credit, r1 and r2 together are over it.           *)
(***************************************************************************)
EXTENDS OverageBilling, TLC

CONSTANTS s1, s2, i1, i2, r1, r2, r3, w1, w2, h1

MCCost == [r \in Rows |-> IF r = r3 THEN 19000000 ELSE 60000]
MCHarnessOf == [r \in Rows |-> h1]

\* i2 is of the second subscription, where there are two.
MCSubOf == [i \in Invoices |-> IF i = i2 /\ s2 \in Subscriptions THEN s2 ELSE s1]

\* Handlers and invoices are interchangeable; sound for the safety runs only.
MCSymmetry == Permutations(Workers) \cup Permutations(Invoices)
=============================================================================
