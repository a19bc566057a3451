--------------------------- MODULE EmissionLedger ---------------------------
(* What the nightly emission promises of emission_records: a contributor is   *)
(* awarded at most once for a day, at most the day's emission, and an award   *)
(* is never changed or taken back.                                            *)
EXTENDS Naturals

CONSTANTS Day, Contributor, Pool, None

VARIABLE awarded

Init == awarded = [d \in Day |-> [c \in Contributor |-> None]]

Award(d, c, tokens) ==
  /\ awarded[d][c] = None
  /\ awarded' = [awarded EXCEPT ![d][c] = tokens]

Next == \E d \in Day, c \in Contributor, tokens \in 0..Pool : Award(d, c, tokens)

Spec == Init /\ [][Next]_awarded
=============================================================================
