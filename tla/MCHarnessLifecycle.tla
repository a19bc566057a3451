------------------------ MODULE MCHarnessLifecycle ------------------------
(* Instances of HarnessLifecycle.                                          *)
EXTENDS HarnessLifecycle, TLC
CONSTANTS h1, h2
Symmetry == Permutations(Handler)
\* Faults beside overlapping operations are explored up to the second one.
FaultsOrOverlaps == faults > 0 /\ tangled => begun < MaxOps
\* Once requests side by side have blurred what a rollback goes to, which release
\* it is decides no step any more: a second release is not followed further.
BlurredReleases == blurred /\ latest > 1 => begun < MaxOps
=============================================================================
