-------------------------------- MODULE Books --------------------------------
(* Three parts of the platform that keep books of their own: the nightly      *)
(* emission, the votes on a proposal, and the managed-AI credit of a tenant.  *)
(* They share neither a row nor a lock, so that no step of one can tell where *)
(* another is; a behaviour here is a behaviour of one of them while the       *)
(* others rest.                                                               *)
EXTENDS BountyEmission

CONSTANTS
  Vote, Stake, Gate, DefaultWeight, ProposerStake, MinStake, MaxChecks, \* Governance
  Harness, Byok, Rate, Grant, MaxPeriods, MaxChanges                    \* CreditGate

ASSUME StakeAssumption == Stake \in [Vote -> Nat] /\ DefaultWeight \in Nat \ {0}
ASSUME GovernanceAssumption ==
  ProposerStake \in Nat /\ MinStake \in Nat /\ MaxChecks \in Nat
ASSUME SpendAssumption ==
  /\ IsFiniteSet(Harness) /\ Byok \subseteq Harness
  /\ Rate \in Nat \ {0} /\ Grant \in Nat
  /\ MaxPeriods \in Nat /\ MaxChanges \in Nat

VARIABLES
  part,                                               \* the one that moves
  status, past, tally, votes, req, checks, strayed,   \* Governance
  balance, subscription, pc, allowed, spent,          \* CreditGate
  used, deducted, lost, late, periods, changes

G == INSTANCE Governance
Credit == INSTANCE CreditGate WITH status <- subscription

emission == <<today, logged, awarded, run, read>>
governance == <<status, past, tally, votes, req, checks, strayed>>
credit == <<balance, subscription, pc, allowed, spent, used, deducted, lost, late, periods, changes>>

BooksInit == part \in {"emission", "governance", "credit"} /\ Init /\ G!Init /\ Credit!Init

BooksNext ==
  \/ part = "emission" /\ Next /\ UNCHANGED <<part, governance, credit>>
  \/ part = "governance" /\ G!Next /\ UNCHANGED <<part, emission, credit>>
  \/ part = "credit" /\ Credit!Next /\ UNCHANGED <<part, emission, governance>>

BooksSpec == BooksInit /\ [][BooksNext]_<<part, emission, governance, credit, faults>>

-----------------------------------------------------------------------------
(* The properties of Governance and CreditGate, stated there.                *)

\* The tally is the sum of the recorded votes (cast_vote).
TallyIsVotes == G!TallyIsVotes

\* The answer of get_gates is each gate's first check.
GateVerdictIsFrozen == G!GateVerdictIsFrozen

\* A harness spends at most one interval after the gate has closed (get_balance).
LateSpendingIsBounded == Credit!LateSpendingIsBounded

\* The tenant overruns its credit by one interval of its harnesses (receive_activity).
OverrunIsBounded == Credit!OverrunIsBounded
=============================================================================
