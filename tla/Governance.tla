----------------------------- MODULE Governance -----------------------------
(* routes/governance.rs for one proposal: votes are cast by concurrent        *)
(* requests, each of which reads the voter's stake on chain, looks whether    *)
(* the proposal is open, and then inserts its vote and adds to the tally in   *)
(* two statements whose failure is only logged.  What moves a proposal on and *)
(* checks its gates is outside this repository; it keeps to                   *)
(* can_transition_to (governance/mod.rs).                                     *)
EXTENDS Integers, Sequences, FiniteSets, FiniteSetsExt

CONSTANTS
  Vote,            \* vote requests
  Stake,           \* each request's voter's stake; 0 is none
  Gate,            \* quality gates
  DefaultWeight,   \* weight when the chain cannot be read
  ProposerStake, MinStake,   \* the proposer's stake, MIN_STAKE_AMOUNT
  MaxChecks,       \* bound on gate checks
  FaultBudget      \* bound on failing statements and requests, and crashes

VARIABLES
  status,          \* the proposal's row: its status, or "none"
  past,            \* its voting deadline is past
  tally,           \* votes_for and votes_against, by support
  votes,           \* rows of governance_votes
  req,             \* each vote request
  checks,          \* rows of governance_gates, in the order of checked_at
  strayed,         \* history: requests one of whose statements failed or was cut
  faults

vars == <<status, past, tally, votes, req, checks, strayed, faults>>

Status == {"draft", "submitted", "active", "in_development", "in_review", "in_ab_test",
           "awaiting_feedback", "awaiting_steward_approval", "approved", "merged",
           "rejected", "cancelled"}

Init ==
  /\ status = "none" /\ past = FALSE /\ faults = 0
  /\ tally = [s \in BOOLEAN |-> 0] /\ votes = {} /\ checks = <<>> /\ strayed = {}
  /\ req = [v \in Vote |-> [at |-> "new", support |-> FALSE, weight |-> 0]]

Fine == UNCHANGED faults
Fault == faults < FaultBudget /\ faults' = faults + 1
Goto(v, step) == req' = [req EXCEPT ![v].at = step]

-----------------------------------------------------------------------------
(* The proposal.                                                             *)

\* create_proposal: refused below the minimum, accepted when the chain cannot
\* be read.  (A failed INSERT answers 201 all the same, and makes no proposal.)
Create ==
  /\ status = "none"
  /\ \/ Fine /\ ProposerStake >= MinStake
     \/ Fault
  /\ status' = "draft"
  /\ UNCHANGED <<past, tally, votes, req, checks, strayed>>

CanTransition(from, to) ==
  \/ to = "cancelled"
  \/ <<from, to>> \in
       {<<"draft", "submitted">>, <<"submitted", "active">>,
        <<"active", "in_development">>, <<"active", "rejected">>,
        <<"in_development", "in_review">>, <<"in_review", "in_ab_test">>,
        <<"in_ab_test", "awaiting_feedback">>,
        <<"awaiting_feedback", "awaiting_steward_approval">>,
        <<"awaiting_steward_approval", "approved">>,
        <<"awaiting_steward_approval", "rejected">>, <<"approved", "merged">>}

Move(to) ==
  /\ status \in Status \ {to} /\ CanTransition(status, to)
  /\ status' = to
  /\ UNCHANGED <<past, tally, votes, req, checks, strayed, faults>>

DeadlinePasses ==
  /\ status = "active" /\ ~past /\ past' = TRUE
  /\ UNCHANGED <<status, tally, votes, req, checks, strayed, faults>>

-----------------------------------------------------------------------------
(* cast_vote.                                                                *)

\* No stake is refused; a chain that cannot be read gives the default.
Weigh(v, support) ==
  /\ req[v].at = "new" /\ status # "none"
  /\ \/ Fine /\ Stake[v] = 0 /\ Goto(v, "over")
     \/ Fine /\ Stake[v] > 0
        /\ req' = [req EXCEPT ![v] = [at |-> "look", support |-> support, weight |-> Stake[v]]]
     \/ Fault
        /\ req' = [req EXCEPT ![v] = [at |-> "look", support |-> support, weight |-> DefaultWeight]]
  /\ UNCHANGED <<status, past, tally, votes, checks, strayed>>

Open == status = "active" /\ ~past

Look(v) ==
  /\ req[v].at = "look"
  /\ \/ Fine /\ Open /\ Goto(v, "insert")
     \/ Fine /\ ~Open /\ Goto(v, "over")
     \/ Fault /\ Goto(v, "over")
  /\ UNCHANGED <<status, past, tally, votes, checks, strayed>>

InsertVote(v) ==
  /\ req[v].at = "insert" /\ Goto(v, "tally")
  /\ \/ Fine /\ votes' = votes \cup {v} /\ UNCHANGED strayed
     \/ Fault /\ strayed' = strayed \cup {v} /\ UNCHANGED votes
  /\ UNCHANGED <<status, past, tally, checks>>

\* Mutant: a vote against is counted for.
CountedFor(v) == [tally EXCEPT ![TRUE] = @ + req[v].weight]

Counted(v) == [tally EXCEPT ![req[v].support] = @ + req[v].weight]

CountVote(v) ==
  /\ req[v].at = "tally" /\ Goto(v, "over")
  /\ \/ Fine /\ tally' = Counted(v) /\ UNCHANGED strayed
     \/ Fault /\ strayed' = strayed \cup {v} /\ UNCHANGED tally
  /\ UNCHANGED <<status, past, votes, checks>>

\* The process dies, or the request times out.
Cut(v) ==
  /\ req[v].at \in {"look", "insert", "tally"} /\ Fault /\ Goto(v, "over")
  /\ strayed' = strayed \cup {v}
  /\ UNCHANGED <<status, past, tally, votes, checks>>

-----------------------------------------------------------------------------
(* The gates.                                                                *)

Check(g, passed) ==
  /\ status \in Status /\ Len(checks) < MaxChecks
  /\ checks' = Append(checks, [gate |-> g, passed |-> passed])
  /\ UNCHANGED <<status, past, tally, votes, req, strayed, faults>>

Of(g, rows) == {i \in DOMAIN rows : rows[i].gate = g}

\* Mutant: ORDER BY checked_at, without DESC.
LastCheck(g, rows) == Max(Of(g, rows))

\* The rows come latest first and each overwrites the one before it in the map.
ShownCheck(g, rows) == Min(Of(g, rows))

Verdict(g, rows) ==
  IF Of(g, rows) = {} THEN "unchecked"
  ELSE IF rows[ShownCheck(g, rows)].passed THEN "passed" ELSE "failed"

Next ==
  \/ Create
  \/ \E to \in Status : Move(to)
  \/ DeadlinePasses
  \/ \E v \in Vote : \E s \in BOOLEAN : Weigh(v, s)
  \/ \E v \in Vote : Look(v) \/ InsertVote(v) \/ CountVote(v) \/ Cut(v)
  \/ \E g \in Gate, passed \in BOOLEAN : Check(g, passed)

Spec == Init /\ [][Next]_vars

-----------------------------------------------------------------------------
(* Properties.                                                               *)

Request == [at : {"new", "look", "insert", "tally", "over"}, support : BOOLEAN, weight : Nat]

\* Every variable is what the code stores in it.
TypeOK ==
  /\ status \in Status \cup {"none"} /\ past \in BOOLEAN
  /\ tally \in [BOOLEAN -> Nat] /\ votes \subseteq Vote
  /\ req \in [Vote -> Request] /\ strayed \subseteq Vote
  /\ checks \in Seq([gate : Gate, passed : BOOLEAN])
  /\ faults \in 0..FaultBudget

\* The tally is the votes: what votes_for and votes_against differ from the
\* rows of governance_votes is the votes now between their two statements and
\* those one of whose statements failed (cast_vote).
TallyIsVotes ==
  \A s \in BOOLEAN :
    tally[s] = MapThenSumSet(LAMBDA v : req[v].weight,
                 {v \in Vote : req[v].support = s /\ req[v].at = "over" /\ v \in votes})
    \/ \E v \in strayed : req[v].support = s

\* The first check of a gate is the answer of get_gates for good: a later one,
\* of a gate that failed or of one that passed, never shows.
GateVerdictIsFrozen ==
  [][\A g \in Gate : Verdict(g, checks) # "unchecked" =>
       Verdict(g, checks)' = Verdict(g, checks)]_vars
=============================================================================
