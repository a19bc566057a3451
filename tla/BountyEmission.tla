--------------------------- MODULE BountyEmission ---------------------------
(* services/bounty_service.rs: contributions are logged under the day they    *)
(* are made on; at each midnight the scheduler of every running platform      *)
(* wakes, reads the contributions of the day it finds on its clock, and       *)
(* records a share of that day's emission for each contributor, one INSERT at *)
(* a time.  Rolling the platform out runs two of them for a while.            *)
EXTENDS Integers, Sequences, FiniteSets, FiniteSetsExt

CONSTANTS
  Contributor,     \* contributor ids, natural numbers
  Platform,        \* platform processes
  Pool,            \* daily_emission_for_day, tokens of a day
  Points,          \* points a contribution may ask for
  MaxBountyPoints, \* MAX_BOUNTY_POINTS
  None,            \* no record
  MaxDay,          \* bound on days
  MaxLogged,       \* bound on a contributor's points of a day
  FaultBudget      \* bound on failing statements and crashes

ASSUME ContributorAssumption == Contributor \subseteq Nat /\ IsFiniteSet(Contributor)
ASSUME PoolAssumption == Pool \in Nat /\ None \notin Nat
ASSUME PointsAssumption == Points \subseteq Nat \ {0} /\ MaxBountyPoints \in Nat
ASSUME BoundAssumption == MaxDay \in Nat /\ MaxLogged \in Nat /\ FaultBudget \in Nat

VARIABLES
  today,           \* the day index of the clock
  logged,          \* contribution_activities: points by day and contributor
  awarded,         \* emission_records: tokens by day and contributor
  run,             \* each platform's scheduler
  read,            \* history: for each day, the points its runs have read
  faults

vars == <<today, logged, awarded, run, read, faults>>

Day == 0..MaxDay
Asleep == [at |-> "asleep", day |-> 0, due |-> {}, points |-> [c \in Contributor |-> 0]]
Down == [Asleep EXCEPT !.at = "down"]

\* The platforms start on the first day; nothing is logged.
Init ==
  /\ today = 0 /\ faults = 0
  /\ logged = [d \in Day |-> [c \in Contributor |-> 0]]
  /\ awarded = [d \in Day |-> [c \in Contributor |-> None]]
  /\ run = [p \in Platform |-> Asleep]
  /\ read = [d \in Day |-> {}]

Fine == UNCHANGED faults
Fault == faults < FaultBudget /\ faults' = faults + 1

-----------------------------------------------------------------------------
(* Shares.                                                                   *)

Sum(points) == MapThenSumSet(LAMBDA c : points[c], Contributor)
Earners(points) == {c \in Contributor : points[c] > 0}

\* Mutant: shares are rounded up.
ShareRoundedUp(c, points) == (points[c] * Pool + Sum(points) - 1) \div Sum(points)

\* calculate_daily_rewards (amos_core): the pool in proportion, rounded down.
Share(c, points) == (points[c] * Pool) \div Sum(points)

-----------------------------------------------------------------------------
(* record_contribution: refused over MAX_BOUNTY_POINTS, else a row of today. *)

Contribute(c, pts) ==
  /\ pts <= MaxBountyPoints /\ logged[today][c] + pts <= MaxLogged
  /\ logged' = [logged EXCEPT ![today][c] = @ + pts]
  /\ UNCHANGED <<today, awarded, run, read, faults>>

-----------------------------------------------------------------------------
(* The scheduler.                                                            *)

\* Midnight wakes the schedulers that sleep; each takes the day of its clock,
\* the one that begins.  One that is still at work sleeps until the next.
Midnight ==
  /\ today < MaxDay /\ today' = today + 1
  /\ run' = [p \in Platform |->
       IF run[p].at = "asleep" THEN [Asleep EXCEPT !.at = "query", !.day = today + 1]
       ELSE run[p]]
  /\ UNCHANGED <<logged, awarded, read, faults>>

\* get_todays_contributions and build_daily_snapshot; nothing to pay, or a
\* failed query, ends the run.
Query(p) ==
  LET d == run[p].day IN
  /\ run[p].at = "query"
  /\ \/ /\ Fine /\ read' = [read EXCEPT ![d] = @ \cup {logged[d]}]
        /\ run' = [run EXCEPT ![p] =
             IF Earners(logged[d]) = {} THEN Asleep
             ELSE [at |-> "pay", day |-> d, due |-> Earners(logged[d]), points |-> logged[d]]]
     \/ Fault /\ run' = [run EXCEPT ![p] = Asleep] /\ UNCHANGED read
  /\ UNCHANGED <<today, logged, awarded>>

Paid(p, c) ==
  IF run[p].due = {c} THEN Asleep ELSE [run[p] EXCEPT !.due = @ \ {c}]

\* Mutant: ON CONFLICT DO UPDATE, the record becomes this run's.
Upsert(d, c) == TRUE

\* UNIQUE (contributor_id, day_index).
Insertable(d, c) == awarded[d][c] = None

\* record_emission_reward in the order of the ids; an INSERT that fails, or
\* meets a record, ends the run.  The proof sent to Solana changes nothing here.
Pay(p) ==
  LET d == run[p].day
      c == Min(run[p].due)
  IN
  /\ run[p].at = "pay"
  /\ \/ /\ Fine /\ Insertable(d, c)
        /\ awarded' = [awarded EXCEPT ![d][c] = Share(c, run[p].points)]
        /\ run' = [run EXCEPT ![p] = Paid(p, c)]
     \/ /\ Fine /\ ~Insertable(d, c)
        /\ run' = [run EXCEPT ![p] = Asleep] /\ UNCHANGED awarded
     \/ Fault /\ run' = [run EXCEPT ![p] = Asleep] /\ UNCHANGED awarded
  /\ UNCHANGED <<today, logged, read>>

\* The process dies; a started one sleeps until the next midnight first.
Crash(p) ==
  /\ run[p].at # "down" /\ Fault
  /\ run' = [run EXCEPT ![p] = Down]
  /\ UNCHANGED <<today, logged, awarded, read>>

Restart(p) ==
  /\ run[p].at = "down"
  /\ run' = [run EXCEPT ![p] = Asleep]
  /\ UNCHANGED <<today, logged, awarded, read, faults>>

Next ==
  \/ \E c \in Contributor, pts \in Points : Contribute(c, pts)
  \/ Midnight
  \/ \E p \in Platform : Query(p) \/ Pay(p) \/ Crash(p) \/ Restart(p)

Spec == Init /\ [][Next]_vars

-----------------------------------------------------------------------------
(* Properties.                                                               *)

Tokens == 0..Pool
Logged == [Contributor -> 0..MaxLogged]
Scheduler == [at : {"asleep", "query", "pay", "down"}, day : Day,
              due : SUBSET Contributor, points : Logged]

\* The tables and the schedulers hold what the code stores in them; a run that
\* pays owes only contributors with points in what it read.
TypeOK ==
  /\ today \in Day /\ faults \in 0..FaultBudget
  /\ logged \in [Day -> Logged]
  /\ awarded \in [Day -> [Contributor -> Tokens \cup {None}]]
  /\ run \in [Platform -> Scheduler]
  /\ read \in [Day -> SUBSET Logged]

Ledger == INSTANCE EmissionLedger WITH
  Day <- Day, Contributor <- Contributor, Pool <- Pool, None <- None, awarded <- awarded

\* Whatever platforms crash or run side by side, the records of the nightly run
\* are those of EmissionLedger: one award a day and contributor, never changed.
OneAwardPerDay == Ledger!Spec

Total(d) == MapThenSumSet(LAMBDA c : IF awarded[d][c] = None THEN 0 ELSE awarded[d][c], Contributor)

\* The awards of a day stay within its emission, also when several platforms
\* pay it or a run breaks off, unless two runs of the day read different
\* contributions: then the first one's shares and the second one's add up.
PoolIsKept == \A d \in Day : Cardinality(read[d]) <= 1 => Total(d) <= Pool

=============================================================================
