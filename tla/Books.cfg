\* Two platforms that pay two contributors; two votes on one proposal with two
\* gates; two harnesses of one tenant and a third with its own key.
SPECIFICATION BooksSpec
CONSTANTS
  p1 = p1 p2 = p2 v1 = v1 v2 = v2 None = None
  Contributor = {1, 2} Platform = {p1, p2} Pool = 5
  Points = {1} MaxBountyPoints = 2 MaxDay = 2 MaxLogged = 1
  Vote = {v1, v2} Stake <- MCStake Gate = {"benchmark", "ab_test"}
  DefaultWeight = 5 ProposerStake = 2 MinStake = 2 MaxChecks = 2
  h1 = h1 h2 = h2 k = k Harness = {h1, h2, k} Byok = {k}
  Rate = 2 Grant = 2 MaxPeriods = 1 MaxChanges = 1
  FaultBudget = 1
SYMMETRY Symmetry
INVARIANTS PoolIsKept TallyIsVotes LateSpendingIsBounded OverrunIsBounded
PROPERTIES OneAwardPerDay GateVerdictIsFrozen
CHECK_DEADLOCK FALSE
