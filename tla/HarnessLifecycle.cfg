\* A harness and three operations on it, two at a time, one fault.
SPECIFICATION Spec
CONSTANTS
  h1 = h1 h2 = h2 None = None
  Handler = {h1, h2}
  MaxTasks = 3
  MaxOps = 3
  MaxRelease = 2
  FaultBudget = 1
SYMMETRY Symmetry
CONSTRAINTS FaultsOrOverlaps BlurredReleases
INVARIANTS TypeOK LiveTasksAreNamed DownMeansDown RunningMeansServed RollbackGoesBack
CHECK_DEADLOCK FALSE
