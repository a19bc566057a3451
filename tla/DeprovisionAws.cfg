\* An app on AWS and one request, without faults.
SPECIFICATION Spec
CONSTANTS
  db = db api = api c1 = c1 c2 = c2 all = all
  Service = {db, api}
  DependsOn <- Needs
  Order <- DbThenApi
  All = all
  Call = {c1}
  Providers = {"ecs"}
  FaultBudget = 0
INVARIANTS DeprovisionedIsShutDown
CHECK_DEADLOCK FALSE
