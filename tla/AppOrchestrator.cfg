\* Two requests to app_control, one fault anywhere.
SPECIFICATION FairSpec
CONSTANTS
  db = db api = api c1 = c1 c2 = c2 all = all
  Service = {db, api}
  DependsOn <- Needs
  Order <- DbThenApi
  All = all
  Call = {c1, c2}
  Providers = {"docker", "ecs"}
  FaultBudget = 1
CONSTRAINT WholeDeprovisions
INVARIANTS TypeOK DependenciesFirst DeprovisionedMeansGone RowsMatchContainers
PROPERTIES ProvisioningEnds
CHECK_DEADLOCK FALSE
