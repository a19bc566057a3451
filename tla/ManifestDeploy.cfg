\* Two deploys of an app with two services and a release command, a redeploy of it, and one fault anywhere.
SPECIFICATION FairSpec
CONSTANTS
  d1 = d1 d2 = d2 b1 = b1 r1 = r1 prod = prod staging = staging
  web = web worker = worker stage = stage base = base app = app
  v0 = v0 v1 = v1 v2 = v2 None = None AtTag = AtTag
  Deploy = {d1, d2} ImageBuild = {} Redeploy = {r1} Forced = {}
  App = {prod} Service = {web, worker} Image = {app} Ref = {v0, v1, v2}
  TargetOf <- MCProd RefOf <- MCRefOf ImageOf <- MCImageOf
  Order <- MCOneImage BaseOf <- MCBaseOf HasRelease = TRUE
  ServicesOf <- MCServicesOf ContainersOf <- MCContainersOf
  Ref0 = v0 FaultBudget = 1
INVARIANTS OneDeployPerApp VerifiedServicesPinned FrozenRestartsAreStale
PROPERTIES RollsAreReleased InFlightIsCleared
CHECK_DEADLOCK FALSE
