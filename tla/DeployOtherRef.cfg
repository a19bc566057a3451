\* An app and its environment deployed at the same time, nothing failing.
SPECIFICATION Spec
CONSTANTS
  d1 = d1 d2 = d2 b1 = b1 r1 = r1 prod = prod staging = staging
  web = web worker = worker stage = stage base = base app = app
  v0 = v0 v1 = v1 v2 = v2 None = None AtTag = AtTag
  Deploy = {d1, d2} ImageBuild = {} Redeploy = {} Forced = {}
  App = {prod, staging} Service = {web, stage} Image = {app} Ref = {v0, v1, v2}
  TargetOf <- MCStaging RefOf <- MCRefOf ImageOf <- MCImageOf
  Order <- MCOneImage BaseOf <- MCBaseOf HasRelease = FALSE
  ServicesOf <- MCOneService ContainersOf <- MCContainersOf
  Ref0 = v0 FaultBudget = 0
PROPERTIES NeverShipsAnotherRef
CHECK_DEADLOCK FALSE
