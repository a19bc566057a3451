CONSTANTS
  s1 = s1
  s2 = s2
  i1 = i1
  i2 = i2
  r1 = r1
  r2 = r2
  r3 = r3
  w1 = w1
  w2 = w2
  h1 = h1
  Subscriptions = {s1}
  SubOf <- MCSubOf
  Invoices = {i1, i2}
  Rows = {r1, r2}
  Workers = {w1, w2}
  Harnesses = {h1}
  HarnessOf <- MCHarnessOf
  Cost <- MCCost
  Byok = {}
  Plans = {"app_starter"}
  EgressIncluded = 0
  MaxFaults = 1
  MaxClock = 1
SYMMETRY MCSymmetry
SPECIFICATION Spec
INVARIANTS
  TypeOK
  BilledIsSettled
  ChargedTwiceOnlyIfExposed
CHECK_DEADLOCK FALSE
