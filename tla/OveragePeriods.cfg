CONSTANTS
  s1 = s1
  s2 = s2
  i1 = i1
  i2 = i2
  r1 = r1
  r2 = r2
  r3 = r3
  w1 = w1
  w2 = w2
  h1 = h1
  Subscriptions = {s1, s2}
  SubOf <- MCSubOf
  Invoices = {i1, i2}
  Rows = {r1, r3}
  Workers = {w1}
  Harnesses = {h1}
  HarnessOf <- MCHarnessOf
  Cost <- MCCost
  Byok = {}
  Plans = {"app_starter", "free"}
  EgressIncluded = 1
  MaxFaults = 0
  MaxClock = 2
SPECIFICATION FairSpec
INVARIANTS
  ChargesWithinCeiling
PROPERTIES
  PaidInvoiceRefreshesCredit
CHECK_DEADLOCK FALSE
