\* One organization and four requests, two at a time, two faults.
SPECIFICATION Spec
CONSTANTS
  h1 = h1 h2 = h2 acme = acme other = other None = None
  Handler = {h1, h2}
  Requests = {{}, {"read", "own"}, {"operate", "unknown"}}
  Slug = {acme, other}
  MaxUsers = 3
  MaxTokens = 4
  MaxOps = 4
  FaultBudget = 2
SYMMETRY Symmetry
INVARIANTS SpentOnce ReuseEndsAllSessions ResetEndsOlderLinks ChoiceIsKept OneOwner
CHECK_DEADLOCK FALSE
