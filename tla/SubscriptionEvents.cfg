\* Two subscriptions one after the other or side by side, two handlers, one fault.
SPECIFICATION Spec
CONSTANTS
  s1 = s1 s2 = s2 h1 = h1 h2 = h2 None = None
  Sub = {s1, s2}
  Handler = {h1, h2}
  MaxEvents = 7
  FaultBudget = 1
SYMMETRY Symmetry
INVARIANTS TypeOK StatusFollowsSubscription NoTaskIsLost CanceledHarnessIsDown
CHECK_DEADLOCK FALSE
