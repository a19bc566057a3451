\* A shared and a dedicated environment with one target group name, three calls in any overlap, two faults.
SPECIFICATION Spec
CONSTANTS
  stage = stage preview = preview
  Env = {stage, preview}
  Dedicated = {preview}
  DbOf <- MCDbOf TgOf <- MCTgOf
  Priority = {10, 11}
  BaseReads = {0, 99}
  MaxOps = 3
  FaultBudget = 2
INVARIANTS TypeOK EnvIsWhole TeardownLeavesNothing FreshDatabase
CHECK_DEADLOCK FALSE
