CONSTANTS
  MaxDepth = 3
  MaxLeaks = 2
  Budgets = {2, 4}
  Costs = {1, 2}
  INT_MAX = 3
SPECIFICATION Spec
INVARIANT DepthCountsCalls
CHECK_DEADLOCK FALSE
