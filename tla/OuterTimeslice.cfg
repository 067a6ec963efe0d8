SPECIFICATION HSpec
CONSTANTS
  MaxDepth = 2
  Budgets = {1, 3}
  Levels = {3}
  Virqs = {3}
  Masks = {0}
  GetIrq = {TRUE, FALSE}
  Stacks = {TRUE, FALSE}
  ExcCycles = 1
PROPERTY OuterCallsKeepRunning
