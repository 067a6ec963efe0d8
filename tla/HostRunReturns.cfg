SPECIFICATION ProgressSpec
CONSTANTS
  MaxDepth = 2
  Budgets = {1}
  Levels = {7}
  Virqs = {}
  Masks = {}
  GetIrq = {TRUE, FALSE}
  Stacks = {TRUE}
  ExcCycles = 0
PROPERTY CallsReturn
