SPECIFICATION MainLoopSpec
CONSTANTS
  MaxDepth = 1
  Budgets = {1}
  Levels = {0, 3}
  Virqs = {}
  Masks = {0}
  GetIrq = {TRUE}
  Stacks = {TRUE}
  ExcCycles = 1
PROPERTY StopWakes
