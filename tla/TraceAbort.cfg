SPECIFICATION Spec
CONSTANTS
  blockA = blockA
  blockB = blockB
  blockC = blockC
  codeX = codeX
  codeY = codeY
  None = None
  Pcs = {blockA, blockB, blockC}
  Contents = {codeX, codeY}
  Checksum <- MCChecksum
  Line <- MCLine
  Exits <- MCExits
  LastOp <- MCLastOp
  Loaded <- MCLoaded
  Written = {blockC}
  Claims <- MCClaims
  Hooks = {TRUE}
  Opcodes = {0, 1}
  Decoded = {0, 1}
  Flagless = {1}
  Dbf = {1}
  MaxRanges = 1
  OptCount = 2
  MaxHold = 3
  Faulting = {blockA}
INVARIANT CountAssertionHolds
CHECK_DEADLOCK FALSE
