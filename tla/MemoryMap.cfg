SPECIFICATION Spec
CONSTANTS
  MemoryBanks = 4
  BankSize = 2
  Objects = {b1, b2, b3}
  Regions <- MCRegions
  Bases <- MCBases
  NULL = NULL
  dummy_bank = dummy_bank
INVARIANTS NoDanglingBank JitAccessesAreSound BurstsAreConservative AccessesStayInside
PROPERTY BanksShowRegions
