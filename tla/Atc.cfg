CONSTANTS
  p = p
  x = x
  y = y
  Pages = {p}
  Phys = {x, y}
  Roots = {1, 2}
  ResetRoot = 1
  Fault = Fault
  Direct = Direct
  None = None
  Models = {"68040", "68060"}
  ATC_WAYS = 2
  Slots <- MCSlots
  Slot <- MCSlot
  Index <- MCIndex
  LastIndex = 9
  Uses <- MCUses
  MaxChanges = 1
  GuestDescs <- MCDescs
  GuestTables <- MCTables
  GuestTcrs <- MCTcrs
  GuestTtrs <- MCTtrs
SPECIFICATION Spec
VIEW StateView
INVARIANTS
  TypeOK
  OneLinePerPage
  LinesNotStale
  ShortcutsNotStale
PROPERTY ImplementsAddressSpace
