SPECIFICATION FairSpec
CONSTANTS
  a = a
  b = b
  own = own
  clone = clone
  stick = stick
  net = net
  MaxDmDepth = 2
  NONE = NONE
  Slots = {a, b}
  FactorySlot = a
  Nums = {0, 1, 2, 3}
  Disk = own
  Parts <- MCParts
  Stock <- MCStock
  Threads = {t1, t2}
  MaxActions = 2
  MaxBoots = 1
  MaxWipes = 1
  MaxFaults = 1
CHECK_DEADLOCK FALSE
INVARIANTS DefaultIsProven
PROPERTIES HitsItsSlot CommitLasts ActionEnds
