SPECIFICATION Spec
CONSTANTS
  h1 = h1
  h2 = h2
  none = none
  Harts = {h1, h2}
  Tables = {1, 2}
  Ppns <- MCPpns
  Roots = {0, 1, 2}
  Aligned <- MCAligned
  Levels = 2
  Idx = {0, 1}
  VPages <- MCVPages
  SetOf <- MCSetOf
  Sets = {0}
  SlotOf <- MCSlotOf
  Slots = {1, 2}
  Writes <- MCWrites
  Contexts <- MCContexts
  NullPpn = 0
  NoTable = none
  NoEntry = none
  Fault = none
INVARIANTS
  TypeOK
  CachedMatchesWalk
  HitsAreMarked
  AnswersAreCurrent
SYMMETRY HartSymmetry
