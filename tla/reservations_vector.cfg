SPECIFICATION ProgramSpec
CONSTANTS
  Harts <- MCHarts
  NumCells = 6
  Vals <- MCVals
  StoreWidths <- HalfWordDouble
  AtomicWidths <- WordDouble
  DmaWidths <- MCDma
  PteCells <- NoCells
  VectorCells <- LastLow
  HostCells <- NoCells
  Threads <- MCThreads
  Width = 2
  Counter = 0
  Scratch = 2
  Modulus = 2
  MaxSwitches = 3
INVARIANTS
  OverlappingStoreBreaksReservation
