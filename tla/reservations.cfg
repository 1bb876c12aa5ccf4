SPECIFICATION ProgramSpec
CONSTANTS
  Harts <- MCHarts
  NumCells = 6
  Vals <- MCVals
  StoreWidths <- HalfWordDouble
  AtomicWidths <- WordDouble
  DmaWidths <- MCDma
  PteCells <- LastHigh
  VectorCells <- LastLow
  HostCells <- LastLow
  Threads <- MCThreads
  Width = 2
  Counter = 0
  Scratch = 2
  Modulus = 2
  MaxSwitches = 3
INVARIANTS
  TypeOK
  LiveReservationUntouched
  LoopsLoseNothing
PROPERTIES
  LostOnlyByOverlap
  LoopsProgress
