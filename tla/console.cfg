SPECIFICATION Spec
CONSTANTS
  Queries <- MCQueries
  Options <- MCOptions
  Lines <- MCLines
  MaxClicks = 2
INVARIANTS
  TypeOK
  OutputInOrder
  InputInOrder
  VerdictSound
PROPERTIES
  HaltStopsGuest
  ProbeEnds
CHECK_DEADLOCK FALSE
