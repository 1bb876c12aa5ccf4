SPECIFICATION Spec
CONSTANTS
  NumHarts = 2
  Word = 4
  MaxTime = 12
  Deadlines <- MCDeadlines
  MaxSends = 2
INVARIANTS
  TypeOK
  NeverEarly
  OneSleepIsEnough
PROPERTIES
  NoOversleep
  TimerExpires
  WorkGetsDone
