SPECIFICATION Spec
CONSTANTS
  Queries <- MCQueries
  Options <- DocumentedOptions
  Lines <- MCLines
  MaxClicks = 2
INVARIANT
  ResponseSeen
CHECK_DEADLOCK FALSE
