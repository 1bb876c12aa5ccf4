SPECIFICATION Spec
CONSTANTS
  Off = Off
  Texts <- MCTexts
  Bytes <- StringBytes
  CommandLines <- MCCommandLines
  Max32 <- Widest32
  Max64 <- Widest64
INVARIANTS
  TypeOK
  StringTableSound
  ReadBack
  ReferencesResolve
PROPERTIES
  Completes
CHECK_DEADLOCK FALSE
