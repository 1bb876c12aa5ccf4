SPECIFICATION ProfileSpec
CONSTANTS
  HasS = TRUE
  HasU = TRUE
  Irqs <- NoIrqs
  Excs <- MCExcs
  CodePcs <- MCCodePcs
  Vectors <- TrapVectors
  StatusArgs <- TrapStatusArgs
  IrqArgs <- NoIrqArgs
  ExcArgs <- TrapExcArgs
INVARIANTS
  TypeOK
  MprvOnlyInMachineMode
  SavedContextIntact
  SeipBitIsSoftware
  ProfileModes
PROPERTIES
  PrivilegeRisesOnlyByTrap
  LowerModesCannotTouchMachineState
  InterruptsRespectPrivilege
