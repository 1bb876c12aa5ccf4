SPECIFICATION Spec
CONSTANTS
  HasS = FALSE
  HasU = FALSE
  Irqs <- TwoMachineIrqs
  Excs <- MCExcs
  CodePcs <- MCCodePcs
  Vectors <- MCVectors
  StatusArgs <- MCStatusArgs
  IrqArgs <- MachineIrqArgs
  ExcArgs <- NoExcArgs
INVARIANTS
  ModeImplemented
