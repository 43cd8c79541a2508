\* Violated: a handler entered before an await is gone after it.
SPECIFICATION Spec
CONSTANTS
  Programs <- TryAcrossAwait
  NumRegs = 10
  MaxReg = 9
  MaskWidth = 2
  MaskBits = 2
  Limits = {6}
  DefaultLimit = 6
  IoValues <- MCIoValues
  MaxSuspensions = 2
  None = None
INVARIANT
  CaughtAcrossAwait
