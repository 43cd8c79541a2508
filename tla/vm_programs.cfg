\* Every small program, with a limit smaller and one larger than the longest
\* straight-line run, and up to three suspensions.
SPECIFICATION FairSpec
CONSTANTS
  Programs <- AllPrograms
  NumRegs = 10
  MaxReg = 9
  MaskWidth = 2
  MaskBits = 2
  Limits = {3, 6}
  DefaultLimit = 6
  IoValues <- MCIoValues
  MaxSuspensions = 3
  None = None
INVARIANTS
  ResumeTransparent
  SuspendsAsWritten
  ResumesWhereNoted
  AnswersLastResult
PROPERTY
  RunEnds
