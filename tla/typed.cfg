SPECIFICATION Spec
CONSTANTS
  None = None
  Scripts <- MCScripts
INVARIANTS
  NativeMeansSame
