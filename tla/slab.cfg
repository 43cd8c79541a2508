\* Every order of inserts and removes, up to four continuations stored.
SPECIFICATION SlabSpec
CONSTANTS
  Continuations = {c1, c2}
  None = None
  MaxStored = 4
INVARIANT
  FreeListExact
PROPERTIES
  GrowsOnlyWhenFull
  SlabImplementsMap
