\* A first chunk of 4 bytes under a cap of 40: up to three growths, chunks at
\* any alignment modulo 4, values of no size included.
SPECIFICATION ArenaSpec
CONSTANTS
  InitialSize = 4
  MaxArenaSize = 40
  Layouts <- MCLayouts
  Addresses <- MCAddresses
  MaxLive = 4
  NoLayout = NoLayout
INVARIANTS
  BumpExact
  LiveDisjoint
  TwoGrowthsSuffice
  GrowthDoubles
