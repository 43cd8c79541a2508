\* Two agents, three crashes at any point, any records unreadable after each.
SPECIFICATION FairSpec
CONSTANTS
  MaxAgents = 2
  MaxCrashes = 3
  None = None
INVARIANTS
  AckedIsDurable
  OnePlacePerServer
PROPERTY
  AckedAgentsReturn
