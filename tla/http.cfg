SPECIFICATION FairSpec
CONSTANTS
  None = None
  Lower <- MCLower
  UpgradeKey = "upgrade"
  Values = {"websocket", "plain", "accented", "control"}
  Accented = {"accented"}
  Control = {"control"}
  Websocket = {"websocket"}
  MaxOps = 3
  Capacity = 2
  MaxMessages = 3
  MaxPending = 2
INVARIANTS
  HeadersComeBack
  ReportsAreTrue
PROPERTIES
  SenderMeetsReceiver
  CallsEndAfterDrop
