SPECIFICATION Spec
CONSTANTS
  SSID = {"home", "cafe"}
  State <- MCState
  MaxNets = 1
  MaxOps = 2
  MaxMoves = 1
  MaxCuts = 1
INVARIANTS
  UsbOwnsLight
  LightIsExplained
  ListsAgree
  CleanIsSaved
PROPERTIES
  Rejoins
  ServedIsSaved
