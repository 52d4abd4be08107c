SPECIFICATION Spec
CONSTANTS
  State <- MCState
  Default = "AVAILABLE"
  MaxWrites = 3
  MaxFaults = 2
INVARIANTS
  CallHidesNothing
PROPERTIES
  PicksSurvive
  CallIsShown
  CallIsCleared
