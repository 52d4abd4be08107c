SPECIFICATION Spec
CONSTANTS
  State <- MCState
  MaxWrites = 1
  MaxFaults = 2
PROPERTIES
  AnswersAreTrue
  CableIsUsed
  CallReachesLight
