SPECIFICATION Spec
CONSTANTS
  State <- MCState
  MaxWrites = 0
  MaxFaults = 1
PROPERTY ReadsRecover
