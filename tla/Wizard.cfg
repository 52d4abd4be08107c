SPECIFICATION Spec
CONSTANTS
  MaxAttempts = 2
  MaxWire = 2
  MaxFaults = 1
INVARIANTS
  VerdictIsTrue
  ResetIsTrue
  SavedIsSuccess
PROPERTY
  WizardReturns
CHECK_DEADLOCK FALSE
