SPECIFICATION Spec
CONSTANTS
  Updaters <- MCUpdaters
  MaxFaults = 1
INVARIANTS
  FlagsComeDown
  PortIsKept
PROPERTIES
  OfferSettles
