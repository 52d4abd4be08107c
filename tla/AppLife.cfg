SPECIFICATION Spec
CONSTANTS
  Installers <- MCInstallers
  MaxTries = 3
  MaxFaults = 2
INVARIANTS
  InstalledIsWhole
  DownForAReason
  OptOutIsKept
PROPERTIES
  InstallEnds
