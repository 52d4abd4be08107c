SPECIFICATION LinkSpec
CONSTANTS
  Byte <- MCByte
  SigLen = 2
  MinBytes = 2
  MaxBytes = 3
  MaxRead = 2
  Signed <- MCSigned
  Factory <- MCFactory
  Releases <- MCReleases
  Chunk = 2
  Attempts = 3
  Deaths = 2
  Pings = 2
  Beacons = 2
  PowerCuts = 1
INVARIANTS
  FailureEndsSession
  HostSuccessMeansInstalled
PROPERTIES
  GenuineVerifies
  SessionEndsWithHost
CHECK_DEADLOCK FALSE
