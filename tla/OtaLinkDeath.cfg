SPECIFICATION LinkSpec
CONSTANTS
  Byte <- MCByte
  SigLen = 2
  MinBytes = 2
  MaxBytes = 3
  MaxRead = 2
  Signed <- MCSigned
  Factory <- MCFactory
  Releases <- MCReleases
  Chunk = 2
  Attempts = 2
  Deaths = 1
  Pings = 0
  Beacons = 0
  PowerCuts = 0
PROPERTY SessionEnds
CHECK_DEADLOCK FALSE
