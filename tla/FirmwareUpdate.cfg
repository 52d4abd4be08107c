SPECIFICATION Spec
CONSTANTS
  Byte <- MCByte
  SigLen = 2
  MinBytes = 2
  MaxBytes = 3
  MaxRead = 2
  Signed <- MCSigned
  Factory <- MCFactory
INVARIANTS
  TypeOK
  SessionOwnsUpdate
  SessionWantsMore
  OnlySignedBoots
PROPERTIES
  InstallIsWhole
  FailedSessionReleasesUpdate
  SignedUpdateSpec
