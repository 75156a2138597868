SPECIFICATION Spec
CONSTANTS
  NoFile = NoFile
  Invalid = Invalid
  MaxMessages = 2
  MaxFailures = 0
  MaxCrashes = 0
INVARIANT
  SnapshotConsistent
