SPECIFICATION FairSpec
CONSTANTS
  NoFile = NoFile
  Invalid = Invalid
  MaxMessages = 2
  MaxFailures = 1
  MaxCrashes = 1
INVARIANTS
  CheckpointInv
  
PROPERTIES
  FileOnlyAdvances
  ShutdownSavesLast
  FlushedEventually
