\* Command lines of up to 3 options, files of up to 3 lines.
CONSTANTS
  Channels <- MCChannels
  Numeral <- MCNumeral
  Arguments <- MCArguments
  Sections <- MCSections
  Entries <- MCEntries
  Environments <- MCEnvironments
  MaxArguments = 3
  MaxLines = 3
SPECIFICATION Spec
INVARIANTS
  TypeOK
  
  InvalidOnlyFromCommandLine
  FailsExactlyForCause
\* The model ends where the component starts or the process exits.
CHECK_DEADLOCK FALSE
