SPECIFICATION FairSpec
CONSTANTS
  Lines <- MCLines
  MaxLineBytes = 2
  MaxWritten = 4
INVARIANT TypeOK
PROPERTIES ReadsAsLines KeepsReading
CHECK_DEADLOCK FALSE
