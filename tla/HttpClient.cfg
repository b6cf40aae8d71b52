SPECIFICATION FairSpec
CONSTANTS
  Addresses = 2
  Descriptors = 3
  MaxBytes = 3
  MaxCalls = 3
INVARIANTS TypeOK ConnectOutcome WrittenInOrder ShortMeansFatal
PROPERTIES CallsReturn
CHECK_DEADLOCK FALSE
