CONSTANTS
  MPS = 2
  READMAX = 5
  TOTAL = 9
  ABORTS = 2
SPECIFICATION FairSpec
INVARIANTS TypeOK OneTransferAtATime StreamInOrder EndsShort StuckOnlyAfterAbort
PROPERTY Delivered
CHECK_DEADLOCK FALSE
