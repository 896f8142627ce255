CONSTANTS
  SIZE = 9
  FRAME = 3
  REPLY = 2
  READMAX = 8
  TASKS = 2
  OUTSTANDING = 1
  WORD = 64
  Builds = {TRUE, FALSE}
SPECIFICATION FairSpec
INVARIANTS TypeOK AcceptedUnlessRaced NothingRefused
PROPERTIES WholeBlocksUnlessRaced ReplyDelivered
