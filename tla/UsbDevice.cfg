SPECIFICATION FairSpec
CONSTANTS
  MPS = 64
  REQBUF = 256
  RXBUF = 128
  ABANDONS = 1
  Asks <- MCAsks
  Puts <- MCPuts
  Commands <- MCCommands
INVARIANTS TypeOK Ep0Alive InFull AckedIsDone Listening CommandsDecoded
PROPERTY ControlEnds
