CONSTANTS
  SIZE = 9
  FRAME = 3
  REPLY = 2
  READMAX = 8
  TASKS = 2
  OUTSTANDING = 1
  WORD = 64
  Builds = {FALSE}
SPECIFICATION Spec
INVARIANT AcceptedIsStored
