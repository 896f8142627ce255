CONSTANTS
  CHUNK = 3
  BUFCOM = 5
  LIMIT = 2
  BUFRX = 64
  LENGTHS = {0, 8, 65}
  COMMANDS = 1
  FRAMES = 1
SPECIFICATION Spec
INVARIANT InputIsBuffered
