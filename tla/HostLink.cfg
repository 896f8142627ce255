CONSTANTS
  CHUNK = 4
  BUFCOM = 6
  LIMIT = 2
  BUFRX = 64
  LENGTHS = {0, 8, 65}
  COMMANDS = 2
  FRAMES = 3
SPECIFICATION Spec
INVARIANTS TypeOK FramingKept AnswerIsOurs SamplesGoOn GivenUpOnlyAfterMishap
