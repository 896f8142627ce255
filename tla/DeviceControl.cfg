CONSTANTS
  FREQ_MIN = 512000
  FREQ_MAX = 96000000
  FREQ_BOOT = 24576000
  Freqs = {511999, 1280000, 1280001, 2048000, 2048001, 4096000, 4096001, 9999872, 9999873, 33792000, 33792001, 96000001}
  Chnls = {0, 1, 3, 4}
  Firmwares = {TRUE, FALSE}
SPECIFICATION Spec
INVARIANTS TypeOK StartedRuns PllAsCached PllInTune AnswerIsTrue
PROPERTY RepeatIsHarmless
