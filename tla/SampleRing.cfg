SPECIFICATION FairSpec
CONSTANTS
  SIZE = 10
  FRAME = 4
  WIDTH = 2
  MAXSAMPLES = 3
  TOTAL = 12
  MISREAD = {3}
INVARIANTS TypeOK ChartInOrder PairsKept
PROPERTY ChartEnds
