SPECIFICATION Spec
CONSTANTS
  w1 = w1
  w2 = w2
  w3 = w3
  w4 = w4
  Null = Null
  StallDummy = StallDummy
  Writers <- Two
  Databases <- Live
  MaxGroupBytes = 32
  MaxOps = 3
  MaxSequence = 6
  Counts = {0, 1, 2}

PROPERTY EveryWriteReturns
