CONSTANTS
  NoThread = NoThread
  m0 = m0
  m1 = m1
  m2 = m2
  m3 = m3
  Members <- Four
  Leader = m0
  pos <- PosFour
  MinParallelSize = 4
  InsertMayFail = FALSE
  MadeAtStart <- NotMade
SPECIFICATION FairSpec
INVARIANTS
  SetStateMutexMade
PROPERTY EveryoneReturns
