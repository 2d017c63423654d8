CONSTANTS
  NoThread = NoThread
  m0 = m0
  m1 = m1
  m2 = m2
  m3 = m3
  Members <- Three
  Leader = m0
  pos <- PosThree
  MinParallelSize = 4
  InsertMayFail = TRUE
  MadeAtStart <- Made
SPECIFICATION FairSpec
INVARIANTS NoTouchAfterReturn CompletedAfterAllInserted ErrorNotLost
