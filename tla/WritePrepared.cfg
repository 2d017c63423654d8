CONSTANTS
  r1 = r1
  r2 = r2
  Readers = {r1, r2}
  Starts <- SmallStarts
  MaxSeq = 6
  MaxSubBatches = 2
  MaxBusyReaders = 1
  COMMIT_CACHE_SIZE = 1
  SNAPSHOT_CACHE_SIZE = 1
CHECK_DEADLOCK FALSE
SYMMETRY Symmetry
SPECIFICATION Spec
INVARIANTS SnapshotReadsAreExact GetsAreExact CompactionsAreTold UncommittedAreFound NothingLeftBehind
