CONSTANTS
  a = a
  b = b
  CFs = {a, b}
  User = User
  MaxWrites = 3
  MaxWals = 3
  MaxSyncs = 2
SPECIFICATION Spec
SYMMETRY Symmetry
CONSTRAINT Bounds
INVARIANTS SyncedSurvive BatchesWhole NothingLost NoReplayOfFlushed ClaimsAreHeld
CHECK_DEADLOCK FALSE
