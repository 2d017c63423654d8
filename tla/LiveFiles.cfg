SPECIFICATION LFSpec
CONSTANTS
  Threads = {t1}
  SVs = {s1, s2, s3}
  FirstSV = s1
  None = None
  Jobs = {j1, j2}
  Backup = Backup
  MaxFile = 3
  MaxDisable = 2
SYMMETRY Symmetry
CONSTRAINT Bounds
CHECK_DEADLOCK FALSE
INVARIANTS ReadersFindTheirFiles OutputsAreKept ListedFilesAreKept NothingForgotten
