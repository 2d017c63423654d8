SPECIFICATION Spec
CONSTANTS
  Threads = {t1, t2}
  SVs = {s1, s2, s3}
  FirstSV = s1
  kSVInUse = kSVInUse
  kSVObsolete = kSVObsolete
  None = None
CHECK_DEADLOCK FALSE
INVARIANTS NoUseAfterFree ReadsAreFresh NoLeak
PROPERTY RetiredIsCleaned
PROPERTY ImplementsPins
