CONSTANTS
  t1 = t1
  t2 = t2
  Threads = {t1, t2}
  Environments <- Several
SPECIFICATION Spec
INVARIANT OutputsAreKept
CHECK_DEADLOCK FALSE
