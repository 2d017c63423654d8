CONSTANTS
  t1 = t1
  t2 = t2
  Threads = {t1, t2}
  Environments <- All
SPECIFICATION Spec
INVARIANTS FlushedInOrder JobsOwnTheirMemtables 
PROPERTIES AllFlushed
CHECK_DEADLOCK FALSE
