SPECIFICATION Spec
CONSTANTS
  t1 = t1
  t2 = t2
  Threads = {t1, t2}
  Rules = {1, 2}
  OfAccount = {1, 2}
  MaxTasks = 3
  MaxWrites = 1
  None = None
CHECK_DEADLOCK FALSE
INVARIANTS
  ChangesWaitForWritesOnly
