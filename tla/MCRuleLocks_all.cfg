SPECIFICATION FairSpec
CONSTANTS
  t1 = t1
  t2 = t2
  Threads = {t1, t2}
  Rules = {1, 2}
  OfAccount = {1, 2}
  MaxTasks = 4
  MaxWrites = 1
  None = None
CHECK_DEADLOCK FALSE
INVARIANTS
  CompactsAlone
  NoRuleOutlivesAccount
PROPERTIES
  PurgedUndisturbed
  RemovalStands
  EveryTaskEnds
