SPECIFICATION FairSpec
CONSTANTS
  o1 = o1
  o2 = o2
  m1 = m1
  m2 = m2
  None = None
  Starts = {o1, o2}
  Masters = {m1, m2}
  Recurs <- MCRecurs
  MaxSource = 2
  Bounds <- MCBounds
CHECK_DEADLOCK FALSE
INVARIANTS SeriesInv
PROPERTIES OccurrenceSteps RunsEnd SeriesSettles
