\* Four entries by three runs, one clearing in batches of one; tables of four rows; four changes
\* of an event, its projection and the rule's policy, with days of four instants.
CONSTANTS
  Batch = 1
  MaxEntries = 4
  MaxRuns = 3
  MaxClears = 1
  Decisions <- MCDecisions
  None = None
  EventTitles = {"t1", "t2"}
  MaxRows = 4
  Null = "null"
  Titles = {"t1", "t2"}
  GuestLists = {"g1", "g2"}
  MaxListings = 3
  Unknown = Unknown
  EventTimes <- MCTimes
  DayLength = 4
  Window = 5
  Offsets <- MCOffsets
  Zones = {z1, z2}
  MaxChanges = 4
  Nothing = Nothing
SPECIFICATION MCSpec
INVARIANTS ClearingInv QueriesAnswer ChangesAddUp ProjectionsInv ReasonIsTrue
PROPERTIES OpensOnEvidence
CHECK_DEADLOCK FALSE
