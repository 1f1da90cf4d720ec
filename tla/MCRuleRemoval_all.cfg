SPECIFICATION FairSpec
CONSTANTS
  e1 = e1
  e2 = e2
  q1 = q1
  q2 = q2
  None = None
  Events = {e1, e2}
  Requests = {q1, q2}
  RetryAttempts = 2
  MaxRequests = 2
  MaxFaults = 2
  MaxEdits = 2
INVARIANTS InterruptionReportsRemaining IncidentWhileIncomplete ReservedFirst
PROPERTIES NothingAbandoned InertOnceRemoving EveryRequestEnds
CHECK_DEADLOCK FALSE
