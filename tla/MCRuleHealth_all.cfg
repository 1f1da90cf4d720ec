\* One rule, the thresholds of the code, four failed runs and four requests.
CONSTANTS
  Rules = {r1}
  Threshold = 3
  Attempts = 3
  MaxFailures = 4
  MaxAdmin = 4
  MaxCuts = 1
  MaxDay = 1
  None = None
SPECIFICATION FairSpec
INVARIANTS IncidentsInv ThirdFailureOpens StoppedIsExplained
PROPERTIES HealthyInTheEnd
CHECK_DEADLOCK FALSE
