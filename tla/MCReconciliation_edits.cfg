\* No failures: people edit both calendars and the policy changes during runs.
CONSTANTS
  Events = {e1}
  Slots = {s1, s2, s3}
  Policies <- MCPolicies
  Shown <- MCShown
  Edited = "edited"
  Withheld = "withheld"
  Project <- MCProject
  MaxRev = 1
  Bounds <- MCEdits
  MaxChecks = 1
  None = None
SPECIFICATION SpecCheck
INVARIANTS NoLostChange OneProjection
PROPERTIES DriftIsDue ReportIsTrue ReprojectionReachesAll KeepsContract
