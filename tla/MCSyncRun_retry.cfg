\* One lost answer, and the source changes before the retry.
CONSTANTS
  Events = {e1}
  Slots = {s1, s2, s3}
  Policies <- MCPolicies
  Shown <- MCShown
  Edited = "edited"
  Withheld = "withheld"
  Project <- MCProject
  MaxRev = 1
  Bounds <- MCFaults
  None = None
SPECIFICATION Spec
INVARIANTS OneProjection
