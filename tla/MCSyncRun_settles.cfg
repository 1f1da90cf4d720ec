\* What runs owe once everybody else is quiet; no symmetry, it is a liveness property.
CONSTANTS
  Events = {e1}
  Slots = {s1, s2, s3}
  Policies <- MCPolicies
  Shown <- MCShown
  Edited = "edited"
  Withheld = "withheld"
  Project <- MCProject
  MaxRev = 1
  Bounds <- MCSettles
  None = None
SPECIFICATION FairSpec
PROPERTIES Settles
