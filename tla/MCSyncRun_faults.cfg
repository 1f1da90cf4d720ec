\* Two events in one batch, a calendar that can be full, and a failure or lost answer at any step.
CONSTANTS
  Events = {e1, e2}
  Slots = {s1, s2}
  Policies <- MCPolicies
  Shown <- MCShown
  Edited = "edited"
  Withheld = "withheld"
  Project <- MCProject
  MaxRev = 1
  Bounds <- MCFaults
  None = None
SYMMETRY Symmetric
SPECIFICATION Spec
INVARIANTS NoLostChange MappingsApart OneCreatePerRevision
