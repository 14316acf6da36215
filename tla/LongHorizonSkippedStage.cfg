SPECIFICATION Spec
CONSTANTS
  Callers = {c1, c2}
  Drivers = {c1, c2}
  Users = {}
  Operations = {"Advance"}
  Stages <- LastStages
  Policy = "NONE"
  Segments <- OneLook
  MaxSteps = 2
  MaxReplans = 1
  MaxPlans = 3
  Expires = FALSE
  Faults = {}
INVARIANT CompletedAfterAllStages
SYMMETRY Symmetric
