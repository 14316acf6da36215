SPECIFICATION Spec
CONSTANTS
  Callers = {c1}
  Drivers = {c1}
  Users = {c1}
  Operations <- AllOperations
  Stages <- FirstStages
  Policy = "KEY_STAGES"
  Segments <- Two
  MaxSteps = 3
  MaxReplans = 1
  MaxPlans = 3
  Expires = FALSE
  Faults = {"model", "step", "store"}
PROPERTY LoopStops
