SPECIFICATION Spec
CONSTANTS
  Callers = {c1, c2}
  Drivers = {c1}
  Users = {c2}
  Operations = {"Advance", "Resume", "Cancel"}
  Stages <- LastStages
  Policy = "KEY_STAGES"
  Segments <- OneLook
  MaxSteps = 2
  MaxReplans = 1
  MaxPlans = 3
  Expires = TRUE
  Faults = {"step"}
INVARIANTS StagesInOrder CompletedAfterAllStages CheckpointRespected CompletedTogether
