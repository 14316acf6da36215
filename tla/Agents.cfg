SPECIFICATION Spec
CONSTANTS
  Ids = {1, 2, 3, 4, 5}
  Tools <- ToolRisks
  Writers = {"write_file"}
  Callers = {c1, c2}
  Planned <- SmallPlans
  MaxSteps = 3
  MaxConcurrent = 2
  MaxAssignments = 2
  MaxPlans = 2
SYMMETRY AnyCaller
INVARIANTS OneCallPerAssignment SuccessIsBacked PlanKeepsGoing ReadySetsAgree
CHECK_DEADLOCK FALSE
