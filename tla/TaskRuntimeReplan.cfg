SPECIFICATION Spec
CONSTANTS
  Callers = {c1, c2}
  Operations = {"CreateTask", "GeneratePlan", "ReplanTask", "RunModelPlan", "RecoverRunningTask"}
  Shapes <- OneRead
  Criterion = "AGENT_REPORT"
  MaxReplans = 1
  MaxRevisions = 2
INVARIANT OneExecutorPerStep
PROPERTIES ReplanWithinBudget CallsReturn
CHECK_DEADLOCK FALSE
