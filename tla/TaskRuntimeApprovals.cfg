SPECIFICATION Spec
CONSTANTS
  Callers = {c1, c2}
  Operations = {"CreateTask", "RunTask", "RunModelPlan", "ApprovePendingWrite", "ApprovePendingCommand"}
  Shapes <- Pairs
  Criterion = "AGENT_REPORT"
  MaxReplans = 0
  MaxRevisions = 1
INVARIANTS OneExecutorPerStep WaitingIsApprovable CompletedHasEvidence CompletedWasVerified OneVerifier
PROPERTIES NeverReplayed
SYMMETRY CallerSymmetry
CHECK_DEADLOCK FALSE
