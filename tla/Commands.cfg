SPECIFICATION Spec
CONSTANTS
  Callers = {c1, c2}
  Operations = {"RunModelStep", "ApprovePendingCommand", "RecoverRunningTask", "ReplanTask"}
  Plans <- OneThenOne
  CommandLines = {"go_test"}
  MaxTickets = 2
INVARIANTS OneRunPerStep RunsAreApproved SuccessIsReal CompletedCommandRan
SYMMETRY CallerSymmetry
CHECK_DEADLOCK FALSE
