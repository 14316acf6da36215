SPECIFICATION Spec
CONSTANTS
  Callers = {c1, c2}
  Operations = {"RunModelStep", "ApprovePendingWrite", "WriteFile", "RecoverRunningTask"}
  Paths = {"p", "q"}
  Contents = {"old", "new"}
  ABSENT = "ABSENT"
  Original <- AllOld
  Batches <- OneOrTwo
  MaxTickets = 2
  MaxEdits = 1
INVARIANTS OneTicketPerWrite RecordedBeforeWritten SucceededMeansWritten CompletedBatchWritten
PROPERTY ImplementsApprovedWrites
SYMMETRY CallerSymmetry
CHECK_DEADLOCK FALSE
