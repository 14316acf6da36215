SPECIFICATION Spec
CONSTANTS
  Reads = {"read"}
  Adjust = "adjust"
  Asks = {"ask"}
  Writes = {"write"}
  BadArguments = "bad"
  Malformed = "json"
  Answers <- SmallAnswers
  Endpoint = {"too_many_requests", "bad_request_context", "garbled"}
  Prompts = {3, 9}
  Outputs = {3, 4}
  Budgets = {3}
  Raised = 4
  Window = 10
  Safety = 1
  Minimum = 1
  MaxIterations = 3
  CallLimit = 2
INVARIANTS ConversationValid NothingHalfExecuted MutatingOnce OutputWithinBudget DutyDone
PROPERTY StepSettles
CHECK_DEADLOCK FALSE
