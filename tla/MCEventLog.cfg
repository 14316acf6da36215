SPECIFICATION Spec
CONSTANTS
  Task = task
  Steps = {s1}
  Note = note
  Callers = {c1, c2}
  MaxEvents = 6
  MaxCheckpoints = 1
INVARIANTS ReplayGivesState CheckpointNeverAhead
PROPERTIES ImplementsJournal AppendOnly TerminalIsFinal
SYMMETRY CallerSymmetry
CHECK_DEADLOCK FALSE
