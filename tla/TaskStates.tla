----------------------------- MODULE TaskStates -----------------------------
(***************************************************************************)
(* The two status vocabularies of pkg/contracts/types.go and the task      *)
(* transition table of internal/task/state.go.  Every other module reads   *)
(* them from here.                                                         *)
(***************************************************************************)

TaskStatus ==
  {"DRAFT", "PLANNING", "READY", "RUNNING", "WAITING_APPROVAL",
   "WAITING_USER", "VERIFYING", "COMPLETED", "FAILED", "BLOCKED",
   "PAUSED", "CANCELLED"}

(* TaskStatus.Terminal *)
TaskTerminal == {"COMPLETED", "FAILED", "BLOCKED", "CANCELLED"}

StepStatus ==
  {"PENDING", "READY", "RUNNING", "WAITING_APPROVAL", "WAITING_USER",
   "VERIFYING", "COMPLETED", "FAILED", "BLOCKED", "SKIPPED",
   "SUPERSEDED", "CANCELLED"}

(* StepStatus.Terminal *)
StepTerminal ==
  {"COMPLETED", "FAILED", "BLOCKED", "SKIPPED", "SUPERSEDED", "CANCELLED"}

(* The destinations the table allows from each status; a status the Go map *)
(* has no key for allows none.                                             *)
Successors(from) ==
  CASE from = "DRAFT"            -> {"PLANNING", "CANCELLED"}
    [] from = "PLANNING"         -> {"READY", "WAITING_USER", "FAILED",
                                     "CANCELLED"}
    [] from = "READY"            -> {"RUNNING", "PAUSED", "CANCELLED"}
    [] from = "RUNNING"          -> {"VERIFYING", "WAITING_APPROVAL",
                                     "WAITING_USER", "PAUSED", "BLOCKED",
                                     "FAILED", "CANCELLED"}
    [] from = "VERIFYING"        -> {"COMPLETED", "RUNNING", "FAILED",
                                     "WAITING_USER"}
    [] from = "WAITING_APPROVAL" -> {"RUNNING", "PAUSED", "CANCELLED"}
    [] from = "WAITING_USER"     -> {"PLANNING", "RUNNING", "PAUSED",
                                     "CANCELLED"}
    [] from = "PAUSED"           -> {"READY", "RUNNING", "CANCELLED"}
    [] OTHER                     -> {}

(* CanTransition, and the guard of ValidateTransition *)
CanTransition(from, to) == to \in Successors(from)

(* The (from, to) pairs the service passes to transitionStep: a step has   *)
(* no transition table, so these calls are its whole lifecycle.            *)
StepMoves ==
  {<<"PENDING", "READY">>, <<"READY", "RUNNING">>,
   <<"RUNNING", "VERIFYING">>, <<"VERIFYING", "COMPLETED">>,
   <<"RUNNING", "WAITING_APPROVAL">>, <<"WAITING_APPROVAL", "RUNNING">>,
   <<"RUNNING", "WAITING_USER">>, <<"WAITING_USER", "FAILED">>,
   <<"RUNNING", "FAILED">>}
=============================================================================
