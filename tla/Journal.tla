------------------------------ MODULE Journal ------------------------------
(***************************************************************************)
(* What the store promises: an append-only history of status changes, one  *)
(* at a time, and a materialized status that always is what the history    *)
(* says.  Docs/02 asks for exactly this ("every status change has an       *)
(* event", "event replay gives the materialized task state").              *)
(***************************************************************************)
EXTENDS Naturals, Sequences, TaskStates

CONSTANTS
  Task,       (* the task aggregate                                        *)
  Steps,      (* its steps                                                 *)
  Note        (* the subject of an event that changes no status            *)

VARIABLES
  state,      (* materialized status of each subject                       *)
  history     (* the event history                                         *)

Subjects == {Task} \cup Steps

Row == [subject : Subjects, from : TaskStatus \cup StepStatus,
        to : TaskStatus \cup StepStatus]
       \cup [subject : {Note}]

(* What a caller may ask for: the task moves along the table, a step along *)
(* the calls of the service.                                               *)
Allowed(subject, from, to) ==
  IF subject = Task THEN CanTransition(from, to)
                    ELSE <<from, to>> \in StepMoves

(* A task as CreateTask leaves it: created, planned and ready, its steps    *)
(* pending.                                                                *)
Init ==
  /\ state = [s \in Subjects |-> IF s = Task THEN "READY" ELSE "PENDING"]
  /\ history = <<[subject |-> Note],
                 [subject |-> Task, from |-> "DRAFT", to |-> "PLANNING"],
                 [subject |-> Note],
                 [subject |-> Task, from |-> "PLANNING", to |-> "READY"]>>

(* One status change and its event, together or not at all. *)
Move(subject, to) ==
  /\ Allowed(subject, state[subject], to)
  /\ state' = [state EXCEPT ![subject] = to]
  /\ history' = Append(history, [subject |-> subject,
                                 from |-> state[subject], to |-> to])

(* An event that changes no status: PLAN_CREATED, TOOL_*, AGENT_*.       *)
Annotate ==
  /\ history' = Append(history, [subject |-> Note])
  /\ UNCHANGED state

Next ==
  \/ \E s \in Subjects, to \in TaskStatus \cup StepStatus : Move(s, to)
  \/ Annotate

Spec == Init /\ [][Next]_<<state, history>>
=============================================================================
