------------------------------ MODULE Commands ------------------------------
(***************************************************************************)
(* A project command in EDIT mode (internal/app/service.go): a step        *)
(* proposes it, the user approves it, ApprovePendingCommand runs it as a   *)
(* child process under a one-use ticket and a durable intent.  One task,   *)
(* its plan revisions and their steps.                                     *)
(*                                                                         *)
(* A child process is not the call that started it: it may exit long after *)
(* the call is gone, and its exit code may reach nobody.  A call ends      *)
(* after any statement: Abort.                                             *)
(***************************************************************************)
EXTENDS Naturals, Sequences, TaskStates

CONSTANTS
  Callers,      (* calls that may be in flight together                    *)
  Operations,   (* the service methods they call                           *)
  Plans,        (* step ids of each plan revision                          *)
  CommandLines, (* what models propose: allowlisted command and arguments  *)
  MaxTickets    (* bound: no ticket is issued beyond it                    *)

Revisions == DOMAIN Plans
Steps == UNION {Plans[r] : r \in Revisions}

(* plan.Validate wants a step, task.NewID gives every plan its own steps    *)
ASSUME PlansAreDisjoint ==
  /\ Len(Plans) \in Nat \ {0} /\ DOMAIN Plans = 1..Len(Plans)
  /\ \A r \in Revisions : Plans[r] # {}
  /\ \A r, q \in Revisions : r # q => Plans[r] \cap Plans[q] = {}

NONE == "NONE"

ASSUME NoneIsNoCommand == NONE \notin CommandLines

ASSUME BoundNat == MaxTickets \in Nat

VARIABLES
  task, latest,  (* tasks.status and the latest plan revision              *)
  steps,         (* steps.status                                           *)
  pending,       (* the PENDING_COMMAND artifact of a step                 *)
  tickets,       (* approvals, oldest first                                *)
  intents,       (* tool_calls: status of every <<step, command>> recorded *)
  results,       (* steps with a COMMAND_RESULT artifact                   *)
  attached,      (* what a step's artifact and evidence ids name           *)
  runs,          (* the child processes, in the order they were started    *)
  pc, rev, seen, step, command, run, result   (* the calls                 *)

plan    == <<task, latest, steps>>
records == <<pending, tickets, intents, results, attached>>
locals  == <<pc, rev, seen, step, command, run, result>>
vars    == <<plan, records, runs, locals>>

AllOperations ==
  {"RunModelStep", "ApprovePendingCommand", "RecoverRunningTask", "ReplanTask"}

ASSUME OperationsKnown == Operations \subseteq AllOperations

To(c, label) == pc' = [pc EXCEPT ![c] = label]

Goto(c, label) ==
  To(c, label) /\ UNCHANGED <<rev, seen, step, command, run, result>>

(* the call goes on with its step and has no more use for the rest          *)
Proceed(c, label) ==
  /\ To(c, label)
  /\ seen' = [seen EXCEPT ![c] = NONE]
  /\ command' = [command EXCEPT ![c] = NONE]
  /\ run' = [run EXCEPT ![c] = 0]
  /\ result' = [result EXCEPT ![c] = NONE]
  /\ UNCHANGED <<rev, step>>

Return(c) ==
  /\ To(c, "idle")
  /\ rev' = [rev EXCEPT ![c] = 1]
  /\ seen' = [seen EXCEPT ![c] = NONE]
  /\ step' = [step EXCEPT ![c] = NONE]
  /\ command' = [command EXCEPT ![c] = NONE]
  /\ run' = [run EXCEPT ![c] = 0]
  /\ result' = [result EXCEPT ![c] = NONE]

\* Mutant: the UPDATE without AND status = from.
StepSet(s, from, to) ==
  steps' = [steps EXCEPT ![s] = to] /\ UNCHANGED <<task, latest>>

(* TransitionTask, TransitionStep: UPDATE ... WHERE status = from           *)
TaskCAS(from, to) == task = from /\ task' = to /\ UNCHANGED <<latest, steps>>

StepCAS(s, from, to) ==
  /\ steps[s] = from
  /\ steps' = [steps EXCEPT ![s] = to]
  /\ UNCHANGED <<task, latest>>

Intent(c) == <<step[c], command[c]>>

Init ==
  /\ task = "READY" /\ latest = 1
  /\ steps = [s \in Steps |-> "PENDING"]
  /\ pending = [s \in Steps |-> NONE]
  /\ tickets = << >> /\ intents = << >> /\ runs = << >>
  /\ results = {} /\ attached = [s \in Steps |-> NONE]
  /\ pc = [c \in Callers |-> "idle"]
  /\ rev = [c \in Callers |-> 1]
  /\ seen = [c \in Callers |-> NONE]
  /\ step = [c \in Callers |-> NONE]
  /\ command = [c \in Callers |-> NONE]
  /\ run = [c \in Callers |-> 0]
  /\ result = [c \in Callers |-> NONE]

----
Call(c, o) ==
  /\ pc[c] = "idle"
  /\ Goto(c, CASE o = "RunModelStep"          -> "pick"
                [] o = "ApprovePendingCommand" -> "load_task"
                [] o = "RecoverRunningTask"    -> "pause"
                [] o = "ReplanTask"            -> "replan")
  /\ UNCHANGED <<plan, records, runs>>

(* return err, a dead process; a child that was started goes on alone       *)
Abort(c) ==
  /\ pc[c] # "idle"
  /\ Return(c)
  /\ UNCHANGED <<plan, records, runs>>

(* RecoverRunningTask                                                       *)
PauseTask(c) ==
  /\ pc[c] = "pause"
  /\ TaskCAS("RUNNING", "PAUSED")
  /\ Return(c)
  /\ UNCHANGED <<records, runs>>

(* ReplanTask: of a task that was PAUSED when it was read; the new plan,    *)
(* whose revision no other plan may have, and then the status               *)
LoadPaused(c) ==
  /\ pc[c] = "replan"
  /\ task = "PAUSED"
  /\ rev' = [rev EXCEPT ![c] = latest]
  /\ To(c, "store_plan")
  /\ UNCHANGED <<plan, records, runs, seen, step, command, run, result>>

StorePlan(c) ==
  /\ pc[c] = "store_plan"
  /\ rev[c] = latest /\ latest + 1 \in Revisions
  /\ latest' = latest + 1
  /\ Goto(c, "ready_task")
  /\ UNCHANGED <<task, steps, records, runs>>

ReadyTask(c) ==
  /\ pc[c] = "ready_task"
  /\ TaskCAS("PAUSED", "READY")
  /\ Return(c)
  /\ UNCHANGED <<records, runs>>

----
(* RunModelStep: a ready step of the latest plan, claimed                   *)
PickStep(c) ==
  /\ pc[c] = "pick"
  /\ task \in {"READY", "RUNNING"}
  /\ \E s \in Plans[latest] :
       /\ steps[s] \in {"PENDING", "READY"}
       /\ step' = [step EXCEPT ![c] = s]
       /\ seen' = [seen EXCEPT ![c] = steps[s]]
  /\ rev' = [rev EXCEPT ![c] = latest]
  /\ To(c, IF task = "READY" THEN "start_task"
           ELSE IF seen'[c] = "PENDING" THEN "ready_step" ELSE "claim_step")
  /\ UNCHANGED <<plan, records, runs, command, run, result>>

StartTask(c) ==
  /\ pc[c] = "start_task"
  /\ TaskCAS("READY", "RUNNING")
  /\ Goto(c, IF seen[c] = "PENDING" THEN "ready_step" ELSE "claim_step")
  /\ UNCHANGED <<records, runs>>

ReadyStep(c) ==
  /\ pc[c] = "ready_step"
  /\ StepCAS(step[c], "PENDING", "READY")
  /\ Proceed(c, "claim_step")
  /\ UNCHANGED <<records, runs>>

ClaimStep(c) ==
  /\ pc[c] = "claim_step"
  /\ StepCAS(step[c], "READY", "RUNNING")
  /\ Goto(c, "turn")
  /\ UNCHANGED <<records, runs>>

(* AttachStepResults: the new ids replace the old ones                      *)
Attach(c, kind) ==
  /\ attached' = [attached EXCEPT ![step[c]] = kind]
  /\ UNCHANGED <<plan, pending, tickets, intents, results, runs>>

(* The model's turn and persistAgentReport: a proposal, an error, or text   *)
ProposeCommand(c) ==
  /\ pc[c] = "turn"
  /\ Attach(c, "AGENT_REPORT")
  /\ \E k \in CommandLines : command' = [command EXCEPT ![c] = k]
  /\ To(c, "save_pending")
  /\ UNCHANGED <<rev, seen, step, run, result>>

TurnFails(c) ==
  /\ pc[c] = "turn"
  /\ Attach(c, "AGENT_REPORT")
  /\ Proceed(c, "fail_step")

Report(c) ==
  /\ pc[c] = "turn"
  /\ Attach(c, "AGENT_REPORT")
  /\ Goto(c, "verify_step")

SavePending(c) ==
  /\ pc[c] = "save_pending"
  /\ pending' = [pending EXCEPT ![step[c]] = command[c]]
  /\ Proceed(c, "park_step")
  /\ UNCHANGED <<plan, tickets, intents, results, attached, runs>>

ParkStep(c) ==
  /\ pc[c] = "park_step"
  /\ StepCAS(step[c], "RUNNING", "WAITING_APPROVAL")
  /\ Goto(c, "park_task")
  /\ UNCHANGED <<records, runs>>

ParkTask(c) ==
  /\ pc[c] = "park_task"
  /\ TaskCAS("RUNNING", "WAITING_APPROVAL")
  /\ Return(c)
  /\ UNCHANGED <<records, runs>>

----
(* ApprovePendingCommand: the task waits, the step the user names has a     *)
(* stored proposal, is in the latest plan and waits; three reads.           *)
LoadTask(c) ==
  /\ pc[c] = "load_task"
  /\ task = "WAITING_APPROVAL"
  /\ Goto(c, "load_pending")
  /\ UNCHANGED <<plan, records, runs>>

LoadPending(c) ==
  /\ pc[c] = "load_pending"
  /\ \E s \in Steps :
       /\ pending[s] # NONE
       /\ step' = [step EXCEPT ![c] = s]
       /\ command' = [command EXCEPT ![c] = pending[s]]
  /\ To(c, "load_step")
  /\ UNCHANGED <<plan, records, runs, rev, seen, run, result>>

LoadStep(c) ==
  /\ pc[c] = "load_step"
  /\ step[c] \in Plans[latest]
  /\ steps[step[c]] = "WAITING_APPROVAL"
  /\ rev' = [rev EXCEPT ![c] = latest]
  /\ To(c, "approve")
  /\ UNCHANGED <<plan, records, runs, seen, step, command, run, result>>

(* one use, for this step and exactly this command                          *)
IssueTicket(c) ==
  /\ pc[c] = "approve"
  /\ Len(tickets) < MaxTickets
  /\ tickets' = Append(tickets,
       [step |-> step[c], command |-> command[c], state |-> "usable"])
  /\ Goto(c, "resume_task")
  /\ UNCHANGED <<plan, pending, intents, results, attached, runs>>

ResumeTask(c) ==
  /\ pc[c] = "resume_task"
  /\ TaskCAS("WAITING_APPROVAL", "RUNNING")
  /\ Goto(c, "resume_step")
  /\ UNCHANGED <<records, runs>>

ResumeStep(c) ==
  /\ pc[c] = "resume_step"
  /\ StepCAS(step[c], "WAITING_APPROVAL", "RUNNING")
  /\ Goto(c, "intent")
  /\ UNCHANGED <<records, runs>>

----
(* executeProjectCommand.  RecordToolIntentWithEvent: a recorded intent     *)
(* keeps its row, and its status is not looked at.                          *)
RecordIntent(c) ==
  /\ pc[c] = "intent"
  /\ intents' = [i \in DOMAIN intents \cup {Intent(c)} |->
                   IF i \in DOMAIN intents THEN intents[i]
                                           ELSE "INTENT_RECORDED"]
  /\ Goto(c, "consume")
  /\ UNCHANGED <<plan, pending, tickets, results, attached, runs>>

\* Mutant: the UPDATE without AND step_id = ?.
TicketsOfCommand(c) ==
  {t \in DOMAIN tickets :
     tickets[t].command = command[c] /\ tickets[t].state = "usable"}

(* ConsumeApproval: the oldest usable ticket of this step and command.  The *)
(* child process is started right after.                                    *)
Usable(c) ==
  {t \in DOMAIN tickets :
     tickets[t] = [step |-> step[c], command |-> command[c], state |-> "usable"]}

ConsumeTicket(c) ==
  /\ pc[c] = "consume"
  /\ \E t \in Usable(c) :
       /\ \A u \in Usable(c) : t <= u
       /\ tickets' = [tickets EXCEPT ![t].state = "used"]
       /\ run' = [run EXCEPT ![c] = t]
  /\ To(c, "start")
  /\ UNCHANGED <<plan, pending, intents, results, attached, runs>>
  /\ UNCHANGED <<rev, seen, step, command, result>>

(* No usable ticket: the answer is FAILED and names no record, so nothing   *)
(* is marked (ToolCallID == "").                                            *)
TicketRefused(c) ==
  /\ pc[c] = "consume"
  /\ Proceed(c, "fail_step")
  /\ UNCHANGED <<plan, records, runs>>

(* runFixedCommand starts a process, or cannot                              *)
StartProcess(c) ==
  /\ pc[c] = "start"
  /\ runs' = Append(runs, [step |-> step[c], command |-> command[c],
                           ticket |-> run[c], exit |-> "running"])
  /\ run' = [run EXCEPT ![c] = Len(runs')]
  /\ To(c, "wait")
  /\ UNCHANGED <<plan, records, rev, seen, step, command, result>>

Answer(c, status) ==
  /\ result' = [result EXCEPT ![c] = status]
  /\ To(c, "update")
  /\ UNCHANGED <<rev, seen, step, command, run>>

StartFails(c) ==
  /\ pc[c] = "start"
  /\ Answer(c, "FAILED")
  /\ UNCHANGED <<plan, records, runs>>

(* the operating system: a process exits by itself or is killed, as it is   *)
(* when the deadline or the context of a call that still waits is over      *)
ProcessExits(r) ==
  /\ runs[r].exit = "running"
  /\ \E code \in {"zero", "nonzero"} :
       runs' = [runs EXCEPT ![r].exit = code]
  /\ UNCHANGED <<plan, records, locals>>

\* Mutant: the exit code is not compared.
CollectAny(c) ==
  /\ pc[c] = "wait"
  /\ runs[run[c]].exit # "running"
  /\ \E status \in {"SUCCEEDED", "FAILED"} : Answer(c, status)
  /\ UNCHANGED <<plan, records, runs>>

(* runProjectCommand: zero is a success, unless the deadline has passed by  *)
(* then or there was too much output                                        *)
Collect(c) ==
  /\ pc[c] = "wait"
  /\ runs[run[c]].exit # "running"
  /\ \E status \in {"SUCCEEDED", "FAILED"} :
       /\ status = "SUCCEEDED" => runs[run[c]].exit = "zero"
       /\ Answer(c, status)
  /\ UNCHANGED <<plan, records, runs>>

Mark(c, status) ==
  intents' = [i \in DOMAIN intents |->
                IF i = Intent(c) THEN status ELSE intents[i]]

UpdateStatus(c) ==
  /\ pc[c] = "update"
  /\ Mark(c, result[c])
  /\ Proceed(c, IF result[c] = "SUCCEEDED" THEN "save_result" ELSE "fail_step")
  /\ UNCHANGED <<plan, pending, tickets, results, attached, runs>>

\* Mutant: an intent whose status cannot be stored is only logged.
StatusIgnored(c) ==
  /\ pc[c] \in {"intent", "update"}
  /\ Proceed(c, IF result[c] = "SUCCEEDED" THEN "save_result" ELSE "fail_step")
  /\ UNCHANGED <<plan, records, runs>>

(* the intent or its status cannot be stored: runErr                        *)
ExecuteFails(c) ==
  /\ pc[c] \in {"intent", "update"}
  /\ Proceed(c, "fail_step")
  /\ UNCHANGED <<plan, records, runs>>

(* persistCommandResult: the artifact and its evidence, then their ids      *)
SaveResult(c) ==
  /\ pc[c] = "save_result"
  /\ results' = results \cup {step[c]}
  /\ Goto(c, "attach")
  /\ UNCHANGED <<plan, pending, tickets, intents, attached, runs>>

AttachResult(c) ==
  /\ pc[c] = "attach"
  /\ Attach(c, "COMMAND_RESULT")
  /\ Goto(c, "verify_step")

----
(* completeModelStep up to VerifyTask (see TaskRuntime)                     *)
VerifyStep(c) ==
  /\ pc[c] = "verify_step"
  /\ StepCAS(step[c], "RUNNING", "VERIFYING")
  /\ Goto(c, "complete_step")
  /\ UNCHANGED <<records, runs>>

CompleteStep(c) ==
  /\ pc[c] = "complete_step"
  /\ StepCAS(step[c], "VERIFYING", "COMPLETED")
  /\ Goto(c, "check_steps")
  /\ UNCHANGED <<records, runs>>

CheckSteps(c) ==
  /\ pc[c] = "check_steps"
  /\ IF \A s \in Plans[rev[c]] : steps[s] \in StepTerminal
     THEN Goto(c, "verify_task") ELSE Return(c)
  /\ UNCHANGED <<plan, records, runs>>

MoveToVerifying(c) ==
  /\ pc[c] = "verify_task"
  /\ TaskCAS("RUNNING", "VERIFYING")
  /\ Return(c)
  /\ UNCHANGED <<records, runs>>

(* _ = transition...: whatever becomes of the write, the call goes on.      *)
FailStep(c) ==
  /\ pc[c] = "fail_step"
  /\ StepCAS(step[c], "RUNNING", "FAILED") \/ UNCHANGED plan
  /\ Goto(c, "fail_task")
  /\ UNCHANGED <<records, runs>>

FailTask(c) ==
  /\ pc[c] = "fail_task"
  /\ TaskCAS("RUNNING", "FAILED") \/ UNCHANGED plan
  /\ Return(c)
  /\ UNCHANGED <<records, runs>>

ExpireTicket(t) ==
  /\ tickets[t].state = "usable"
  /\ tickets' = [tickets EXCEPT ![t].state = "expired"]
  /\ UNCHANGED <<plan, pending, intents, results, attached, runs, locals>>

Continue(c) ==
  \/ PauseTask(c) \/ LoadPaused(c) \/ StorePlan(c) \/ ReadyTask(c)
  \/ PickStep(c) \/ StartTask(c) \/ ReadyStep(c) \/ ClaimStep(c)
  \/ ProposeCommand(c) \/ TurnFails(c) \/ Report(c) \/ SavePending(c)
  \/ ParkStep(c) \/ ParkTask(c) \/ LoadTask(c) \/ LoadPending(c)
  \/ LoadStep(c) \/ IssueTicket(c) \/ ResumeTask(c) \/ ResumeStep(c)
  \/ RecordIntent(c) \/ ConsumeTicket(c) \/ TicketRefused(c)
  \/ StartProcess(c) \/ StartFails(c) \/ Collect(c) \/ UpdateStatus(c)
  \/ ExecuteFails(c) \/ SaveResult(c) \/ AttachResult(c) \/ VerifyStep(c)
  \/ CompleteStep(c) \/ CheckSteps(c) \/ MoveToVerifying(c)
  \/ FailStep(c) \/ FailTask(c)

Next ==
  \/ \E c \in Callers :
       \/ \E o \in Operations : Call(c, o)
       \/ Continue(c)
       \/ Abort(c)
  \/ \E r \in DOMAIN runs : ProcessExits(r)
  \/ \E t \in DOMAIN tickets : ExpireTicket(t)

Spec == Init /\ [][Next]_vars

----
Label ==
  {"idle", "pause", "replan", "store_plan", "ready_task", "pick",
   "start_task", "ready_step", "claim_step", "turn", "save_pending",
   "park_step", "park_task", "load_task", "load_pending", "load_step",
   "approve", "resume_task", "resume_step", "intent", "consume", "start",
   "wait", "update", "save_result", "attach", "verify_step",
   "complete_step", "check_steps", "verify_task", "fail_step", "fail_task"}

Ticket == [step : Steps, command : CommandLines,
           state : {"usable", "used", "expired"}]
Process == [step : Steps, command : CommandLines, ticket : Nat,
            exit : {"running", "zero", "nonzero"}]

StoreTypes ==
  /\ task \in TaskStatus /\ latest \in Revisions
  /\ steps \in [Steps -> StepStatus]
  /\ pending \in [Steps -> CommandLines \cup {NONE}]
  /\ tickets \in Seq(Ticket) /\ runs \in Seq(Process)
  /\ DOMAIN intents \subseteq Steps \X CommandLines
  /\ \A i \in DOMAIN intents :
       intents[i] \in {"INTENT_RECORDED", "SUCCEEDED", "FAILED"}
  /\ results \subseteq Steps
  /\ attached \in [Steps -> {"AGENT_REPORT", "COMMAND_RESULT", NONE}]

CallTypes ==
  /\ pc \in [Callers -> Label]
  /\ rev \in [Callers -> Revisions]
  /\ seen \in [Callers -> {"PENDING", "READY", NONE}]
  /\ step \in [Callers -> Steps \cup {NONE}]
  /\ command \in [Callers -> CommandLines \cup {NONE}]
  /\ run \in [Callers -> Nat]
  /\ result \in [Callers -> {"SUCCEEDED", "FAILED", NONE}]

TypeOK == StoreTypes /\ CallTypes

(* Docs/12: a running action is never replayed after an interruption.       *)
(* Whatever approvals race, are cut off or come late, and whatever is       *)
(* recovered and replanned, the command of a step is started once at most.  *)
OneRunPerStep ==
  \A j, k \in DOMAIN runs : runs[j].step = runs[k].step => j = k

(* Docs/11: first the one-use ticket bound to the arguments and the durable *)
(* intent, then the very command that was proposed.  Every process that was *)
(* ever started has a used ticket of its own, for its step and command, and *)
(* its intent on record.                                                    *)
RunsAreApproved ==
  \A k \in DOMAIN runs :
    /\ runs[k].ticket \in DOMAIN tickets
    /\ tickets[runs[k].ticket] =
         [step |-> runs[k].step, command |-> runs[k].command, state |-> "used"]
    /\ \A j \in DOMAIN runs : runs[j].ticket = runs[k].ticket => j = k
    /\ pending[runs[k].step] = runs[k].command
    /\ <<runs[k].step, runs[k].command>> \in DOMAIN intents

ExitedZero(s) ==
  \E k \in DOMAIN runs : runs[k].step = s /\ runs[k].exit = "zero"

(* What the records call a success was one: an intent that is SUCCEEDED and *)
(* a stored result belong to a process that exited zero.  (The converse     *)
(* does not hold: a deadline, a crash or too much output loses a success.)  *)
SuccessIsReal ==
  /\ \A i \in DOMAIN intents : intents[i] = "SUCCEEDED" => ExitedZero(i[1])
  /\ \A s \in results : ExitedZero(s)

(* A step that proposed a command passes to verification only when the      *)
(* command was approved, exited zero, and its intent and its evidence say   *)
(* so.                                                                      *)
CompletedCommandRan ==
  \A s \in Steps :
    pending[s] # NONE /\ steps[s] \in {"VERIFYING", "COMPLETED"} =>
      /\ ExitedZero(s)
      /\ intents[<<s, pending[s]>>] = "SUCCEEDED"
      /\ s \in results /\ attached[s] = "COMMAND_RESULT"
=============================================================================
