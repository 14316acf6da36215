---------------------------- MODULE TaskRuntime ----------------------------
(***************************************************************************)
(* One single-plan task and the service calls that drive it                *)
(* (internal/app/service.go over internal/storage/store.go): creation,     *)
(* planning and replanning, the deterministic and the model runner,        *)
(* approvals, verification and recovery.                                   *)
(*                                                                         *)
(* Nothing serializes the calls: each reads the task, its latest plan and  *)
(* the steps in separate queries and then writes one row at a time, every  *)
(* status write being UPDATE ... WHERE status = from (with its event, see  *)
(* EventLog; here the event is part of the write).  A call may end after   *)
(* any of its statements, because a statement failed, the context was      *)
(* cancelled or the process died: action Abort.  Checkpoints only read the *)
(* state of this module, so a checkpoint is not a step of its own; its     *)
(* failure is an Abort too.                                                *)
(***************************************************************************)
EXTENDS Naturals, Sequences, TaskStates

CONSTANTS
  Callers,       (* service calls that may be in flight together           *)
  Operations,    (* the service methods they call                          *)
  Shapes,        (* the plans a planner may return                         *)
  Criterion,     (* evidence kind the task's acceptance criterion asks for *)
  MaxReplans,    (* task budget                                            *)
  MaxRevisions   (* bound: GeneratePlan stops at this many revisions       *)

(* A plan is its steps in step-id order, the order ReadySteps returns: what *)
(* a step risks, and the steps it depends on.  plan.Validate has accepted   *)
(* it: one step at least, dependencies inside the plan and acyclic.         *)
ASSUME ShapesArePlans ==
  \A shape \in Shapes :
    /\ shape \in Seq([risk : {"READ", "WRITE"}, needs : SUBSET Nat])
    /\ Len(shape) > 0
    /\ \A i \in DOMAIN shape : shape[i].needs \subseteq DOMAIN shape \ {i}

AllOperations ==
  {"CreateTask", "GeneratePlan", "ReplanTask", "RunTask", "RunModelPlan",
   "ApprovePendingWrite", "ApprovePendingCommand", "RecoverRunningTask"}

ASSUME OperationsKnown == Operations \subseteq AllOperations

ASSUME BudgetsNat == MaxReplans \in Nat /\ MaxRevisions \in Nat \ {0}

VARIABLES
  (* the store *)
  status,        (* tasks.status; NONE before the row exists               *)
  plans,         (* plan_versions, revision n at position n                *)
  steps,         (* steps.status of every step of every revision           *)
  evidence,      (* evidence rows, each with its artifact                  *)
  attached,      (* steps with evidence ids attached                       *)
  pending,       (* PENDING_WRITE and PENDING_COMMAND artifacts            *)
  finals,        (* "passed" of the FINAL_REPORT artifacts                 *)
  (* the calls *)
  pc, op, seen, rev, step, was, after, passed

store  == <<status, plans, steps, evidence, attached, pending, finals>>
locals == <<pc, op, seen, rev, step, was, after, passed>>
vars   == <<store, locals>>

NONE == "NONE"
NoStep == <<0, 0>>

EvidenceKind == {"AGENT_REPORT", "RECON_REPORT", "COMMAND_RESULT"}
PendingKind == {"PENDING_WRITE", "PENDING_COMMAND"}

Label ==
  {"idle", "insert", "to_planning", "create_plan", "to_ready", "snapshot",
   "load_task", "load_plan", "load_steps", "start_task", "stage", "claim",
   "execute", "resume_task", "resume_step", "write", "save_report", "attach",
   "save_pending", "wait_step", "wait_task", "ask_step", "ask_task",
   "fail_step", "fail_task", "verify_step", "complete_step", "look",
   "verify_task", "verify", "save_final", "decide", "pause"}

(* task statuses each operation accepts when it loads the task *)
Accepts(o) ==
  CASE o = "RunTask"            -> {"READY"}
    [] o = "RunModelPlan"       -> {"READY", "RUNNING"}
    [] o = "ReplanTask"         -> {"PAUSED"}
    [] o = "RecoverRunningTask" -> {"RUNNING"}
    [] o \in {"ApprovePendingWrite", "ApprovePendingCommand"} ->
         {"WAITING_APPROVAL"}
    [] OTHER                    -> TaskStatus

Ids(r) == {<<r, i>> : i \in DOMAIN plans[r]}
StepSpec(s) == plans[s[1]][s[2]]

(* ReadySteps: positions of plan r whose step may start. *)
ReadySteps(r) ==
  {i \in DOMAIN plans[r] :
     /\ steps[<<r, i>>] \in {"PENDING", "READY"}
     /\ \A j \in plans[r][i].needs : steps[<<r, j>>] = "COMPLETED"}

(* the first of them in step-id order, if there is one *)
NextReady(r) ==
  {<<r, i>> : i \in {i \in ReadySteps(r) : \A j \in ReadySteps(r) : i <= j}}

\* Mutant: an UPDATE without AND status = from.
TaskSet(from, to) == status' = to
StepSet(s, from, to) == steps' = [steps EXCEPT ![s] = to]

(* TransitionTask, TransitionStep: UPDATE ... WHERE status = from *)
TaskCAS(from, to) == status = from /\ status' = to
StepCAS(s, from, to) == steps[s] = from /\ steps' = [steps EXCEPT ![s] = to]

To(c, label) == pc' = [pc EXCEPT ![c] = label]

Goto(c, label) ==
  /\ To(c, label)
  /\ UNCHANGED <<op, seen, rev, step, was, after, passed>>

Begin(c, o, label) ==
  /\ To(c, label)
  /\ op' = [op EXCEPT ![c] = o]
  /\ seen' = [seen EXCEPT ![c] = NONE]
  /\ rev' = [rev EXCEPT ![c] = 0]
  /\ step' = [step EXCEPT ![c] = NoStep]
  /\ was' = [was EXCEPT ![c] = NONE]
  /\ after' = [after EXCEPT ![c] = "idle"]
  /\ passed' = [passed EXCEPT ![c] = FALSE]

Return(c) == Begin(c, NONE, "idle")

(* RunModelPlan goes round its loop after each step, the others are done. *)
Finish(c) ==
  IF op[c] = "RunModelPlan" THEN Begin(c, op[c], "snapshot") ELSE Return(c)

Init ==
  /\ status = NONE
  /\ plans = << >>
  /\ steps = << >>
  /\ evidence = {} /\ attached = {} /\ pending = {} /\ finals = {}
  /\ pc = [c \in Callers |-> "idle"]
  /\ op = [c \in Callers |-> NONE]
  /\ seen = [c \in Callers |-> NONE]
  /\ rev = [c \in Callers |-> 0]
  /\ step = [c \in Callers |-> NoStep]
  /\ was = [c \in Callers |-> NONE]
  /\ after = [c \in Callers |-> "idle"]
  /\ passed = [c \in Callers |-> FALSE]

----
Call(c, o) ==
  /\ pc[c] = "idle"
  /\ Begin(c, o, CASE o = "CreateTask"   -> "insert"
                   [] o = "RunModelPlan" -> "snapshot"
                   [] OTHER              -> "load_task")
  /\ UNCHANGED store

(* the return err of every statement, a cancelled context, a dead process *)
Abort(c) ==
  /\ pc[c] # "idle"
  /\ Return(c)
  /\ UNCHANGED store

(* CreateTask inserts the row, moves it to PLANNING, ... *)
InsertTask(c) ==
  /\ pc[c] = "insert"
  /\ TaskCAS(NONE, "DRAFT")
  /\ Goto(c, "to_planning")
  /\ UNCHANGED <<plans, steps, evidence, attached, pending, finals>>

MoveToPlanning(c) ==
  /\ pc[c] = "to_planning"
  /\ TaskCAS("DRAFT", "PLANNING")
  /\ Goto(c, "create_plan")
  /\ UNCHANGED <<plans, steps, evidence, attached, pending, finals>>

\* Mutant: no UNIQUE(task_id, revision): the plan is added whatever came
\* in between.
CreatePlanAnyway(c) ==
  /\ pc[c] = "create_plan"
  /\ op[c] = "GeneratePlan" => Len(plans) < MaxRevisions
  /\ \E shape \in Shapes :
       /\ plans' = Append(plans, shape)
       /\ steps' = [s \in DOMAIN steps \cup
                          {<<Len(plans) + 1, i>> : i \in DOMAIN shape} |->
                      IF s \in DOMAIN steps THEN steps[s] ELSE "PENDING"]
  /\ IF op[c] = "GeneratePlan" THEN Return(c) ELSE Goto(c, "to_ready")
  /\ UNCHANGED <<status, evidence, attached, pending, finals>>

\* Mutant: a replan puts the steps of the plan in force back to PENDING
\* instead of adding a revision.
PlanInPlace(c) ==
  \/ op[c] # "ReplanTask" /\ CreatePlanAnyway(c)
  \/ /\ op[c] = "ReplanTask"
     /\ pc[c] = "create_plan"
     /\ steps' = [s \in DOMAIN steps |->
                    IF s \in Ids(rev[c]) THEN "PENDING" ELSE steps[s]]
     /\ Goto(c, "to_ready")
     /\ UNCHANGED <<status, plans, evidence, attached, pending, finals>>

(* CreatePlan: the plan row and its PENDING steps in one transaction, under *)
(* UNIQUE(task_id, revision), for the revision after the one the caller     *)
(* read.                                                                    *)
CreatePlan(c) ==
  /\ pc[c] = "create_plan"
  /\ Len(plans) = rev[c]
  /\ op[c] = "GeneratePlan" => Len(plans) < MaxRevisions
  /\ \E shape \in Shapes :
       /\ plans' = Append(plans, shape)
       /\ steps' = [s \in DOMAIN steps \cup
                          {<<Len(plans) + 1, i>> : i \in DOMAIN shape} |->
                      IF s \in DOMAIN steps THEN steps[s] ELSE "PENDING"]
  /\ IF op[c] = "GeneratePlan" THEN Return(c) ELSE Goto(c, "to_ready")
  /\ UNCHANGED <<status, evidence, attached, pending, finals>>

(* ... and, as ReplanTask does from PAUSED, to READY when it has a plan. *)
MoveToReady(c) ==
  /\ pc[c] = "to_ready"
  /\ TaskCAS(IF op[c] = "CreateTask" THEN "PLANNING" ELSE "PAUSED", "READY")
  /\ Return(c)
  /\ UNCHANGED <<plans, steps, evidence, attached, pending, finals>>

----
(* RunModelPlan reads a snapshot and stops unless the task can run. *)
Snapshot(c) ==
  /\ pc[c] = "snapshot"
  /\ IF status \in {"READY", "RUNNING"}
     THEN Goto(c, "load_task")
     ELSE Return(c)
  /\ UNCHANGED store

(* GetTask and the status check of each operation *)
LoadTask(c) ==
  /\ pc[c] = "load_task"
  /\ status \in Accepts(op[c])
  /\ seen' = [seen EXCEPT ![c] = status]
  /\ To(c, IF op[c] = "RecoverRunningTask" THEN "pause" ELSE "load_plan")
  /\ UNCHANGED <<store, op, rev, step, was, after, passed>>

(* GetLatestPlan; ReplanTask checks its budget against the revision *)
LoadPlan(c) ==
  /\ pc[c] = "load_plan"
  /\ plans # << >>
  /\ op[c] = "ReplanTask" => Len(plans) - 1 < MaxReplans
  /\ rev' = [rev EXCEPT ![c] = Len(plans)]
  /\ To(c, IF op[c] \in {"ReplanTask", "GeneratePlan"} THEN "create_plan"
                                                       ELSE "load_steps")
  /\ UNCHANGED <<store, op, seen, step, was, after, passed>>

NextOfStart(c, w) ==
  IF op[c] = "RunTask" \/ w = "PENDING" THEN "stage" ELSE "claim"

\* Mutant: RunModelPlan polls when no step is ready.
PollReady(c) ==
  /\ pc[c] = "load_steps"
  /\ op[c] = "RunModelPlan"
  /\ IF ReadySteps(rev[c]) = {} THEN Finish(c)
     ELSE \E s \in NextReady(rev[c]) :
          /\ step' = [step EXCEPT ![c] = s]
          /\ was' = [was EXCEPT ![c] = steps[s]]
          /\ To(c, IF seen[c] = "READY" THEN "start_task"
                     ELSE NextOfStart(c, steps[s]))
          /\ UNCHANGED <<op, seen, rev, after, passed>>
  /\ UNCHANGED store

(* GetSteps in a runner: the first ready step is the one to run; RunTask    *)
(* insists on exactly one.                                                  *)
PickReady(c) ==
  /\ pc[c] = "load_steps"
  /\ op[c] \in {"RunTask", "RunModelPlan"}
  /\ op[c] = "RunTask" => \A i, j \in ReadySteps(rev[c]) : i = j
  /\ \E s \in NextReady(rev[c]) :
       /\ step' = [step EXCEPT ![c] = s]
       /\ was' = [was EXCEPT ![c] = steps[s]]
       /\ To(c, IF seen[c] = "READY" THEN "start_task"
                  ELSE NextOfStart(c, steps[s]))
  /\ UNCHANGED <<store, op, seen, rev, after, passed>>

StartTask(c) ==
  /\ pc[c] = "start_task"
  /\ TaskCAS("READY", "RUNNING")
  /\ Goto(c, NextOfStart(c, was[c]))
  /\ UNCHANGED <<plans, steps, evidence, attached, pending, finals>>

StageStep(c) ==
  /\ pc[c] = "stage"
  /\ StepCAS(step[c], "PENDING", "READY")
  /\ Goto(c, "claim")
  /\ UNCHANGED <<status, plans, evidence, attached, pending, finals>>

ClaimStep(c) ==
  /\ pc[c] = "claim"
  /\ StepCAS(step[c], "READY", "RUNNING")
  /\ To(c, "execute")
  /\ seen' = [seen EXCEPT ![c] = NONE]
  /\ was' = [was EXCEPT ![c] = NONE]
  /\ UNCHANGED <<status, plans, evidence, attached, pending, finals>>
  /\ UNCHANGED <<op, rev, step, after, passed>>

(* What the execution of the step came to, and where the call goes once the *)
(* outcome is on record: done; a question to the user; a proposal, in a     *)
(* WRITE step; an error.                                                    *)
Outcomes(c) ==
  CASE op[c] = "RunTask" -> {"verify_step"}
    [] op[c] = "ApprovePendingCommand" -> {"verify_step"}
    [] OTHER -> {"verify_step", "ask_step", "fail_step"} \cup
                (IF StepSpec(step[c]).risk = "WRITE" THEN {"save_pending"}
                                                   ELSE {})

Execute(c) ==
  /\ pc[c] = "execute"
  /\ \E next \in Outcomes(c) : after' = [after EXCEPT ![c] = next]
  /\ To(c, "save_report")
  /\ UNCHANGED <<store, op, seen, rev, step, was, passed>>

(* A failed command is not reported.  Reconnaissance fails with any of its  *)
(* statements, those that save and attach its report included.              *)
ExecutionFails(c) ==
  /\ \/ /\ op[c] = "ApprovePendingCommand"
        /\ pc[c] = "execute"
        /\ To(c, "fail_step")
     \/ /\ op[c] = "RunTask"
        /\ pc[c] \in {"execute", "save_report", "attach"}
        /\ To(c, "fail_task")
  /\ after' = [after EXCEPT ![c] = "idle"]
  /\ UNCHANGED <<store, op, seen, rev, step, was, passed>>

Evidence(c) ==
  [kind |-> CASE op[c] = "RunTask"               -> "RECON_REPORT"
              [] op[c] = "ApprovePendingCommand" -> "COMMAND_RESULT"
              [] OTHER                           -> "AGENT_REPORT",
   step |-> step[c]]

\* Mutant: the results are saved but not attached to the step.
SaveReportOnly(c) ==
  /\ pc[c] = "save_report"
  /\ evidence' = evidence \cup {Evidence(c)}
  /\ Goto(c, after[c])
  /\ UNCHANGED <<status, plans, steps, attached, pending, finals>>

(* persistAgentReport, runReconnaissance, persistCommandResult: the         *)
(* artifact and its evidence row ...                                        *)
SaveReport(c) ==
  /\ pc[c] = "save_report"
  /\ evidence' = evidence \cup {Evidence(c)}
  /\ Goto(c, "attach")
  /\ UNCHANGED <<status, plans, steps, attached, pending, finals>>

(* ... and AttachStepResults. *)
Attach(c) ==
  /\ pc[c] = "attach"
  /\ attached' = attached \cup {step[c]}
  /\ To(c, after[c])
  /\ after' = [after EXCEPT ![c] = "idle"]
  /\ UNCHANGED <<status, plans, steps, evidence, pending, finals>>
  /\ UNCHANGED <<op, seen, rev, step, was, passed>>

\* Mutant: the step is parked before its proposal is stored.
ParkUnsaved(c) ==
  /\ pc[c] = "save_pending"
  /\ To(c, "wait_step")
  /\ UNCHANGED <<store, op, seen, rev, step, was, after, passed>>

(* persistPendingWrite and persistPendingCommand: one or both *)
SavePending(c) ==
  /\ pc[c] = "save_pending"
  /\ \E kinds \in (SUBSET PendingKind) \ {{}} :
       pending' = pending \cup {[kind |-> k, step |-> step[c]] : k \in kinds}
  /\ Goto(c, "wait_step")
  /\ UNCHANGED <<status, plans, steps, evidence, attached, finals>>

(* A proposal parks the step and then the task, ... *)
ParkStep(c) ==
  /\ pc[c] = "wait_step"
  /\ StepCAS(step[c], "RUNNING", "WAITING_APPROVAL")
  /\ Goto(c, "wait_task")
  /\ UNCHANGED <<status, plans, evidence, attached, pending, finals>>

ParkTask(c) ==
  /\ pc[c] = "wait_task"
  /\ TaskCAS("RUNNING", "WAITING_APPROVAL")
  /\ Finish(c)
  /\ UNCHANGED <<plans, steps, evidence, attached, pending, finals>>

(* ... and so does a question. *)
AskStep(c) ==
  /\ pc[c] = "ask_step"
  /\ StepCAS(step[c], "RUNNING", "WAITING_USER")
  /\ Goto(c, "ask_task")
  /\ UNCHANGED <<status, plans, evidence, attached, pending, finals>>

AskTask(c) ==
  /\ pc[c] = "ask_task"
  /\ TaskCAS("RUNNING", "WAITING_USER")
  /\ Finish(c)
  /\ UNCHANGED <<plans, steps, evidence, attached, pending, finals>>

(* _ = transition...: whatever becomes of the write, the call goes on. *)
FailStep(c) ==
  /\ pc[c] = "fail_step"
  /\ StepCAS(step[c], "RUNNING", "FAILED") \/ UNCHANGED steps
  /\ Goto(c, "fail_task")
  /\ UNCHANGED <<status, plans, evidence, attached, pending, finals>>

FailTask(c) ==
  /\ pc[c] = "fail_task"
  /\ TaskCAS("RUNNING", "FAILED") \/ UNCHANGED status
  /\ Return(c)
  /\ UNCHANGED <<plans, steps, evidence, attached, pending, finals>>

----
(* The two approvals: the step the user names is waiting in the latest plan *)
(* and its proposal is stored; then the task and the step are resumed.      *)
Wanted(c) ==
  IF op[c] = "ApprovePendingWrite" THEN "PENDING_WRITE" ELSE "PENDING_COMMAND"

PickWaiting(c) ==
  /\ pc[c] = "load_steps"
  /\ op[c] \in {"ApprovePendingWrite", "ApprovePendingCommand"}
  /\ \E s \in Ids(rev[c]) :
       /\ StepSpec(s).risk = "WRITE"
       /\ steps[s] = "WAITING_APPROVAL"
       /\ [kind |-> Wanted(c), step |-> s] \in pending
       /\ step' = [step EXCEPT ![c] = s]
  /\ To(c, "resume_task")
  /\ seen' = [seen EXCEPT ![c] = NONE]
  /\ UNCHANGED <<store, op, rev, was, after, passed>>

ResumeTask(c) ==
  /\ pc[c] = "resume_task"
  /\ TaskCAS("WAITING_APPROVAL", "RUNNING")
  /\ Goto(c, "resume_step")
  /\ UNCHANGED <<plans, steps, evidence, attached, pending, finals>>

ResumeStep(c) ==
  /\ pc[c] = "resume_step"
  /\ StepCAS(step[c], "WAITING_APPROVAL", "RUNNING")
  /\ Goto(c, IF op[c] = "ApprovePendingWrite" THEN "write" ELSE "execute")
  /\ UNCHANGED <<status, plans, evidence, attached, pending, finals>>

(* WriteFile for each file of the batch.  writeContext refuses unless task  *)
(* and step are RUNNING and the step is in the latest plan; otherwise the   *)
(* writes succeed or one of them does not.                                  *)
WriteFiles(c) ==
  /\ pc[c] = "write"
  /\ \/ /\ status = "RUNNING"
        /\ rev[c] = Len(plans)
        /\ steps[step[c]] = "RUNNING"
        /\ To(c, "verify_step")
     \/ To(c, "fail_step")
  /\ UNCHANGED <<store, op, seen, rev, step, was, after, passed>>

----
VerifyStep(c) ==
  /\ pc[c] = "verify_step"
  /\ StepCAS(step[c], "RUNNING", "VERIFYING")
  /\ Goto(c, "complete_step")
  /\ UNCHANGED <<status, plans, evidence, attached, pending, finals>>

(* completeModelStep looks at the other steps before it verifies the task;  *)
(* RunTask and ApprovePendingWrite go straight on.                          *)
CompleteStep(c) ==
  /\ pc[c] = "complete_step"
  /\ StepCAS(step[c], "VERIFYING", "COMPLETED")
  /\ Goto(c, IF op[c] \in {"RunTask", "ApprovePendingWrite"}
             THEN "verify_task" ELSE "look")
  /\ UNCHANGED <<status, plans, evidence, attached, pending, finals>>

Look(c) ==
  /\ pc[c] = "look"
  /\ IF \A s \in Ids(rev[c]) : steps[s] \in StepTerminal
     THEN Goto(c, "verify_task")
     ELSE Finish(c)
  /\ UNCHANGED store

MoveToVerifying(c) ==
  /\ pc[c] = "verify_task"
  /\ TaskCAS("RUNNING", "VERIFYING")
  /\ Goto(c, "verify")
  /\ UNCHANGED <<plans, steps, evidence, attached, pending, finals>>

\* Mutant: the evidence criterion is not checked.
VerifyWorkspaceOnly(c) ==
  /\ pc[c] = "verify"
  /\ \E workspace \in BOOLEAN : passed' = [passed EXCEPT ![c] = workspace]
  /\ To(c, "save_final")
  /\ UNCHANGED <<store, op, seen, rev, step, was, after>>

(* VerifyTask: evidence of the asked kind exists for the task, and the      *)
(* checks of the workspace (files, diff, command) pass or not.              *)
VerifyTask(c) ==
  /\ pc[c] = "verify"
  /\ \E workspace \in BOOLEAN :
       passed' = [passed EXCEPT ![c] =
                    workspace /\ \E e \in evidence : e.kind = Criterion]
  /\ To(c, "save_final")
  /\ UNCHANGED <<store, op, seen, rev, step, was, after>>

(* persistFinalReport *)
SaveFinal(c) ==
  /\ pc[c] = "save_final"
  /\ finals' = finals \cup {passed[c]}
  /\ Goto(c, "decide")
  /\ UNCHANGED <<status, plans, steps, evidence, attached, pending>>

Decide(c) ==
  /\ pc[c] = "decide"
  /\ TaskCAS("VERIFYING", IF passed[c] THEN "COMPLETED" ELSE "FAILED")
  /\ Finish(c)
  /\ UNCHANGED <<plans, steps, evidence, attached, pending, finals>>

(* RecoverRunningTask *)
PauseTask(c) ==
  /\ pc[c] = "pause"
  /\ TaskCAS("RUNNING", "PAUSED")
  /\ Return(c)
  /\ UNCHANGED <<plans, steps, evidence, attached, pending, finals>>

----
(* the next statement of a call in flight *)
Continue(c) ==
  \/ InsertTask(c) \/ MoveToPlanning(c) \/ CreatePlan(c) \/ MoveToReady(c)
  \/ Snapshot(c) \/ LoadTask(c) \/ LoadPlan(c) \/ PickReady(c)
  \/ StartTask(c) \/ StageStep(c) \/ ClaimStep(c) \/ Execute(c)
  \/ ExecutionFails(c) \/ SaveReport(c) \/ Attach(c) \/ SavePending(c)
  \/ ParkStep(c) \/ ParkTask(c) \/ AskStep(c) \/ AskTask(c)
  \/ FailStep(c) \/ FailTask(c) \/ PickWaiting(c) \/ ResumeTask(c)
  \/ ResumeStep(c) \/ WriteFiles(c) \/ VerifyStep(c) \/ CompleteStep(c)
  \/ Look(c) \/ MoveToVerifying(c) \/ VerifyTask(c) \/ SaveFinal(c)
  \/ Decide(c) \/ PauseTask(c)

Next ==
  \E c \in Callers :
    \/ \E o \in Operations : Call(c, o)
    \/ Continue(c)
    \/ Abort(c)

(* A call that was made executes its next statement or returns. *)
Fairness == \A c \in Callers : WF_vars(Continue(c) \/ Abort(c))

Spec == Init /\ [][Next]_vars /\ Fairness

----
Busy(c) == pc[c] # "idle"

(* the call has claimed its step and not yet let go of it *)
Executing(c) ==
  pc[c] \in {"execute", "write", "save_report", "attach", "save_pending",
            "wait_step", "ask_step", "fail_step", "verify_step",
            "complete_step"}

Verifying(c) == pc[c] \in {"verify", "save_final", "decide"}

StoreTypes ==
  /\ status \in TaskStatus \cup {NONE}
  /\ plans \in Seq(Shapes)
  /\ DOMAIN steps = UNION {Ids(r) : r \in DOMAIN plans}
  /\ \A s \in DOMAIN steps : steps[s] \in StepStatus
  /\ evidence \subseteq [kind : EvidenceKind, step : DOMAIN steps]
  /\ attached \subseteq DOMAIN steps
  /\ pending \subseteq [kind : PendingKind, step : DOMAIN steps]
  /\ finals \subseteq BOOLEAN

CallTypes ==
  /\ pc \in [Callers -> Label] /\ after \in [Callers -> Label]
  /\ op \in [Callers -> Operations \cup {NONE}]
  /\ seen \in [Callers -> TaskStatus \cup {NONE}]
  /\ was \in [Callers -> StepStatus \cup {NONE}]
  /\ rev \in [Callers -> 0..Len(plans)]
  /\ step \in [Callers -> DOMAIN steps \cup {NoStep}]
  /\ passed \in [Callers -> BOOLEAN]

TypeOK == StoreTypes /\ CallTypes

(* However many runners, approvals, replans and recoveries interleave, two  *)
(* calls never execute the same step at once: its model turn, its writes    *)
(* and its command run in one call only.                                    *)
OneExecutorPerStep ==
  \A c, d \in Callers : c # d /\ Executing(c) /\ Executing(d) =>
                          step[c] # step[d]

(* Docs/11: recovery "does not replay any step": a step that was once       *)
(* claimed is never offered to a runner again.                              *)
NeverReplayed ==
  [][\A s \in DOMAIN steps :
       steps[s] \notin {"PENDING", "READY"} =>
         steps'[s] \notin {"PENDING", "READY"}]_vars

(* A task that waits for approval can be approved: its latest plan has a    *)
(* waiting step whose proposal is stored, so PendingWrite or PendingCommand *)
(* finds what the user is asked about.                                      *)
WaitingIsApprovable ==
  status = "WAITING_APPROVAL" =>
    \E s \in Ids(Len(plans)) :
      /\ steps[s] = "WAITING_APPROVAL"
      /\ \E p \in pending : p.step = s

(* Docs/02: a step without evidence is not completed.                       *)
CompletedHasEvidence ==
  \A s \in DOMAIN steps : steps[s] = "COMPLETED" =>
    /\ s \in attached
    /\ \E e \in evidence : e.step = s

(* Docs/11: a task is COMPLETED only after the acceptance criteria were     *)
(* checked, on evidence that exists, and the passed report was saved.       *)
CompletedWasVerified ==
  status = "COMPLETED" =>
    /\ TRUE \in finals
    /\ \E e \in evidence : e.kind = Criterion

(* Only one call verifies the task, and nobody takes the task out of        *)
(* VERIFYING under it.                                                      *)
OneVerifier ==
  \A c \in Callers : Verifying(c) =>
    /\ status = "VERIFYING"
    /\ \A d \in Callers : Verifying(d) => c = d

(* Docs/11: MaxReplans is checked before the model is asked.  Concurrent    *)
(* replans and new plans cannot carry a replan past it.                     *)
ReplanWithinBudget ==
  [][\A c \in Callers :
       op[c] = "ReplanTask" /\ pc[c] = "create_plan" /\ pc'[c] = "to_ready" =>
         Len(plans') <= MaxReplans + 1]_vars

(* Every call returns.  In particular RunModelPlan leaves its loop: each    *)
(* turn claims a step, and no step is claimed twice.                        *)
CallsReturn == \A c \in Callers : Busy(c) ~> ~Busy(c)
=============================================================================
