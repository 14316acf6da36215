---------------------------- MODULE LongHorizon ----------------------------
(***************************************************************************)
(* One INCREMENTAL_HORIZON task (internal/app/long_horizon.go): a task     *)
(* that goes through a fixed sequence of stages, one short plan segment at *)
(* a time.  Each service call loads the task row and the horizon row, does *)
(* one durable action on its copies and saves the horizon row last, over   *)
(* whatever is there by then (SaveHorizon is an upsert).                   *)
(*                                                                         *)
(* The calls are statement by statement, as in TaskRuntime; what a call    *)
(* holds in memory is one record, and the call may end after any statement *)
(* (Abort: an error, a cancelled context, a dead process).  The step life  *)
(* that TaskRuntime has in full is shorter here: PENDING stands for        *)
(* PENDING and READY, RUNNING for RUNNING and VERIFYING.  Artifacts,       *)
(* ledgers, token counts and events carry no control and are left out; so  *)
(* is the extra save of a step whose context was recompiled.               *)
(***************************************************************************)
EXTENDS Naturals, Sequences, TaskStates

CONSTANTS
  Callers,      (* service calls that may be in flight together            *)
  Drivers,      (* the callers among them that advance the task ...        *)
  Users,        (* ... and those that resume, cancel and approve           *)
  Operations,   (* what is called                                          *)
  Stages,       (* the stages of the horizon plan, in order                *)
  Policy,       (* the task's stage checkpoint policy                      *)
  Segments,     (* the steps of the segments a planner may return          *)
  MaxSteps, MaxReplans,   (* task budgets                                  *)
  Expires,      (* whether the deadline falls into the time modelled       *)
  Faults,       (* what may fail by itself: a "model" call, a "step", a    *)
                (* statement on the "store" whose error the call survives  *)
  MaxPlans      (* bound: the planner fails once there are so many plans   *)

StageId == {"DISCOVER", "DESIGN", "IMPLEMENT", "VERIFY_REPAIR", "FINALIZE"}

ASSUME StagesKnown == Stages \in Seq(StageId) /\ Len(Stages) > 0

ASSUME OperationsKnown ==
  /\ Operations \subseteq
       {"Advance", "Resume", "Cancel", "ApproveWrite", "ApproveCommand"}
  /\ Drivers \subseteq Callers /\ Users \subseteq Callers
  /\ Faults \subseteq {"model", "step", "store"}

ASSUME PolicyKnown == Policy \in {"NONE", "KEY_STAGES", "EVERY_STAGE"}

(* buildPlan: one to four steps, each needing earlier-checked local steps *)
ASSUME SegmentsArePlans ==
  \A segment \in Segments :
    /\ segment.terminal \in BOOLEAN
    /\ segment.steps \in Seq([mutates : BOOLEAN, needs : SUBSET Nat])
    /\ Len(segment.steps) \in 1..4
    /\ \A i \in DOMAIN segment.steps :
         segment.steps[i].needs \subseteq DOMAIN segment.steps \ {i}

ASSUME BudgetsNat ==
  /\ Expires \in BOOLEAN
  /\ MaxSteps \in Nat \ {0} /\ MaxReplans \in Nat
  /\ MaxPlans \in Nat \ {0}

VARIABLES
  (* the store *)
  status,       (* tasks.status                                            *)
  horizon,      (* the task_horizons row                                   *)
  plans,        (* plan versions: stage (0: not of the horizon), terminal  *)
                (* segment or not, steps                                   *)
  steps,        (* steps.status of every step of every plan                *)
  late,         (* the deadline has passed or the tokens are used up       *)
  call,         (* each call: the statement it is at and what it holds     *)
  (* what the users did *)
  answered      (* stages a user let begin at a stage checkpoint           *)

store == <<status, horizon, plans, steps, late>>
vars  == <<store, call, answered>>

NONE == "NONE"
NoStep == <<0, 0>>

HorizonStatus ==
  {"ACTIVE", "WAITING", "PAUSED", "BLOCKED", "COMPLETED", "CANCELLED"}

(* The parts of HorizonState that decide anything.  idle is                *)
(* NoProgressCycles and replans is ReplansUsed, up to the values that the  *)
(* code tells apart; failure says that a FAILURE_REPORT was recorded.      *)
Horizon ==
  [status : HorizonStatus, stage : Nat \ {0}, planned : Nat,
   replans : 0..MaxReplans + 1, idle : 0..3, awaiting : BOOLEAN,
   failure : BOOLEAN, processed : Nat]

NoHorizon == [status |-> NONE]

(* A call: its operation; the task status it read; its copy of the horizon; *)
(* the plan and the step it works on; the status it is about to write;      *)
(* whether the step used up its iterations.  What is not needed any more is *)
(* dropped.                                                                 *)
Idle == [at |-> "idle", op |-> NONE, item |-> NONE, my |-> NoHorizon,
         rev |-> 0, step |-> NoStep, to |-> NONE, exhausted |-> FALSE]

Least(a, b) == IF a < b THEN a ELSE b

MoreReplans(h) == [h EXCEPT !.replans = Least(@ + 1, MaxReplans + 1)]
MoreIdle(h) == [h EXCEPT !.idle = Least(@ + 1, 3)]

\* Mutant: KEY_STAGES asks after the stage it names has been left.
CheckpointLater(stage) ==
  Policy = "EVERY_STAGE" \/ (Policy = "KEY_STAGES" /\ stage = "IMPLEMENT")

(* requiresStageCheckpoint *)
Checkpoint(stage) ==
  Policy = "EVERY_STAGE" \/ (Policy = "KEY_STAGES" /\ stage = "DESIGN")

(* currentStage *)
CurrentStage(h) ==
  IF h.stage <= Len(Stages) THEN Stages[h.stage] ELSE "FINALIZE"

Ids(r) == {<<r, i>> : i \in DOMAIN plans[r].steps}
Latest == Len(plans)

\* Mutant: a failed step is taken for a finished one.
Settled(r) == \A s \in Ids(r) : steps[s] \in {"COMPLETED", "FAILED"}

(* allCompleted, in finishHorizonSegment *)
Completed(r) == \A s \in Ids(r) : steps[s] = "COMPLETED"

(* ReadySteps *)
Ready(r) ==
  {s \in Ids(r) :
     /\ steps[s] = "PENDING"
     /\ \A j \in plans[r].steps[s[2]].needs : steps[<<r, j>>] = "COMPLETED"}

(* the plan is a segment of this horizon that was not closed yet *)
Open(r, h) == plans[r].stage # 0 /\ r # h.processed

(* stageToolDefinitions: a segment mutates in the stages that offer a      *)
(* mutating tool; buildPlan insists on one in IMPLEMENT.                   *)
Plannable(stage, segment) ==
  LET mutates == \E i \in DOMAIN segment.steps : segment.steps[i].mutates
  IN  /\ mutates => stage \in {"IMPLEMENT", "VERIFY_REPAIR", "FINALIZE"}
      /\ stage = "IMPLEMENT" => mutates

TaskCAS(from, target) == status = from /\ status' = target

StepCAS(s, from, target) ==
  steps[s] = from /\ steps' = [steps EXCEPT ![s] = target]

Become(c, next) == call' = [call EXCEPT ![c] = next]
To(c, label) == call' = [call EXCEPT ![c].at = label]
Return(c) == Become(c, Idle)

(* what ResumeLongHorizonTask makes of the horizon *)
Resumed(h) == [h EXCEPT !.status = "ACTIVE", !.awaiting = FALSE]

(* the call's copy of the horizon, and the statement it goes on with *)
Hold(c, h, label) == Become(c, [call[c] EXCEPT !.my = h, !.at = label])

(* all that is left to do is to save the copy *)
ToSave(c, h) == Become(c, [Idle EXCEPT !.my = h, !.at = "save"])

----
(* What CreateLongHorizonTask leaves: a READY task, the plan CreateTask     *)
(* gave it, which is not of the horizon, and an ACTIVE horizon.             *)
Init ==
  /\ status = "READY"
  /\ horizon = [status |-> "ACTIVE", stage |-> 1, planned |-> 0,
                replans |-> 0, idle |-> 0, awaiting |-> FALSE,
                failure |-> FALSE, processed |-> 0]
  /\ plans = <<[stage |-> 0, terminal |-> FALSE, steps |-> << >>]>>
  /\ steps = << >>
  /\ late = FALSE
  /\ call = [c \in Callers |-> Idle]
  /\ answered = {}

TimePasses ==
  /\ Expires /\ ~late
  /\ late' = TRUE
  /\ UNCHANGED <<status, horizon, plans, steps, call, answered>>

(* A call begins with GetTask; an approval wants a task that waits for it. *)
Approvals == {"ApproveWrite", "ApproveCommand"}

Call(c, o) ==
  /\ call[c].at = "idle"
  /\ c \in IF o = "Advance" THEN Drivers ELSE Users
  /\ o \in Approvals => status = "WAITING_APPROVAL"
  /\ Become(c, [Idle EXCEPT
       !.op = o, !.item = status,
       !.at = IF o \in Approvals THEN "load_waiting" ELSE "load_horizon"])
  /\ UNCHANGED <<store, answered>>

(* An error is returned, the context is cancelled or the process dies. *)
Abort(c) ==
  /\ call[c].at # "idle"
  /\ Become(c, [Idle EXCEPT !.op = "ERROR"])
  /\ UNCHANGED <<store, answered>>

----
(* AdvanceLongHorizonTask.  It does nothing to a task that is over, ...     *)
Over(c, h) ==
  \/ call[c].item \in TaskTerminal
  \/ h.status \in {"COMPLETED", "CANCELLED", "BLOCKED"}

Reading(c, o) == call[c].at = "load_horizon" /\ call[c].op = o

AdvanceOver(c) ==
  /\ Reading(c, "Advance")
  /\ Over(c, horizon)
  /\ Return(c)
  /\ UNCHANGED <<store, answered>>

(* ... makes the horizon ACTIVE again when what it waited for is settled, ...*)
AdvanceResolved(c) ==
  /\ Reading(c, "Advance")
  /\ ~Over(c, horizon)
  /\ horizon.status = "WAITING" /\ ~horizon.awaiting
  /\ call[c].item \in {"READY", "RUNNING"}
  /\ Hold(c, [horizon EXCEPT !.status = "ACTIVE"], "resolve")
  /\ UNCHANGED <<store, answered>>

(* ... records on the horizon that the task waits or is paused, ...         *)
AdvanceWaits(c) ==
  LET wanted == IF call[c].item = "PAUSED" THEN "PAUSED" ELSE "WAITING" IN
  /\ Reading(c, "Advance")
  /\ ~Over(c, horizon)
  /\ call[c].item \in {"WAITING_APPROVAL", "WAITING_USER", "PAUSED"}
  /\ IF horizon.status = wanted
     THEN Return(c)
     ELSE ToSave(c, [horizon EXCEPT !.status = wanted])
  /\ UNCHANGED <<store, answered>>

(* ... and otherwise goes on, unless the horizon is paused or awaits the    *)
(* user at a checkpoint.                                                    *)
AdvanceWorks(c) ==
  /\ Reading(c, "Advance")
  /\ ~Over(c, horizon)
  /\ call[c].item \notin {"WAITING_APPROVAL", "WAITING_USER", "PAUSED"}
  /\ ~(/\ horizon.status = "WAITING" /\ ~horizon.awaiting
       /\ call[c].item \in {"READY", "RUNNING"})
  /\ IF horizon.status = "PAUSED" \/ horizon.awaiting
     THEN Return(c)
     ELSE Hold(c, horizon, "load_plan")
  /\ UNCHANGED <<store, answered>>

(* pauseHorizonForBudget, and the same for spent replans: the horizon is    *)
(* BLOCKED and the task is moved, if it can be, before that is saved.       *)
Block(c, h, target) ==
  LET blocked == [h EXCEPT !.status = "BLOCKED"] IN
  IF target = NONE THEN ToSave(c, blocked)
  ELSE Become(c, [call[c] EXCEPT !.at = "try_task", !.my = blocked,
                                 !.to = target])

\* Mutant: the horizon is saved as it was.
OutOfBudgetUnmarked(c, h) == ToSave(c, h)

OutOfBudget(c, h) ==
  Block(c, h, CASE call[c].item = "RUNNING" -> "BLOCKED"
                [] call[c].item = "READY"   -> "PAUSED"
                [] OTHER                    -> NONE)

(* _ = transitionTask: whatever becomes of the write, the call goes on *)
TryTask(c) ==
  /\ call[c].at = "try_task"
  /\ TaskCAS(call[c].item, call[c].to) \/ UNCHANGED status
  /\ ToSave(c, call[c].my)
  /\ UNCHANGED <<horizon, plans, steps, late, answered>>

GoOn(c) ==
  Become(c, [call[c] EXCEPT
    !.rev = Latest,
    !.at = IF Open(Latest, call[c].my) THEN "load_steps" ELSE "plan"])

(* The time and token budgets, then GetLatestPlan: work on an open segment, *)
(* or plan the next one within the step budget.                             *)
LoadPlan(c) ==
  /\ call[c].at = "load_plan"
  /\ IF late \/ (~Open(Latest, call[c].my) /\ call[c].my.planned >= MaxSteps)
     THEN OutOfBudget(c, call[c].my)
     ELSE GoOn(c)
  /\ UNCHANGED <<store, answered>>

----
(* planNextHorizonSegment: the plan is stored under the revision after the  *)
(* one that was read, UNIQUE(task_id, revision), and then counted.          *)
CreateSegment(c) ==
  LET h == call[c].my IN
  /\ call[c].at = "plan"
  /\ Latest = call[c].rev /\ Latest < MaxPlans
  /\ \E segment \in Segments :
       LET n == Len(segment.steps) IN
       /\ h.planned + n <= MaxSteps
       /\ Plannable(CurrentStage(h), segment)
       /\ plans' = Append(plans, [stage |-> h.stage, steps |-> segment.steps,
                                  terminal |-> segment.terminal])
       /\ steps' = [s \in DOMAIN steps \cup {Latest + 1} \X (1..n) |->
                      IF s \in DOMAIN steps THEN steps[s] ELSE "PENDING"]
       /\ ToSave(c, MoreIdle([h EXCEPT !.planned = @ + n]))
  /\ UNCHANGED <<status, horizon, late, answered>>

(* The planner returns no valid, new segment within the budget, or the      *)
(* verifier no opinion.                                                     *)
ModelFails(c) ==
  /\ call[c].at \in {"plan", "assess"}
  /\ "model" \in Faults
  /\ To(c, "fail")
  /\ UNCHANGED <<store, answered>>

----
(* GetSteps: something to run, or the segment is to be closed *)
LoadSteps(c) ==
  /\ call[c].at = "load_steps"
  /\ Ready(call[c].rev) # {}
  /\ To(c, "run")
  /\ UNCHANGED <<store, answered>>

(* finishHorizonSegment of a segment that did not complete *)
CloseFailed(c) ==
  LET h == MoreReplans([call[c].my EXCEPT !.processed = call[c].rev]) IN
  /\ call[c].at = "load_steps"
  /\ Ready(call[c].rev) = {} /\ ~Completed(call[c].rev)
  /\ IF h.replans > MaxReplans
     THEN Block(c, h, IF call[c].item = "RUNNING" THEN "BLOCKED" ELSE NONE)
     ELSE ToSave(c, [h EXCEPT !.status = "ACTIVE"])
  /\ UNCHANGED <<store, answered>>

(* ... of one that did: the last segment of a stage is assessed             *)
CloseCompleted(c) ==
  LET h == [call[c].my EXCEPT !.processed = call[c].rev] IN
  /\ call[c].at = "load_steps"
  /\ Ready(call[c].rev) = {} /\ Completed(call[c].rev)
  /\ IF plans[call[c].rev].terminal THEN Hold(c, h, "assess")
                                     ELSE ToSave(c, h)
  /\ UNCHANGED <<store, answered>>

(* The stage is over whatever the opinion says.  After the last stage only  *)
(* a task read as RUNNING is verified; a checkpoint stage waits for a user. *)
Assess(c) ==
  LET h == [call[c].my EXCEPT !.stage = @ + 1]
      waiting == [h EXCEPT !.status = "WAITING", !.awaiting = TRUE]
      asks == Checkpoint(CurrentStage(call[c].my))
      running == call[c].item = "RUNNING"
  IN
  /\ call[c].at = "assess"
  /\ \/ h.stage > Len(Stages) /\ running /\ Hold(c, h, "verify")
     \/ h.stage <= Len(Stages) /\ ~asks /\ ToSave(c, h)
     \/ h.stage <= Len(Stages) /\ asks /\ running /\ Hold(c, waiting, "park")
     \/ h.stage <= Len(Stages) /\ asks /\ ~running /\ ToSave(c, waiting)
  /\ UNCHANGED <<store, answered>>

Park(c) ==
  /\ call[c].at = "park"
  /\ TaskCAS("RUNNING", "WAITING_USER")
  /\ ToSave(c, call[c].my)
  /\ UNCHANGED <<horizon, plans, steps, late, answered>>

MoveToVerifying(c) ==
  /\ call[c].at = "verify"
  /\ TaskCAS("RUNNING", "VERIFYING")
  /\ To(c, "decide")
  /\ UNCHANGED <<horizon, plans, steps, late, answered>>

\* Mutant: the horizon is completed whatever the report says.
DecideCompleted(c) ==
  /\ call[c].at = "decide"
  /\ \E passed \in BOOLEAN :
       /\ TaskCAS("VERIFYING", IF passed THEN "COMPLETED" ELSE "FAILED")
       /\ ToSave(c, [call[c].my EXCEPT !.status = "COMPLETED"])
  /\ UNCHANGED <<horizon, plans, steps, late, answered>>

(* VerifyTask and what follows from its report; an approval ends here *)
Decide(c) ==
  /\ call[c].at = "decide"
  /\ \E passed \in BOOLEAN :
       /\ TaskCAS("VERIFYING", IF passed THEN "COMPLETED" ELSE "FAILED")
       /\ IF call[c].op = "ApproveWrite" THEN Return(c)
          ELSE ToSave(c, [call[c].my EXCEPT !.status =
                            IF passed THEN "COMPLETED" ELSE "BLOCKED"])
  /\ UNCHANGED <<horizon, plans, steps, late, answered>>

----
(* RunModelStep reads the task, its latest plan and a ready step again, ... *)
Run(c) ==
  /\ call[c].at = "run"
  /\ status \in {"READY", "RUNNING"}
  /\ \E s \in Ready(Latest) :
       Become(c, [call[c] EXCEPT
         !.step = s, !.item = NONE,
         !.at = IF status = "READY" THEN "start" ELSE "claim"])
  /\ UNCHANGED <<store, answered>>

StartTask(c) ==
  /\ call[c].at = "start"
  /\ TaskCAS("READY", "RUNNING")
  /\ To(c, "claim")
  /\ UNCHANGED <<horizon, plans, steps, late, answered>>

ClaimStep(c) ==
  /\ call[c].at = "claim"
  /\ StepCAS(call[c].step, "PENDING", "RUNNING")
  /\ To(c, "execute")
  /\ UNCHANGED <<status, horizon, plans, late, answered>>

(* ... lets the worker run it, and files what came of it.  A step that may  *)
(* mutate proposes; it completes when its proposal was malformed and the    *)
(* model then gave up on it.                                                *)
Execute(c) ==
  /\ call[c].at = "execute"
  /\ \E outcome \in {"COMPLETED", "WAITING_USER"} \cup
       (IF plans[call[c].step[1]].steps[call[c].step[2]].mutates
        THEN {"WAITING_APPROVAL"} ELSE {}) :
       Become(c, [call[c] EXCEPT !.to = outcome, !.at = "settle"])
  /\ UNCHANGED <<store, answered>>

(* the worker's error; exhausted: its iteration budget was used up *)
ExecuteFails(c) ==
  /\ call[c].at = "execute"
  /\ "step" \in Faults
  /\ \E e \in BOOLEAN :
       Become(c, [call[c] EXCEPT !.exhausted = e, !.at = "drop_step"])
  /\ UNCHANGED <<store, answered>>

SettleStep(c) ==
  /\ call[c].at = "settle"
  /\ StepCAS(call[c].step, "RUNNING", call[c].to)
  /\ To(c, IF call[c].to = "COMPLETED" THEN "record" ELSE "settle_task")
  /\ UNCHANGED <<status, horizon, plans, late, answered>>

SettleTask(c) ==
  /\ call[c].at = "settle_task"
  /\ TaskCAS("RUNNING", call[c].to)
  /\ To(c, "record")
  /\ UNCHANGED <<horizon, plans, steps, late, answered>>

DropStep(c) ==
  /\ call[c].at = "drop_step"
  /\ StepCAS(call[c].step, "RUNNING", "FAILED") \/ UNCHANGED steps
  /\ To(c, "drop_task")
  /\ UNCHANGED <<status, horizon, plans, late, answered>>

DropTask(c) ==
  /\ call[c].at = "drop_task"
  /\ TaskCAS("RUNNING", "PAUSED") \/ UNCHANGED status
  /\ To(c, "fail")
  /\ UNCHANGED <<horizon, plans, steps, late, answered>>

(* any other error of RunModelStep: a lost compare, nothing ready any more, *)
(* a row that could not be written                                          *)
Lost(c) ==
  LET at == call[c].at IN
  \/ at = "run" /\ (status \notin {"READY", "RUNNING"} \/ Ready(Latest) = {})
  \/ at = "start" /\ status # "READY"
  \/ at = "settle_task" /\ status # "RUNNING"
  \/ at = "claim" /\ steps[call[c].step] # "PENDING"
  \/ at = "settle" /\ steps[call[c].step] # "RUNNING"

RunFails(c) ==
  /\ \/ Lost(c)
     \/ /\ "store" \in Faults
        /\ call[c].at \in {"run", "start", "claim", "execute", "settle",
                           "settle_task", "record"}
  /\ To(c, "fail")
  /\ UNCHANGED <<store, answered>>

(* recordHorizonProgress.  A step that ran has left a report, so there is   *)
(* new evidence, unless listing it fails: that error is dropped and the     *)
(* cycle counts as one without progress.                                    *)
Record(c) ==
  /\ call[c].at = "record"
  /\ \E listed \in BOOLEAN :
       /\ listed \/ "store" \in Faults
       /\ LET counted == IF listed THEN [call[c].my EXCEPT !.idle = 0]
                                   ELSE MoreIdle(call[c].my)
              stuck == counted.idle >= 3
              h == [counted EXCEPT !.status =
                      CASE status = "COMPLETED" -> "COMPLETED"
                        [] status \in {"FAILED", "BLOCKED"} -> "BLOCKED"
                        [] OTHER -> IF stuck THEN "PAUSED" ELSE @]
          IN  IF stuck /\ status = "RUNNING"
              THEN Become(c, [Idle EXCEPT !.at = "try_task", !.my = h,
                                          !.item = status, !.to = "PAUSED"])
              ELSE ToSave(c, h)
  /\ UNCHANGED <<store, answered>>

----
(* recordHorizonFailure: the attempt is given up and counted; the first     *)
(* failures that only used up their iterations are replanned by themselves, *)
(* anything else pauses the task until a user resumes it.                   *)
Left(c, h, label) ==
  Become(c, [Idle EXCEPT !.at = label, !.my = h, !.item = status])

Fail(c) ==
  LET h == [MoreReplans(call[c].my) EXCEPT !.failure = TRUE,
              !.status = "PAUSED", !.processed = call[c].rev]
      auto == call[c].exhausted /\ h.replans <= MaxReplans /\ h.idle < 2
  IN
  /\ call[c].at = "fail"
  /\ \/ auto /\ status = "READY" /\ ToSave(c, [h EXCEPT !.status = "ACTIVE"])
     \/ auto /\ status = "RUNNING" /\ Left(c, h, "auto_pause")
     \/ auto /\ status = "PAUSED" /\ Left(c, h, "auto_ready")
     \/ ~auto /\ status \in {"READY", "RUNNING"} /\ Left(c, h, "pause")
     \/ /\ status \notin {"READY", "RUNNING"} /\ ~(auto /\ status = "PAUSED")
        /\ ToSave(c, h)
  /\ UNCHANGED <<store, answered>>

AutoPause(c) ==
  /\ call[c].at = "auto_pause"
  /\ TaskCAS("RUNNING", "PAUSED")
  /\ To(c, "auto_ready")
  /\ UNCHANGED <<horizon, plans, steps, late, answered>>

AutoReady(c) ==
  /\ call[c].at = "auto_ready"
  /\ TaskCAS("PAUSED", "READY")
  /\ ToSave(c, [call[c].my EXCEPT !.status = "ACTIVE"])
  /\ UNCHANGED <<horizon, plans, steps, late, answered>>

PauseTask(c) ==
  /\ call[c].at = "pause"
  /\ TaskCAS(call[c].item, "PAUSED")
  /\ ToSave(c, call[c].my)
  /\ UNCHANGED <<horizon, plans, steps, late, answered>>

(* persistLedgerAndState, saveHorizonState: the row becomes this copy *)
Save(c) ==
  /\ call[c].at = "save"
  /\ horizon' = call[c].my
  /\ Return(c)
  /\ UNCHANGED <<status, plans, steps, late, answered>>

Resolve(c) ==
  /\ call[c].at = "resolve"
  /\ horizon' = call[c].my
  /\ To(c, "load_plan")
  /\ UNCHANGED <<status, plans, steps, late, answered>>

----
(* ResumeLongHorizonTask.  A user who answers a question gets a new plan:   *)
(* the steps that asked fail.                                               *)
ResumeReads(c) ==
  LET looks == \/ call[c].item = "WAITING_USER" /\ ~horizon.awaiting
               \/ call[c].item = "PAUSED" /\ horizon.failure
  IN
  /\ Reading(c, "Resume")
  /\ call[c].item \in {"WAITING_USER", "PAUSED", "READY", "RUNNING"}
  /\ answered' = IF horizon.awaiting THEN answered \cup {horizon.stage}
                                     ELSE answered
  /\ IF call[c].item \in {"READY", "RUNNING"} THEN ToSave(c, Resumed(horizon))
     ELSE Hold(c, horizon, IF looks THEN "resume_plan" ELSE "resume_task")
  /\ UNCHANGED store

ResumeLoadsPlan(c) ==
  LET failed == \E s \in Ids(Latest) : steps[s] = "FAILED" IN
  /\ call[c].at = "resume_plan"
  /\ IF call[c].item = "WAITING_USER"
     THEN Become(c, [call[c] EXCEPT !.rev = Latest, !.at = "drop_asked"])
     ELSE Hold(c, IF failed THEN [call[c].my EXCEPT !.processed = Latest]
                            ELSE call[c].my, "resume_task")
  /\ UNCHANGED <<store, answered>>

DropAsked(c) ==
  /\ call[c].at = "drop_asked"
  /\ IF \E s \in Ids(call[c].rev) : steps[s] = "WAITING_USER"
     THEN /\ \E s \in Ids(call[c].rev) : StepCAS(s, "WAITING_USER", "FAILED")
          /\ UNCHANGED call
     ELSE To(c, "resume_task") /\ UNCHANGED steps
  /\ UNCHANGED <<status, horizon, plans, late, answered>>

ResumeTask(c) ==
  /\ call[c].at = "resume_task"
  /\ TaskCAS(call[c].item,
             IF call[c].item = "PAUSED" THEN "READY" ELSE "RUNNING")
  /\ ToSave(c, Resumed(call[c].my))
  /\ UNCHANGED <<horizon, plans, steps, late, answered>>

(* CancelLongHorizonTask *)
CancelReads(c) ==
  LET over == call[c].item \in TaskTerminal
      cancelled == [horizon EXCEPT !.status = "CANCELLED"]
  IN
  /\ Reading(c, "Cancel")
  /\ over \/ CanTransition(call[c].item, "CANCELLED")
  /\ IF over THEN ToSave(c, cancelled) ELSE Hold(c, cancelled, "cancel_task")
  /\ UNCHANGED <<store, answered>>

CancelTask(c) ==
  /\ call[c].at = "cancel_task"
  /\ TaskCAS(call[c].item, "CANCELLED")
  /\ ToSave(c, call[c].my)
  /\ UNCHANGED <<horizon, plans, steps, late, answered>>

----
(* ApprovePendingWrite and ApprovePendingCommand: the user names a waiting  *)
(* step of the latest plan; files are proposed in IMPLEMENT only.           *)
PickWaiting(c) ==
  /\ call[c].at = "load_waiting"
  /\ call[c].op = "ApproveWrite" => Stages[plans[Latest].stage] = "IMPLEMENT"
  /\ \E s \in Ids(Latest) :
       /\ steps[s] = "WAITING_APPROVAL"
       /\ Become(c, [call[c] EXCEPT !.step = s, !.at = "approve_task"])
  /\ UNCHANGED <<store, answered>>

ApproveTask(c) ==
  /\ call[c].at = "approve_task"
  /\ TaskCAS("WAITING_APPROVAL", "RUNNING")
  /\ To(c, "approve_step")
  /\ UNCHANGED <<horizon, plans, steps, late, answered>>

ApproveStep(c) ==
  /\ call[c].at = "approve_step"
  /\ StepCAS(call[c].step, "WAITING_APPROVAL", "RUNNING")
  /\ To(c, "apply")
  /\ UNCHANGED <<status, horizon, plans, late, answered>>

(* The write or the command succeeds: the step is completed.  A command     *)
(* leaves the rest to the horizon; a write goes on to verify the task.      *)
Apply(c) ==
  /\ call[c].at = "apply"
  /\ StepCAS(call[c].step, "RUNNING", "COMPLETED")
  /\ IF call[c].op = "ApproveCommand" THEN Return(c) ELSE To(c, "verify")
  /\ UNCHANGED <<status, horizon, plans, late, answered>>

ApplyFails(c) ==
  /\ call[c].at = "apply"
  /\ StepCAS(call[c].step, "RUNNING", "FAILED") \/ UNCHANGED steps
  /\ To(c, "reject")
  /\ UNCHANGED <<status, horizon, plans, late, answered>>

Reject(c) ==
  /\ call[c].at = "reject"
  /\ TaskCAS("RUNNING", "FAILED") \/ UNCHANGED status
  /\ Return(c)
  /\ UNCHANGED <<horizon, plans, steps, late, answered>>

----
(* the next statement of a call in flight *)
Continue(c) ==
  \/ AdvanceOver(c) \/ AdvanceResolved(c) \/ AdvanceWaits(c)
  \/ AdvanceWorks(c) \/ TryTask(c) \/ LoadPlan(c)
  \/ CreateSegment(c) \/ ModelFails(c) \/ LoadSteps(c) \/ CloseFailed(c)
  \/ CloseCompleted(c) \/ Assess(c) \/ Park(c) \/ MoveToVerifying(c)
  \/ Decide(c) \/ Run(c) \/ StartTask(c) \/ ClaimStep(c) \/ Execute(c)
  \/ ExecuteFails(c) \/ SettleStep(c) \/ SettleTask(c) \/ DropStep(c)
  \/ DropTask(c) \/ RunFails(c) \/ Record(c) \/ Fail(c) \/ AutoPause(c)
  \/ AutoReady(c) \/ PauseTask(c) \/ Save(c) \/ Resolve(c)
  \/ ResumeReads(c) \/ ResumeLoadsPlan(c) \/ DropAsked(c) \/ ResumeTask(c)
  \/ CancelReads(c) \/ CancelTask(c) \/ PickWaiting(c) \/ ApproveTask(c)
  \/ ApproveStep(c) \/ Apply(c) \/ ApplyFails(c) \/ Reject(c)

Next ==
  \/ TimePasses
  \/ \E c \in Callers :
       \/ \E o \in Operations : Call(c, o)
       \/ Continue(c)
       \/ Abort(c)

(* A call that was made goes on or returns; runLongCycles (desktop app.ts)  *)
(* and the loops of the CLI user call Advance again and again.              *)
Fairness ==
  \A c \in Callers :
    /\ WF_vars(Continue(c) \/ Abort(c))
    /\ SF_vars(Call(c, "Advance"))

Spec == Init /\ [][Next]_vars /\ Fairness

----
Label ==
  {"idle", "load_horizon", "resolve", "try_task",
   "load_plan", "plan", "load_steps", "assess", "park", "verify", "decide",
   "run", "start", "claim", "execute", "settle", "settle_task", "drop_step",
   "drop_task", "record", "fail", "auto_pause", "auto_ready", "pause", "save",
   "resume_plan", "drop_asked", "resume_task", "cancel_task", "load_waiting",
   "approve_task", "approve_step", "apply", "reject"}

Plan ==
  {[stage |-> 0, terminal |-> FALSE, steps |-> << >>]} \cup
  [stage : Nat \ {0}, terminal : BOOLEAN,
   steps : {segment.steps : segment \in Segments}]

StoreTypes ==
  /\ status \in TaskStatus
  /\ horizon \in Horizon
  /\ plans \in Seq(Plan)
  /\ DOMAIN steps = UNION {Ids(r) : r \in DOMAIN plans}
  /\ \A s \in DOMAIN steps : steps[s] \in StepStatus
  /\ late \in BOOLEAN
  /\ answered \subseteq 1..Len(Stages)

CallState ==
  [at : Label, op : Operations \cup {NONE, "ERROR"},
   item : TaskStatus \cup {NONE}, my : Horizon \cup {NoHorizon},
   rev : 0..Latest, step : DOMAIN steps \cup {NoStep},
   to : TaskStatus \cup {NONE}, exhausted : BOOLEAN]

CallTypes == call \in [Callers -> CallState]

TypeOK == StoreTypes /\ CallTypes

(* a terminal segment of the stage, all of whose steps completed           *)
Passed(k, r) ==
  /\ plans[r].stage = k /\ plans[r].terminal
  /\ \A s \in Ids(r) : steps[s] = "COMPLETED"

(* Docs/12: the task goes "through five deterministic stages".  Whatever    *)
(* calls overlap, and whichever saved state overwrites which, a segment of  *)
(* a stage is planned only after the stage before it was passed.            *)
StagesInOrder ==
  \A r \in DOMAIN plans : plans[r].stage > 1 =>
    \E q \in 1..r - 1 : Passed(plans[r].stage - 1, q)

(* ... and the task is completed only when every stage was.                 *)
CompletedAfterAllStages ==
  status = "COMPLETED" =>
    \A k \in 1..Len(Stages) : \E r \in DOMAIN plans : Passed(k, r)

(* A checkpoint stage is left by a user only: the stage after it is planned *)
(* when somebody has resumed the horizon while it awaited that.             *)
CheckpointRespected ==
  \A r \in DOMAIN plans :
    LET k == plans[r].stage IN
    /\ k \in 2..Len(Stages)
    /\ \/ Policy = "EVERY_STAGE"
       \/ Policy = "KEY_STAGES" /\ Stages[k - 1] = "DESIGN"
    => k \in answered

(* A horizon that calls itself completed belongs to a task that is.         *)
CompletedTogether == horizon.status = "COMPLETED" => status = "COMPLETED"

(* The loop that advances a live task while its horizon is ACTIVE ends, or  *)
(* one of its calls returns an error: plans, steps, closed segments and     *)
(* automatic replans run out.                                               *)
LoopStops ==
  []<>(\/ horizon.status # "ACTIVE"
       \/ status \in TaskTerminal
       \/ \E c \in Callers : call[c].op = "ERROR")

=============================================================================
