------------------------------- MODULE Agents -------------------------------
(***************************************************************************)
(* Assignments of read-only agents (RunCoordinatorCycle, RunAssignedAgent, *)
(* RecoverRunningAgentAssignments, internal/app/service.go over            *)
(* internal/storage/agents.go) next to other runs of the same task.        *)
(*                                                                         *)
(* A coordinator finds the one ready step, assigns it and runs the         *)
(* assignment; the assignment runs RunModelStep, which chooses a step by   *)
(* itself.  Calls of several processes interleave between their reads and  *)
(* their writes, every write of an assignment being UPDATE ... WHERE       *)
(* status = from; a call may fail, or its process die, at any point.       *)
(*                                                                         *)
(* RunModelStep is taken in three actions here: it chooses a step, claims  *)
(* it, and records its outcome; ReplanTask is one.  TaskRuntime has their  *)
(* statements one by one.                                                  *)
(***************************************************************************)
EXTENDS PlanGraph

CONSTANTS
  Callers,        (* service calls in flight                               *)
  Planned,        (* candidates the planner may return                     *)
  MaxSteps,       (* Budget.MaxSteps of the task, 0: no limit              *)
  MaxConcurrent,  (* slots of the scheduler                                *)
  MaxAssignments, (* bound: assignments created                            *)
  MaxPlans        (* bound: revisions of the plan                          *)

ASSUME PlannedArePlans == Planned \subseteq Plan
ASSUME BoundsNat ==
  MaxSteps \in Nat /\ MaxConcurrent \in Nat /\ MaxAssignments \in Nat /\ MaxPlans \in Nat

VARIABLES
  task,      (* tasks.status                                               *)
  plans,     (* plan_versions, revision n at position n                    *)
  steps,     (* steps.status, NONE without a row                           *)
  results,   (* steps with artifact and evidence ids attached              *)
  agents,    (* agent_assignments in the order of creation                 *)
  handoffs,  (* assignments with an AGENT_HANDOFF artifact                 *)
  (* the calls *)
  pc, agent, step, seen, todo

store  == <<task, plans, steps, results, agents, handoffs>>
locals == <<pc, agent, step, seen, todo>>
vars   == <<store, locals>>

NONE == "NONE"
NoStep == 0
NoAgent == 0

plan == plans[Len(plans)]

(* the plan a step belongs to: ids are not used again *)
Home(id) == plans[CHOOSE n \in DOMAIN plans : id \in StepIds(plans[n])]

Runnable == {"READY", "RUNNING"}
StepStatus == {NONE, "PENDING", "READY", "RUNNING", "COMPLETED", "FAILED",
               "WAITING_USER", "WAITING_APPROVAL"}
TaskStatuses == {"READY", "RUNNING", "PAUSED", "COMPLETED", "FAILED",
                 "WAITING_USER", "WAITING_APPROVAL"}
AgentStatus == {"PENDING", "RUNNING", "SUCCEEDED", "FAILED"}

Rows(p) == [id \in Ids |-> IF id \in StepIds(p) THEN "PENDING" ELSE NONE]

Init ==
  /\ task = "READY"
  /\ \E p \in Planned :
       Accepts(p, << >>, MaxSteps) /\ plans = <<p>> /\ steps = Rows(p)
  /\ results = {} /\ agents = << >> /\ handoffs = {}
  /\ pc = [c \in Callers |-> "idle"]
  /\ agent = [c \in Callers |-> NoAgent]
  /\ step = [c \in Callers |-> NoStep]
  /\ seen = [c \in Callers |-> NONE]
  /\ todo = [c \in Callers |-> {}]

Begin(c, label) ==
  /\ pc' = [pc EXCEPT ![c] = label]
  /\ agent' = [agent EXCEPT ![c] = NoAgent]
  /\ step' = [step EXCEPT ![c] = NoStep]
  /\ seen' = [seen EXCEPT ![c] = NONE]
  /\ todo' = [todo EXCEPT ![c] = {}]

Return(c) == Begin(c, "idle")

To(c, label) == pc' = [pc EXCEPT ![c] = label]

(* a call goes on with its assignment alone *)
LeaveStep(c, label) ==
  /\ To(c, label)
  /\ step' = [step EXCEPT ![c] = NoStep]
  /\ seen' = [seen EXCEPT ![c] = NONE]
  /\ UNCHANGED <<agent, todo>>

(* an error of RunModelStep: an assignment is marked FAILED before it is    *)
(* returned                                                                 *)
Fail(c) ==
  IF agent[c] = NoAgent THEN Return(c)
  ELSE LeaveStep(c, "mark_failed")

\* Mutant: the UPDATE without its AND status = from.
AgentSet(k, from, to) == agents' = [agents EXCEPT ![k].status = to]

(* the row, if it still has the status: TransitionAgentAssignment *)
AgentCAS(k, from, to) ==
  agents[k].status = from /\ agents' = [agents EXCEPT ![k].status = to]

Ready == ReadySteps(plan, steps)
StepNamed(id) == StepOf(plan, id)
ReadOnly(id) == id \in StepIds(plan) /\ StepNamed(id).risk = "READ"

-----------------------------------------------------------------------------
Call(c, label) ==
  /\ pc[c] = "idle"
  /\ Begin(c, label)
  /\ UNCHANGED store

(* a statement fails outside RunModelStep, or the process dies *)
Abort(c) ==
  /\ pc[c] # "idle"
  /\ Return(c)
  /\ UNCHANGED store

(* RunCoordinatorCycle: exactly one ready step, and it reads *)
FindStep(c) ==
  /\ pc[c] = "coordinate"
  /\ task \in Runnable
  /\ \E id \in Ready :
       /\ Ready = {id} /\ ReadOnly(id)
       /\ step' = [step EXCEPT ![c] = id]
  /\ To(c, "list")
  /\ UNCHANGED <<store, agent, seen, todo>>

(* ... its first assignment that is not over is run, or in the way; without *)
(* one there is a new assignment                                            *)
Open(id) == {k \in DOMAIN agents :
               agents[k].step = id /\ agents[k].status \in {"PENDING", "RUNNING"}}

ListAssignments(c) ==
  /\ pc[c] = "list"
  /\ IF Open(step[c]) = {} THEN To(c, "assign") /\ UNCHANGED agent
     ELSE /\ agents[First(Open(step[c]))].status = "PENDING"
          /\ agent' = [agent EXCEPT ![c] = First(Open(step[c]))]
          /\ To(c, "load")
  /\ UNCHANGED <<store, step, seen, todo>>

(* AssignReadOnlyAgent reads everything again, then inserts *)
CheckAssignment(c) ==
  /\ pc[c] = "assign"
  /\ task \in Runnable
  /\ step[c] \in Ready /\ ReadOnly(step[c])
  /\ To(c, "insert")
  /\ UNCHANGED <<store, agent, step, seen, todo>>

CreateAgentAssignment(c) ==
  /\ pc[c] = "insert"
  /\ Len(agents) < MaxAssignments
  /\ agents' = Append(agents, [step |-> step[c], status |-> "PENDING"])
  /\ agent' = [agent EXCEPT ![c] = Len(agents) + 1]
  /\ To(c, "load")
  /\ UNCHANGED <<task, plans, steps, results, handoffs, step, seen, todo>>

(* RunAssignedAgent: pending, and its step still in the plan as assigned *)
LoadAssignment(c) ==
  /\ pc[c] = "load"
  /\ agents[agent[c]].status = "PENDING"
  /\ ReadOnly(agents[agent[c]].step)
  /\ LeaveStep(c, "start")
  /\ UNCHANGED store

StartAssignment(c) ==
  /\ pc[c] = "start"
  /\ AgentCAS(agent[c], "PENDING", "RUNNING")
  /\ To(c, "choose")
  /\ UNCHANGED <<task, plans, steps, results, handoffs>>
  /\ UNCHANGED <<agent, step, seen, todo>>

-----------------------------------------------------------------------------
(* RunModelStep: the first ready step in id order, whoever called it *)
ChooseStep(c) ==
  /\ pc[c] = "choose"
  /\ task \in Runnable /\ Ready # {}
  /\ step' = [step EXCEPT ![c] = First(Ready)]
  /\ seen' = [seen EXCEPT ![c] = task]
  /\ To(c, "claim")
  /\ UNCHANGED <<store, agent, todo>>

ClaimStep(c) ==
  /\ pc[c] = "claim"
  /\ IF seen[c] = "READY" THEN task = "READY" /\ task' = "RUNNING" ELSE UNCHANGED task
  /\ steps[step[c]] \in {"PENDING", "READY"}
  /\ steps' = [steps EXCEPT ![step[c]] = "RUNNING"]
  /\ seen' = [seen EXCEPT ![c] = NONE]
  /\ To(c, "work")
  /\ UNCHANGED <<plans, results, agents, handoffs, agent, step, todo>>

ModelStepFails(c) ==
  /\ pc[c] \in {"choose", "claim", "work"}
  /\ Fail(c)
  /\ UNCHANGED store

\* Mutant: whatever results there are, the call has handed over.
HandoverAnyway(c, attached) ==
  IF agent[c] = NoAgent THEN Return(c)
  ELSE LeaveStep(c, "handoff")

(* The results are attached, the step moves on, and the task with it.  When *)
(* RunModelStep returns without an error its snapshot must show results of  *)
(* the step that was assigned.                                              *)
Handover(c, attached) ==
  IF agent[c] = NoAgent THEN Return(c)
  ELSE LeaveStep(c, IF agents[agent[c]].step \in attached \cap StepIds(plan)
                    THEN "handoff" ELSE "mark_failed")

Terminal == {"COMPLETED", "FAILED"}

StepEnds(c, status) ==
  /\ pc[c] = "work"
  /\ results' = results \cup {step[c]}
  /\ steps' = [steps EXCEPT ![step[c]] = status]
  /\ UNCHANGED <<plans, agents, handoffs>>

StepCompletes(c) ==
  /\ StepEnds(c, "COMPLETED")
  /\ IF \A id \in StepIds(Home(step[c])) : steps'[id] \in Terminal
     THEN \/ /\ task = "RUNNING"
             /\ task' \in {"COMPLETED", "FAILED"}
             /\ Handover(c, results')
          \/ task # "RUNNING" /\ UNCHANGED task /\ Fail(c)
     ELSE UNCHANGED task /\ Handover(c, results')

StepWaits(c) ==
  \E status \in {"WAITING_USER", "WAITING_APPROVAL"} :
    /\ StepEnds(c, status)
    /\ status = "WAITING_APPROVAL" => StepOf(Home(step[c]), step[c]).risk # "READ"
    /\ \/ task = "RUNNING" /\ task' = status /\ Handover(c, results')
       \/ task # "RUNNING" /\ UNCHANGED task /\ Fail(c)

StepFails(c) ==
  /\ StepEnds(c, "FAILED")
  /\ task' = IF task = "RUNNING" THEN "FAILED" ELSE task
  /\ Fail(c)

(* persistAgentHandoff, then the assignment; a lost CAS changes nothing *)
SaveHandoff(c) ==
  /\ pc[c] = "handoff"
  /\ handoffs' = handoffs \cup {agent[c]}
  /\ To(c, "succeed")
  /\ UNCHANGED <<task, plans, steps, results, agents>>
  /\ UNCHANGED <<agent, step, seen, todo>>

Succeed(c) ==
  /\ pc[c] = "succeed"
  /\ AgentCAS(agent[c], "RUNNING", "SUCCEEDED")
  /\ Return(c)
  /\ UNCHANGED <<task, plans, steps, results, handoffs>>

MarkFailed(c) ==
  /\ pc[c] = "mark_failed"
  /\ AgentCAS(agent[c], "RUNNING", "FAILED")
  /\ Return(c)
  /\ UNCHANGED <<task, plans, steps, results, handoffs>>

-----------------------------------------------------------------------------
(* RecoverRunningAgentAssignments: the RUNNING assignments it finds fail    *)
(* one by one, then the task is paused (RecoverRunningTask)                 *)
FindRunning(c) ==
  /\ pc[c] = "recover"
  /\ task = "RUNNING"
  /\ todo' = [todo EXCEPT ![c] = {k \in DOMAIN agents : agents[k].status = "RUNNING"}]
  /\ todo'[c] # {}
  /\ To(c, "close")
  /\ UNCHANGED <<store, agent, step, seen>>

CloseRunning(c) ==
  /\ pc[c] = "close"
  /\ todo[c] # {}
  /\ AgentCAS(First(todo[c]), "RUNNING", "FAILED")
  /\ todo' = [todo EXCEPT ![c] = @ \ {First(todo[c])}]
  /\ UNCHANGED <<task, plans, steps, results, handoffs, pc, agent, step, seen>>

PauseTask(c) ==
  /\ pc[c] = "close"
  /\ todo[c] = {}
  /\ task = "RUNNING" /\ task' = "PAUSED"
  /\ Return(c)
  /\ UNCHANGED <<plans, steps, results, agents, handoffs>>

(* ReplanTask: only a paused task; step ids are a primary key *)
ReplanTask ==
  /\ task = "PAUSED" /\ Len(plans) < MaxPlans
  /\ \E p \in Planned :
       /\ Accepts(p, plan, MaxSteps)
       /\ StepIds(p) \cap UNION {StepIds(plans[n]) : n \in DOMAIN plans} = {}
       /\ plans' = Append(plans, p)
       /\ steps' = [id \in Ids |-> IF id \in StepIds(p) THEN "PENDING" ELSE steps[id]]
  /\ task' = "READY"
  /\ UNCHANGED <<results, agents, handoffs, locals>>

Entry == {"coordinate", "choose", "recover"}

Next ==
  \/ \E c \in Callers :
       \/ \E label \in Entry : Call(c, label)
       \/ Abort(c)
       \/ FindStep(c) \/ ListAssignments(c) \/ CheckAssignment(c)
       \/ CreateAgentAssignment(c) \/ LoadAssignment(c) \/ StartAssignment(c)
       \/ ChooseStep(c) \/ ClaimStep(c) \/ ModelStepFails(c)
       \/ StepCompletes(c) \/ StepWaits(c) \/ StepFails(c)
       \/ SaveHandoff(c) \/ Succeed(c) \/ MarkFailed(c)
       \/ FindRunning(c) \/ CloseRunning(c) \/ PauseTask(c)
  \/ ReplanTask

Spec == Init /\ [][Next]_vars
-----------------------------------------------------------------------------
Assignment == [step : Ids, status : AgentStatus]
Label ==
  {"idle", "coordinate", "list", "assign", "insert", "load", "start", "choose",
   "claim", "work", "handoff", "succeed", "mark_failed", "recover", "close"}

TypeOK ==
  /\ task \in TaskStatuses
  /\ plans \in Seq(Plan) /\ plans # << >>
  /\ steps \in [Ids -> StepStatus]
  /\ results \subseteq Ids
  /\ agents \in Seq(Assignment)
  /\ handoffs \subseteq DOMAIN agents
  /\ pc \in [Callers -> Label]
  /\ agent \in [Callers -> {NoAgent} \cup DOMAIN agents]
  /\ step \in [Callers -> {NoStep} \cup Ids]
  /\ seen \in [Callers -> {NONE} \cup Runnable]
  /\ todo \in [Callers -> SUBSET DOMAIN agents]

Executing(c) ==
  agent[c] # NoAgent /\
  pc[c] \in {"choose", "claim", "work", "handoff", "succeed", "mark_failed"}

(* No assignment is executed by two calls, however many coordinators found  *)
(* it pending; one that was closed is not executed again.                   *)
OneCallPerAssignment ==
  \A c \in Callers : Executing(c) =>
    /\ agents[agent[c]].status # "PENDING"
    /\ \A d \in Callers : Executing(d) /\ agent[d] = agent[c] => d = c

(* A succeeded assignment has handed over references to results of its own  *)
(* step, whichever step its call has run.                                   *)
SuccessIsBacked ==
  \A k \in DOMAIN agents : agents[k].status = "SUCCEEDED" =>
    k \in handoffs /\ agents[k].step \in results

(* No accepted plan gets stuck on its dependencies: while none of its steps *)
(* is under way, waits or has failed, one can start or all are complete.    *)
PlanKeepsGoing ==
  (\A id \in StepIds(plan) : steps[id] \in {"PENDING", "READY", "COMPLETED"}) =>
    Ready # {} \/ \A id \in StepIds(plan) : steps[id] = "COMPLETED"

(* The scheduler's ready set and the runtime's agree: what it would start   *)
(* is ready, fits the slots the running steps leave and conflicts with none *)
(* of them, and what is ready but not started is named as skipped.          *)
ReadySetsAgree ==
  LET set == ReadySet(plan, steps, MaxConcurrent)
      running == Running(plan, steps)
  IN  /\ set.steps \cup set.skipped \subseteq Ready
      /\ Cardinality(running) < MaxConcurrent => set.steps \cup set.skipped = Ready
      /\ set.steps # {} =>
           Cardinality(set.steps) + Cardinality(running) <= MaxConcurrent
      /\ \A id \in set.steps : \A r \in running :
           ~ ("WRITE" \in {StepNamed(id).risk, plan[r].risk}
              /\ StepNamed(id).tools \cap plan[r].tools \cap Writers # {})

(* README.md:114: "The Coordinator then runs only one ready read-only Step" *)
CoordinatorOnlyReads ==
  \A c \in Callers : pc[c] = "work" /\ agent[c] # NoAgent =>
    StepOf(Home(step[c]), step[c]).risk = "READ"
=============================================================================
