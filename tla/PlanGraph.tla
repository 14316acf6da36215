------------------------------ MODULE PlanGraph ------------------------------
(***************************************************************************)
(* Plans as graphs: what a candidate plan must be to be accepted           *)
(* (internal/plan/validate.go, internal/planner/planner.go), which of its  *)
(* steps are ready, and which of those the scheduler would start together  *)
(* (internal/scheduler/scheduler.go).  Constant operators only; Agents     *)
(* composes them with the runtime.                                         *)
(*                                                                         *)
(* A plan is a sequence of steps in the order the planner gave them.  Step *)
(* ids are numbers, their order that of the id strings.  `whole` stands    *)
(* for the checks of one step by itself: title, goal, tools, criteria,     *)
(* scopes and positive budgets within the task's.                          *)
(***************************************************************************)
EXTENDS Naturals, Sequences, FiniteSets

CONSTANTS
  Ids,      (* step ids                                                    *)
  Tools,    (* registered tool -> its risk                                 *)
  Writers   (* tools that write files (WriteConflictChecker)               *)

Risks == {"READ", "WRITE", "DANGEROUS"}

ASSUME IdsNat == Ids \subseteq Nat
ASSUME ToolsHaveRisks == \A t \in DOMAIN Tools : Tools[t] \in Risks

Step == [id : Ids, needs : SUBSET Ids, risk : Risks, tools : SUBSET DOMAIN Tools,
         whole : BOOLEAN]
Plan == Seq(Step)

StepIds(plan) == {plan[k].id : k \in DOMAIN plan}

(* the step of an id: the first, should there be several *)
StepOf(plan, id) ==
  plan[CHOOSE k \in DOMAIN plan :
         plan[k].id = id /\ \A j \in DOMAIN plan : plan[j].id = id => k <= j]

First(ids) == CHOOSE i \in ids : \A j \in ids : i <= j

-----------------------------------------------------------------------------
(* findCycle: depth first, a step being unseen, on the trail ("visiting")   *)
(* or done.  The trail holds each visited step with the dependencies it     *)
(* still has to look at; an unknown dependency has none.                    *)
Needs(plan, id) == IF id \in StepIds(plan) THEN StepOf(plan, id).needs ELSE {}

Walks == [marks : [Ids -> {"unseen", "visiting", "done"}],
          trail : Seq([id : Ids, todo : SUBSET Ids])]

Visit(plan, walk, id) ==
  [marks |-> [walk.marks EXCEPT ![id] = "visiting"],
   trail |-> <<[id |-> id, todo |-> Needs(plan, id)]>> \o walk.trail]

Leave(walk) ==
  [marks |-> [walk.marks EXCEPT ![walk.trail[1].id] = "done"],
   trail |-> Tail(walk.trail)]

(* the step at the end of the trail has looked at one of its dependencies *)
Look(walk, next) ==
  [walk EXCEPT !.trail[1].todo = @ \ {next}]

Unseen(plan, walk) == {id \in StepIds(plan) : walk.marks[id] = "unseen"}

(* is a cycle found from here on, if `search` tells it of later walks? *)
Explored(plan, walk, search) ==
  \/ /\ walk.trail = << >> /\ Unseen(plan, walk) # {}
     /\ search[Visit(plan, walk, First(Unseen(plan, walk)))]
  \/ /\ walk.trail # << >> /\ walk.trail[1].todo = {}
     /\ search[Leave(walk)]
  \/ /\ walk.trail # << >> /\ walk.trail[1].todo # {}
     /\ LET next == First(walk.trail[1].todo)
        IN  \/ walk.marks[next] = "visiting"
            \/ /\ walk.marks[next] = "done"
               /\ search[Look(walk, next)]
            \/ /\ walk.marks[next] = "unseen"
               /\ search[Visit(plan, Look(walk, next), next)]

FindCycle(plan) ==
  LET search[walk \in Walks] == Explored(plan, walk, search)
  IN  search[[marks |-> [id \in Ids |-> "unseen"], trail |-> << >>]]

\* Mutant: only two steps that wait for each other are found.
FindMutual(plan) ==
  \E i, j \in StepIds(plan) : i \in Needs(plan, j) /\ j \in Needs(plan, i)

HasCycle(plan) == FindCycle(plan)

(* plan.Validate *)
Validate(plan, maxSteps) ==
  /\ plan # << >>
  /\ maxSteps > 0 => Len(plan) <= maxSteps
  /\ \A j, k \in DOMAIN plan : plan[j].id = plan[k].id => j = k
  /\ \A k \in DOMAIN plan :
       /\ plan[k].whole /\ plan[k].tools # {}
       /\ plan[k].id \notin plan[k].needs
       /\ plan[k].needs \subseteq StepIds(plan)
  /\ ~ HasCycle(plan)

(* validateStepPolicy: no tool riskier than its step *)
Rank(risk) == CASE risk = "READ" -> 1 [] risk = "WRITE" -> 2 [] OTHER -> 3

StepPolicy(plan) ==
  \A k \in DOMAIN plan : \A t \in plan[k].tools : Rank(Tools[t]) <= Rank(plan[k].risk)

(* validateReplan: a replan names none of the steps of the plan before it *)
Fresh(plan, previous) == StepIds(plan) \cap StepIds(previous) = {}

Accepts(plan, previous, maxSteps) ==
  Validate(plan, maxSteps) /\ StepPolicy(plan) /\ Fresh(plan, previous)

-----------------------------------------------------------------------------
(* plan.ReadySteps: in id order, whatever the order of the plan *)
DependenciesDone(step, status) == \A id \in step.needs : status[id] = "COMPLETED"

ReadySteps(plan, status) ==
  {id \in StepIds(plan) :
     /\ status[id] \in {"PENDING", "READY"}
     /\ DependenciesDone(StepOf(plan, id), status)}

-----------------------------------------------------------------------------
(* scheduler.ComputeReadySet: candidates in plan order, without those that  *)
(* conflict with a running step, as many as there are free slots            *)
Conflicts(a, b) ==
  /\ "WRITE" \in {a.risk, b.risk}
  /\ "DANGEROUS" \in {a.risk, b.risk} \/ a.tools \cap b.tools \cap Writers # {}

Running(plan, status) == {k \in DOMAIN plan : status[plan[k].id] = "RUNNING"}

Candidates(plan, status) ==
  {k \in DOMAIN plan :
     /\ status[plan[k].id] \in {"PENDING", "READY"}
     /\ DependenciesDone(plan[k], status)}

\* Mutant: candidates are only compared with one another.
UnopposedHere(plan, status) ==
  {k \in Candidates(plan, status) :
     \A j \in Candidates(plan, status) :
        j < k => ~ Conflicts(plan[k], plan[j])}

Unopposed(plan, status) ==
  {k \in Candidates(plan, status) :
     \A r \in Running(plan, status) : ~ Conflicts(plan[k], plan[r])}

Slots(plan, status, maxConcurrent) ==
  IF Cardinality(Running(plan, status)) >= maxConcurrent THEN 0
  ELSE maxConcurrent - Cardinality(Running(plan, status))

(* positions of the steps to start; nothing is skipped with no slot at all *)
ReadySet(plan, status, maxConcurrent) ==
  LET free == Unopposed(plan, status)
      slots == Slots(plan, status, maxConcurrent)
      start == {k \in free : Cardinality({j \in free : j < k}) < slots}
  IN  [steps   |-> {plan[k].id : k \in start},
       skipped |-> IF slots = 0 THEN {}
                   ELSE {plan[k].id : k \in Candidates(plan, status) \ start}]
=============================================================================
