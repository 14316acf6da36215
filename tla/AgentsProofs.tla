---------------------------- MODULE AgentsProofs ----------------------------
(***************************************************************************)
(* Theorems about Agents, for any number of concurrent calls, any plans    *)
(* the planner may return, any budgets and bounds.                         *)
(***************************************************************************)
EXTENDS Agents, SequenceTheorems, FiniteSetTheorems, TLAPS

(* The tables, and the locals of the calls. *)
StoreTypes ==
  /\ task \in TaskStatuses
  /\ plans \in Seq(Plan) /\ plans # << >>
  /\ steps \in [Ids -> StepStatus]
  /\ results \subseteq Ids
  /\ agents \in Seq(Assignment)
  /\ handoffs \subseteq DOMAIN agents

CallTypes ==
  /\ pc \in [Callers -> Label]
  /\ agent \in [Callers -> {NoAgent} \cup DOMAIN agents]
  /\ step \in [Callers -> {NoStep} \cup Ids]
  /\ seen \in [Callers -> {NONE} \cup Runnable]
  /\ todo \in [Callers -> SUBSET DOMAIN agents]

(* Where a call has a step in hand, and where an assignment. *)
WithStep == {"list", "assign", "insert", "claim", "work"}
WithAgent == {"load", "start", "handoff", "succeed", "mark_failed"}

Holds(c) ==
  /\ pc[c] \in WithStep => step[c] \in Ids
  /\ pc[c] \in WithAgent => agent[c] \in DOMAIN agents

(* Until its first statement on the assignment is done a call does not      *)
(* execute it; from then on no other call does.                             *)
Owns(c) == Executing(c) => agents[agent[c]].status # "PENDING"
Apart(c, d) == Executing(c) /\ Executing(d) /\ agent[c] = agent[d] => c = d

(* What a call has made sure of before it reports success. *)
Backed(c) ==
  /\ pc[c] \in {"handoff", "succeed"} => agents[agent[c]].step \in results
  /\ pc[c] = "succeed" => agent[c] \in handoffs

IInv ==
  /\ TypeOK
  /\ \A c \in Callers : Holds(c) /\ Owns(c) /\ Backed(c)
  /\ \A c, d \in Callers : Apart(c, d)
  /\ SuccessIsBacked

----
(* The least of a set of numbers is one of them. *)
Less == {ss \in Nat \X Nat : ss[1] < ss[2]}

LEMMA LessIsWellFounded == IsWellFoundedOn(Less, Nat)
BY NatLessThanWellFounded DEF OpToRel, Less

LEMMA FirstIsLeast ==
  ASSUME NEW ids \in SUBSET Nat, ids # {}
  PROVE  First(ids) \in ids /\ \A j \in ids : First(ids) <= j
<1>1. PICK x \in ids : \A y \in ids : ~ (<<y, x>> \in Less)
  BY LessIsWellFounded, WFMin
<1>2. ASSUME NEW y \in ids PROVE x <= y
  <2>1. x \in Nat /\ y \in Nat OBVIOUS
  <2>2. <<y, x>> \in Nat \X Nat BY <2>1
  <2>3. ~ (<<y, x>>[1] < <<y, x>>[2]) BY <1>1, <2>2 DEF Less
  <2> QED BY <2>1, <2>3
<1> QED BY <1>2 DEF First

LEMMA FirstReady ==
  ASSUME Ready # {}, Ready \subseteq Ids
  PROVE  First(Ready) \in Ready /\ First(Ready) \in Ids
<1>1. Ready \in SUBSET Nat BY IdsNat
<1> QED BY <1>1, FirstIsLeast

(* Every plan stored is a plan; the one in force is the last. *)
LEMMA PlanStored ==
  ASSUME StoreTypes
  PROVE  plan \in Plan
<1>1. Len(plans) \in 1 .. Len(plans) BY EmptySeq DEF StoreTypes
<1> QED BY <1>1, ElementOfSeq DEF StoreTypes, plan

LEMMA IdsOfPlan ==
  ASSUME NEW p \in Plan
  PROVE  StepIds(p) \subseteq Ids
<1>1. \A k \in DOMAIN p : p[k] \in Step BY ElementOfSeq DEF Plan
<1>2. \A s \in Step : s.id \in Ids BY DEF Step
<1> QED BY <1>1, <1>2 DEF StepIds

LEMMA ReadyIds ==
  ASSUME StoreTypes
  PROVE  Ready \subseteq Ids
BY PlanStored, IdsOfPlan DEF Ready, ReadySteps

LEMMA RowsTyped ==
  ASSUME NEW p \in Plan
  PROVE  Rows(p) \in [Ids -> StepStatus]
BY DEF Rows, StepStatus

LEMMA AgentTyped ==
  ASSUME StoreTypes, NEW k \in DOMAIN agents
  PROVE  k \in Nat \ {0} /\ agents[k] \in Assignment
BY ElementOfSeq DEF StoreTypes

----
(* A step changes the locals of its caller and leaves the others' alone; it *)
(* changes the tables in a way that keeps what the others rely on.          *)
Still(d) ==
  pc'[d] = pc[d] /\ agent'[d] = agent[d] /\ step'[d] = step[d]

Local(c) == CallTypes' /\ \A d \in Callers \ {c} : Still(d)

Steady ==
  /\ StoreTypes' /\ results \subseteq results' /\ handoffs \subseteq handoffs'
  /\ \A k \in DOMAIN agents :
       /\ k \in DOMAIN agents'
       /\ agents'[k].step = agents[k].step
       /\ agents[k].status # "PENDING" => agents'[k].status # "PENDING"

(* a step that changes no assignment *)
LEMMA AgentsKept ==
  ASSUME StoreTypes', results \subseteq results', handoffs \subseteq handoffs',
         agents' = agents
  PROVE  Steady
BY DEF Steady

LEMMA OthersKept ==
  ASSUME IInv, Steady, NEW d \in Callers, Still(d)
  PROVE  Holds(d)' /\ Owns(d)' /\ Backed(d)'
<1>1. agent[d] # NoAgent => agent[d] \in DOMAIN agents
  BY DEF IInv, TypeOK
<1>2. Holds(d)' BY DEF IInv, Holds, Still, Steady
<1>3. Owns(d)' BY <1>1 DEF IInv, Owns, Executing, Still, Steady
<1>4. Backed(d)'
  BY DEF IInv, Holds, WithAgent, Backed, Still, Steady
<1> QED BY <1>2, <1>3, <1>4

(* A step that makes nobody execute another assignment. *)
LEMMA LocalStep ==
  ASSUME IInv, Steady, NEW c \in Callers, Local(c),
         Holds(c)', Owns(c)', Backed(c)', SuccessIsBacked',
         Executing(c)' => Executing(c) /\ agent'[c] = agent[c]
  PROVE  IInv'
<1>1. TypeOK' BY DEF Steady, Local, TypeOK, StoreTypes, CallTypes
<1>2. \A d \in Callers : Holds(d)' /\ Owns(d)' /\ Backed(d)'
  BY OthersKept DEF Local
<1>3. \A d, e \in Callers : Apart(d, e)'
  BY DEF IInv, Apart, Executing, Local, Still
<1> QED BY <1>1, <1>2, <1>3 DEF IInv

LEMMA SuccessKept ==
  ASSUME IInv, Steady,
         \A k \in DOMAIN agents' : agents'[k].status = "SUCCEEDED" =>
            k \in DOMAIN agents /\ agents[k].status = "SUCCEEDED"
  PROVE  SuccessIsBacked'
BY DEF IInv, SuccessIsBacked, Steady

(* Begin, Return, To, LeaveStep and Fail change locals only. *)
LEMMA BeginLocal ==
  ASSUME CallTypes, NEW c \in Callers, NEW l \in Label, Begin(c, l),
         DOMAIN agents \subseteq DOMAIN agents'
  PROVE  Local(c) /\ pc'[c] = l /\ agent'[c] = NoAgent /\ step'[c] = NoStep
BY DEF CallTypes, Begin, Local, Still

LEMMA LeaveStepLocal ==
  ASSUME CallTypes, NEW c \in Callers, NEW l \in Label, LeaveStep(c, l),
         DOMAIN agents \subseteq DOMAIN agents'
  PROVE  Local(c) /\ pc'[c] = l /\ agent'[c] = agent[c] /\ step'[c] = NoStep
BY DEF CallTypes, LeaveStep, To, Local, Still

(* a call that ends, or begins *)
LEMMA BeginKeeps ==
  ASSUME IInv, Steady, SuccessIsBacked', NEW c \in Callers,
         NEW l \in Entry \cup {"idle"}, Begin(c, l)
  PROVE  IInv'
<1>1. CallTypes /\ l \in Label
  BY DEF IInv, TypeOK, CallTypes, Entry, Label
<1>2. DOMAIN agents \subseteq DOMAIN agents' BY DEF Steady
<1>3. Local(c) /\ pc'[c] = l /\ agent'[c] = NoAgent
  BY <1>1, <1>2, BeginLocal
<1>4. Holds(c)' /\ Owns(c)' /\ Backed(c)' /\ ~ Executing(c)'
  BY <1>3 DEF Entry, Holds, Owns, Backed, Executing, WithStep, WithAgent
<1> QED BY <1>3, <1>4, LocalStep

(* a call that goes on with its assignment alone *)
LEMMA LeaveStepKeeps ==
  ASSUME IInv, Steady, SuccessIsBacked', NEW c \in Callers,
         NEW l \in {"start", "handoff", "mark_failed"}, LeaveStep(c, l),
         l = "start" => pc[c] = "load",
         l # "start" => Executing(c),
         l = "handoff" => agents[agent[c]].step \in results'
  PROVE  IInv'
<1>1. CallTypes /\ l \in Label BY DEF IInv, TypeOK, CallTypes, Label
<1>2. DOMAIN agents \subseteq DOMAIN agents' BY DEF Steady
<1>3. Local(c) /\ pc'[c] = l /\ agent'[c] = agent[c]
  BY <1>1, <1>2, LeaveStepLocal
<1>4. agent[c] \in DOMAIN agents
  BY <1>1 DEF IInv, Holds, WithAgent, Executing, CallTypes
<1>5. Holds(c)' BY <1>2, <1>3, <1>4 DEF Holds, WithStep
<1>6. Owns(c)'
  BY <1>3, <1>4 DEF IInv, Owns, Executing, Steady
<1>7. Backed(c)' BY <1>3, <1>4 DEF Backed, Steady
<1>8. Executing(c)' => Executing(c) /\ agent'[c] = agent[c]
  BY <1>3 DEF Executing
<1> QED BY <1>3, <1>5, <1>6, <1>7, <1>8, LocalStep

LEMMA FailKeeps ==
  ASSUME IInv, Steady, SuccessIsBacked', NEW c \in Callers,
         pc[c] \in {"choose", "claim", "work"}, Fail(c)
  PROVE  IInv'
<1>1. agent[c] # NoAgent => Executing(c) BY DEF Executing
<1> QED BY <1>1, BeginKeeps, LeaveStepKeeps DEF Fail, Return

(* a call that stays with its assignment, or has none *)
LEMMA ToKeeps ==
  ASSUME IInv, Steady, SuccessIsBacked', NEW c \in Callers, Local(c),
         pc'[c] \in {"list", "assign", "insert", "claim", "work", "close", "load"},
         pc'[c] \in WithStep => step'[c] \in Ids,
         pc'[c] = "load" => agent'[c] \in DOMAIN agents',
         pc'[c] \in {"claim", "work"} =>
           pc[c] \in {"choose", "claim"} /\ agent'[c] = agent[c]
  PROVE  IInv'
<1>1. Holds(c)' BY DEF Holds, WithAgent
<1>2. Executing(c)' => Executing(c) /\ agent'[c] = agent[c]
  BY DEF Executing
<1>3. Owns(c)'
  BY <1>2 DEF IInv, TypeOK, Owns, Executing, Steady
<1>4. Backed(c)' BY DEF Backed
<1> QED BY <1>1, <1>2, <1>3, <1>4, LocalStep

----
(* The statements on tables other than the assignments. *)
LEMMA StoreKept ==
  ASSUME IInv, UNCHANGED store
  PROVE  Steady /\ SuccessIsBacked'
<1>1. Steady BY DEF IInv, TypeOK, store, Steady, StoreTypes
<1> QED BY <1>1, SuccessKept DEF store

LEMMA TablesKept ==
  ASSUME IInv, StoreTypes', results \subseteq results',
         handoffs \subseteq handoffs', agents' = agents
  PROVE  Steady /\ SuccessIsBacked'
<1>1. Steady BY AgentsKept
<1> QED BY <1>1, SuccessKept

LEMMA CASKeeps ==
  ASSUME IInv, NEW k \in DOMAIN agents, NEW from \in AgentStatus,
         NEW to \in AgentStatus \ {"PENDING"}, AgentCAS(k, from, to),
         UNCHANGED <<task, plans, steps, results, handoffs>>,
         to = "SUCCEEDED" => k \in handoffs /\ agents[k].step \in results
  PROVE  Steady /\ SuccessIsBacked' /\ agents[k].status = from
         /\ agents'[k].status = to /\ DOMAIN agents' = DOMAIN agents
         /\ \A j \in DOMAIN agents \ {k} : agents'[j] = agents[j]
<1>1. StoreTypes BY DEF IInv, TypeOK, StoreTypes
<1>2. /\ DOMAIN agents' = DOMAIN agents
      /\ \A j \in DOMAIN agents \ {k} : agents'[j] = agents[j]
      /\ agents'[k] = [agents[k] EXCEPT !.status = to]
      /\ agents[k].status = from
  BY <1>1 DEF AgentCAS, StoreTypes
<1>3. agents[k] \in Assignment BY <1>1, AgentTyped
<1>4. /\ agents'[k] \in Assignment /\ agents'[k].status = to
      /\ agents'[k].step = agents[k].step
  BY <1>2, <1>3 DEF Assignment
<1>5. agents' \in Seq(Assignment)
  <2>1. agents' = [agents EXCEPT ![k] = agents'[k]]
    BY <1>2 DEF AgentCAS
  <2>2. k \in 1 .. Len(agents) BY <1>1 DEF StoreTypes
  <2> QED BY <1>1, <1>4, <2>1, <2>2, ExceptSeq DEF StoreTypes
<1>6. Steady
  BY <1>1, <1>2, <1>4, <1>5 DEF Steady, StoreTypes
<1>7. SuccessIsBacked'
  BY <1>2, <1>4 DEF IInv, SuccessIsBacked
<1> QED BY <1>2, <1>4, <1>6, <1>7

----
LEMMA CallKeeps ==
  ASSUME IInv, NEW c \in Callers, NEW l \in Entry, Call(c, l)
  PROVE  IInv'
BY StoreKept, BeginKeeps DEF Call

LEMMA AbortKeeps ==
  ASSUME IInv, NEW c \in Callers, Abort(c)
  PROVE  IInv'
BY StoreKept, BeginKeeps DEF Abort, Return

LEMMA FindStepKeeps ==
  ASSUME IInv, NEW c \in Callers, FindStep(c)
  PROVE  IInv'
<1>1. StoreTypes /\ CallTypes BY DEF IInv, TypeOK, StoreTypes, CallTypes
<1>2. step'[c] \in Ids /\ pc'[c] = "list" /\ Local(c)
  BY <1>1, ReadyIds DEF FindStep, To, store, CallTypes, Local, Still, Label
<1>3. Steady /\ SuccessIsBacked' BY StoreKept DEF FindStep
<1> QED BY <1>2, <1>3, ToKeeps

LEMMA ListAssignmentsKeeps ==
  ASSUME IInv, NEW c \in Callers, ListAssignments(c)
  PROVE  IInv'
<1>1. StoreTypes /\ CallTypes BY DEF IInv, TypeOK, StoreTypes, CallTypes
<1>2. Steady /\ SuccessIsBacked' BY StoreKept DEF ListAssignments
<1>3. step[c] \in Ids BY DEF IInv, Holds, WithStep, ListAssignments
<1>4. CASE Open(step[c]) = {}
  <2>1. Local(c) /\ pc'[c] = "assign" /\ step'[c] \in Ids
    BY <1>1, <1>3, <1>4
    DEF ListAssignments, To, store, CallTypes, Local, Still, Label
  <2> QED BY <1>2, <2>1, ToKeeps
<1>5. CASE Open(step[c]) # {}
  <2>1. Open(step[c]) \in SUBSET Nat /\ Open(step[c]) \subseteq DOMAIN agents
    BY <1>1, AgentTyped DEF Open
  <2>2. First(Open(step[c])) \in DOMAIN agents
    BY <1>5, <2>1, FirstIsLeast
  <2>3. Local(c) /\ pc'[c] = "load" /\ agent'[c] \in DOMAIN agents'
    BY <1>1, <1>5, <2>2
    DEF ListAssignments, To, store, CallTypes, Local, Still, Label
  <2> QED BY <1>2, <2>3, ToKeeps DEF WithStep
<1> QED BY <1>4, <1>5

LEMMA CheckAssignmentKeeps ==
  ASSUME IInv, NEW c \in Callers, CheckAssignment(c)
  PROVE  IInv'
<1>1. CallTypes BY DEF IInv, TypeOK, CallTypes
<1>2. step[c] \in Ids BY DEF IInv, Holds, WithStep, CheckAssignment
<1>3. Local(c) /\ pc'[c] = "insert" /\ step'[c] \in Ids
  BY <1>1, <1>2 DEF CheckAssignment, To, store, CallTypes, Local, Still, Label
<1> QED BY <1>3, StoreKept, ToKeeps DEF CheckAssignment

LEMMA CreateKeeps ==
  ASSUME IInv, NEW c \in Callers, CreateAgentAssignment(c)
  PROVE  IInv'
<1>1. StoreTypes /\ CallTypes BY DEF IInv, TypeOK, StoreTypes, CallTypes
<1> DEFINE new == [step |-> step[c], status |-> "PENDING"]
<1>2. new \in Assignment
  BY DEF IInv, Holds, WithStep, CreateAgentAssignment, Assignment, AgentStatus
<1>3. agents' = Append(agents, new) /\ agents \in Seq(Assignment)
  BY <1>1 DEF CreateAgentAssignment, StoreTypes
<1>4. /\ agents' \in Seq(Assignment)
      /\ Len(agents) \in Nat
      /\ DOMAIN agents = 1 .. Len(agents)
      /\ DOMAIN agents' = 1 .. Len(agents) + 1
      /\ \A k \in DOMAIN agents : agents'[k] = agents[k]
      /\ agents'[Len(agents) + 1] = new
  BY <1>2, <1>3, AppendProperties
<1>5. Steady
  BY <1>1, <1>4 DEF CreateAgentAssignment, Steady, StoreTypes
<1>6. SuccessIsBacked'
  BY <1>4, <1>5, SuccessKept
<1>7. Local(c) /\ pc'[c] = "load" /\ agent'[c] \in DOMAIN agents'
  BY <1>1, <1>4
  DEF CreateAgentAssignment, To, CallTypes, Local, Still, Label
<1> QED BY <1>5, <1>6, <1>7, ToKeeps DEF WithStep

LEMMA LoadAssignmentKeeps ==
  ASSUME IInv, NEW c \in Callers, LoadAssignment(c)
  PROVE  IInv'
BY StoreKept, LeaveStepKeeps DEF LoadAssignment

(* The compare-and-set is won by one call only: an assignment that another  *)
(* call executes is not PENDING.                                            *)
LEMMA StartKeeps ==
  ASSUME IInv, NEW c \in Callers, StartAssignment(c)
  PROVE  IInv'
<1>1. StoreTypes /\ CallTypes BY DEF IInv, TypeOK, StoreTypes, CallTypes
<1>2. agent[c] \in DOMAIN agents
  BY DEF IInv, Holds, WithAgent, StartAssignment
<1>3. /\ Steady /\ SuccessIsBacked'
      /\ agents[agent[c]].status = "PENDING"
      /\ agents'[agent[c]].status = "RUNNING"
      /\ DOMAIN agents' = DOMAIN agents
  BY <1>2, CASKeeps DEF StartAssignment, AgentStatus
<1>4. Local(c) /\ pc'[c] = "choose" /\ agent'[c] = agent[c]
  BY <1>1, <1>3 DEF StartAssignment, To, CallTypes, Local, Still, Label
<1>5. TypeOK' BY <1>3, <1>4 DEF Steady, Local, TypeOK, StoreTypes, CallTypes
<1>6. Holds(c)' /\ Owns(c)' /\ Backed(c)'
  BY <1>3, <1>4 DEF Holds, WithStep, WithAgent, Owns, Backed
<1>7. \A d \in Callers : Holds(d)' /\ Owns(d)' /\ Backed(d)'
  BY <1>3, <1>4, <1>6, OthersKept DEF Local
<1>8. ASSUME NEW d \in Callers \ {c}
      PROVE  ~ (Executing(d)' /\ agent'[d] = agent[c])
  BY <1>3, <1>4 DEF IInv, Owns, Executing, Local, Still
<1>9. \A d, e \in Callers : Apart(d, e)'
  BY <1>4, <1>8 DEF IInv, Apart, Executing, Local, Still
<1> QED BY <1>3, <1>5, <1>7, <1>9 DEF IInv

LEMMA ChooseStepKeeps ==
  ASSUME IInv, NEW c \in Callers, ChooseStep(c)
  PROVE  IInv'
<1>1. StoreTypes /\ CallTypes BY DEF IInv, TypeOK, StoreTypes, CallTypes
<1>2. First(Ready) \in Ids BY <1>1, ReadyIds, FirstReady DEF ChooseStep
<1>3. Local(c) /\ pc'[c] = "claim" /\ step'[c] \in Ids /\ agent'[c] = agent[c]
  BY <1>1, <1>2 DEF ChooseStep, To, store, CallTypes, Local, Still, Label
<1> QED BY <1>3, StoreKept, ToKeeps DEF ChooseStep

LEMMA ClaimStepKeeps ==
  ASSUME IInv, NEW c \in Callers, ClaimStep(c)
  PROVE  IInv'
<1>1. StoreTypes /\ CallTypes BY DEF IInv, TypeOK, StoreTypes, CallTypes
<1>2. step[c] \in Ids BY DEF IInv, Holds, WithStep, ClaimStep
<1>3. StoreTypes'
  BY <1>1 DEF ClaimStep, StoreTypes, TaskStatuses, StepStatus
<1>4. Steady /\ SuccessIsBacked' BY <1>3, TablesKept DEF ClaimStep
<1>5. Local(c) /\ pc'[c] = "work" /\ step'[c] \in Ids /\ agent'[c] = agent[c]
  BY <1>1, <1>2 DEF ClaimStep, To, CallTypes, Local, Still, Label
<1> QED BY <1>4, <1>5, ToKeeps DEF ClaimStep

LEMMA ModelStepFailsKeeps ==
  ASSUME IInv, NEW c \in Callers, ModelStepFails(c)
  PROVE  IInv'
BY StoreKept, FailKeeps DEF ModelStepFails

LEMMA StepEndsKeeps ==
  ASSUME IInv, NEW c \in Callers, NEW s \in StepStatus, StepEnds(c, s),
         task' \in TaskStatuses
  PROVE  Steady /\ SuccessIsBacked'
<1>1. StoreTypes /\ step[c] \in Ids
  BY DEF IInv, TypeOK, StoreTypes, Holds, WithStep, StepEnds
<1>2. StoreTypes' BY <1>1 DEF StepEnds, StoreTypes
<1> QED BY <1>2, TablesKept DEF StepEnds

(* Handover goes on to the handoff only with results of the assigned step. *)
LEMMA HandoverKeeps ==
  ASSUME IInv, Steady, SuccessIsBacked', NEW c \in Callers, pc[c] = "work",
         Handover(c, results')
  PROVE  IInv'
<1>1. agent[c] # NoAgent => Executing(c) BY DEF Executing
<1>2. CASE agent[c] = NoAgent BY <1>2, BeginKeeps DEF Handover, Return
<1>3. CASE agent[c] # NoAgent
  BY <1>1, <1>3, LeaveStepKeeps DEF Handover
<1> QED BY <1>2, <1>3

LEMMA StepOutcomeKeeps ==
  ASSUME IInv, NEW c \in Callers,
         StepCompletes(c) \/ StepWaits(c) \/ StepFails(c)
  PROVE  IInv'
<1>1. task \in TaskStatuses BY DEF IInv, TypeOK
<1>2. pc[c] = "work" BY DEF StepCompletes, StepWaits, StepFails, StepEnds
<1>3. PICK s \in StepStatus : StepEnds(c, s)
  BY DEF StepCompletes, StepWaits, StepFails, StepStatus
<1>4. task' \in TaskStatuses
  BY <1>1 DEF StepCompletes, StepWaits, StepFails, TaskStatuses
<1>5. Steady /\ SuccessIsBacked' BY <1>3, <1>4, StepEndsKeeps
<1>6. Handover(c, results') \/ Fail(c)
  BY DEF StepCompletes, StepWaits, StepFails
<1> QED BY <1>2, <1>5, <1>6, HandoverKeeps, FailKeeps

LEMMA SaveHandoffKeeps ==
  ASSUME IInv, NEW c \in Callers, SaveHandoff(c)
  PROVE  IInv'
<1>1. StoreTypes /\ CallTypes BY DEF IInv, TypeOK, StoreTypes, CallTypes
<1>2. agent[c] \in DOMAIN agents
  BY DEF IInv, Holds, WithAgent, SaveHandoff
<1>3. StoreTypes' BY <1>1, <1>2 DEF SaveHandoff, StoreTypes
<1>4. Steady /\ SuccessIsBacked' BY <1>3, TablesKept DEF SaveHandoff
<1>5. Local(c) /\ pc'[c] = "succeed" /\ agent'[c] = agent[c]
  BY <1>1 DEF SaveHandoff, To, CallTypes, Local, Still, Label
<1>6. Executing(c) BY <1>1, <1>2, AgentTyped DEF Executing, SaveHandoff, NoAgent
<1>7. Holds(c)' /\ Owns(c)' /\ Backed(c)'
  BY <1>2, <1>5, <1>6
  DEF IInv, SaveHandoff, Holds, WithStep, Owns, Executing, Backed
<1> QED BY <1>4, <1>5, <1>6, <1>7, LocalStep

(* Success and failure are recorded on the assignment the call executes. *)
LEMMA FinishKeeps ==
  ASSUME IInv, NEW c \in Callers, Succeed(c) \/ MarkFailed(c)
  PROVE  IInv'
<1>1. agent[c] \in DOMAIN agents
  BY DEF IInv, Holds, WithAgent, Succeed, MarkFailed
<1>2. CASE Succeed(c)
  <2>1. agent[c] \in handoffs /\ agents[agent[c]].step \in results
    BY <1>2 DEF IInv, Backed, Succeed
  <2>2. Steady /\ SuccessIsBacked'
    BY <1>1, <1>2, <2>1, CASKeeps DEF Succeed, AgentStatus
  <2> QED BY <1>2, <2>2, BeginKeeps DEF Succeed, Return
<1>3. CASE MarkFailed(c)
  <2>1. Steady /\ SuccessIsBacked'
    BY <1>1, <1>3, CASKeeps DEF MarkFailed, AgentStatus
  <2> QED BY <1>3, <2>1, BeginKeeps DEF MarkFailed, Return
<1> QED BY <1>2, <1>3

LEMMA FindRunningKeeps ==
  ASSUME IInv, NEW c \in Callers, FindRunning(c)
  PROVE  IInv'
<1>1. CallTypes BY DEF IInv, TypeOK, CallTypes
<1>2. Local(c) /\ pc'[c] = "close"
  BY <1>1 DEF FindRunning, To, store, CallTypes, Local, Still, Label
<1> QED BY <1>2, StoreKept, ToKeeps DEF FindRunning, WithStep

LEMMA CloseRunningKeeps ==
  ASSUME IInv, NEW c \in Callers, CloseRunning(c)
  PROVE  IInv'
<1>1. StoreTypes /\ CallTypes BY DEF IInv, TypeOK, StoreTypes, CallTypes
<1>2. todo[c] \in SUBSET Nat /\ todo[c] \subseteq DOMAIN agents
  BY <1>1, AgentTyped DEF CallTypes
<1>3. First(todo[c]) \in DOMAIN agents
  BY <1>2, FirstIsLeast DEF CloseRunning
<1>4. Steady /\ SuccessIsBacked' /\ DOMAIN agents' = DOMAIN agents
  BY <1>3, CASKeeps DEF CloseRunning, AgentStatus
<1>5. Local(c) /\ pc'[c] = "close"
  BY <1>1, <1>4 DEF CloseRunning, CallTypes, Local, Still
<1> QED BY <1>4, <1>5, ToKeeps DEF WithStep

LEMMA PauseTaskKeeps ==
  ASSUME IInv, NEW c \in Callers, PauseTask(c)
  PROVE  IInv'
<1>1. StoreTypes' BY DEF IInv, TypeOK, PauseTask, StoreTypes, TaskStatuses
<1>2. Steady /\ SuccessIsBacked' BY <1>1, TablesKept DEF PauseTask
<1> QED BY <1>2, BeginKeeps DEF PauseTask, Return

(* a step that leaves every call where it is *)
LEMMA OutsideKeeps ==
  ASSUME IInv, Steady, SuccessIsBacked', UNCHANGED locals
  PROVE  IInv'
<1>1. TypeOK' BY DEF IInv, TypeOK, StoreTypes, Steady, locals
<1>2. \A d \in Callers : Still(d) BY DEF Still, locals
<1>3. \A d, e \in Callers : Apart(d, e)'
  BY DEF IInv, Apart, Executing, locals
<1> QED BY <1>1, <1>2, <1>3, OthersKept DEF IInv

LEMMA ReplanKeeps ==
  ASSUME IInv, ReplanTask
  PROVE  IInv'
<1>1. PICK p \in Planned :
        /\ plans' = Append(plans, p)
        /\ steps' = [id \in Ids |-> IF id \in StepIds(p) THEN "PENDING" ELSE steps[id]]
  BY DEF ReplanTask
<1>2. p \in Plan BY PlannedArePlans
<1>3. plans' \in Seq(Plan) /\ plans' # << >>
  BY <1>1, <1>2, AppendProperties, EmptySeq DEF IInv, TypeOK
<1>4. steps' \in [Ids -> StepStatus]
  BY <1>1 DEF IInv, TypeOK, StepStatus
<1>5. StoreTypes'
  BY <1>3, <1>4 DEF IInv, TypeOK, ReplanTask, StoreTypes, TaskStatuses
<1>6. Steady /\ SuccessIsBacked' BY <1>5, TablesKept DEF ReplanTask
<1> QED BY <1>6, OutsideKeeps DEF ReplanTask

LEMMA InitInv == Init => IInv
<1> SUFFICES ASSUME Init PROVE IInv OBVIOUS
<1>1. PICK p \in Planned : plans = <<p>> /\ steps = Rows(p)
  BY DEF Init
<1>2. p \in Plan BY PlannedArePlans
<1>3. plans \in Seq(Plan) /\ plans # << >> BY <1>1, <1>2
<1>4. steps \in [Ids -> StepStatus] BY <1>1, <1>2, RowsTyped
<1>5. agents \in Seq(Assignment) /\ DOMAIN agents = {}
  BY EmptySeq DEF Init
<1>6. TypeOK
  BY <1>3, <1>4, <1>5 DEF Init, TypeOK, TaskStatuses, Label
<1> QED BY <1>5, <1>6
  DEF Init, IInv, Holds, Owns, Backed, Apart, Executing, SuccessIsBacked,
      WithStep, WithAgent

LEMMA NextInv == IInv /\ [Next]_vars => IInv'
<1> SUFFICES ASSUME IInv, [Next]_vars PROVE IInv' OBVIOUS
<1>1. CASE UNCHANGED vars
  BY <1>1, StoreKept, OutsideKeeps DEF vars
<1>2. CASE ReplanTask BY <1>2, ReplanKeeps
<1>3. ASSUME NEW c \in Callers, NEW l \in Entry, Call(c, l) PROVE IInv'
  BY <1>3, CallKeeps
<1>4. ASSUME NEW c \in Callers,
             \/ Abort(c) \/ FindStep(c) \/ ListAssignments(c)
             \/ CheckAssignment(c) \/ CreateAgentAssignment(c)
             \/ LoadAssignment(c) \/ StartAssignment(c)
      PROVE  IInv'
  BY <1>4, AbortKeeps, FindStepKeeps, ListAssignmentsKeeps,
     CheckAssignmentKeeps, CreateKeeps, LoadAssignmentKeeps, StartKeeps
<1>5. ASSUME NEW c \in Callers,
             \/ ChooseStep(c) \/ ClaimStep(c) \/ ModelStepFails(c)
             \/ StepCompletes(c) \/ StepWaits(c) \/ StepFails(c)
             \/ SaveHandoff(c) \/ Succeed(c) \/ MarkFailed(c)
      PROVE  IInv'
  BY <1>5, ChooseStepKeeps, ClaimStepKeeps, ModelStepFailsKeeps,
     StepOutcomeKeeps, SaveHandoffKeeps, FinishKeeps
<1>6. ASSUME NEW c \in Callers,
             FindRunning(c) \/ CloseRunning(c) \/ PauseTask(c)
      PROVE  IInv'
  BY <1>6, FindRunningKeeps, CloseRunningKeeps, PauseTaskKeeps
<1> QED BY <1>1, <1>2, <1>3, <1>4, <1>5, <1>6 DEF Next

(* The inductive invariant of the assignments: types, what each call holds, *)
(* one call per assignment in execution, and what backs a success.          *)
THEOREM Invariance == Spec => []IInv
BY InitInv, NextInv, PTL DEF Spec

(* The tables and the locals of every call keep their types, whatever the   *)
(* planner plans and wherever calls are cut off.                            *)
THEOREM TypeCorrect == Spec => []TypeOK
<1>1. IInv => TypeOK BY DEF IInv
<1> QED BY <1>1, Invariance, PTL

(* RunAssignedAgent: however many coordinators find an assignment pending,  *)
(* and however recovery closes it, one call executes it.                    *)
THEOREM ExecutedOnce == Spec => []OneCallPerAssignment
<1>1. IInv => OneCallPerAssignment
  BY DEF IInv, Owns, Apart, OneCallPerAssignment
<1> QED BY <1>1, Invariance, PTL

(* persistAgentHandoff: an assignment that is SUCCEEDED has its handoff and *)
(* results of its own step, whichever step its call has run.                *)
THEOREM SuccessBacked == Spec => []SuccessIsBacked
<1>1. IInv => SuccessIsBacked BY DEF IInv
<1> QED BY <1>1, Invariance, PTL

----
(* The ready sets.  An accepted plan has no id twice, so the position and   *)
(* the id of a step say the same.                                           *)
UniqueIds(p) == \A j, k \in DOMAIN p : p[j].id = p[k].id => j = k
Sound == \A n \in DOMAIN plans : UniqueIds(plans[n])

(* Every plan stored was accepted. *)
Accepted == \A n \in DOMAIN plans : Validate(plans[n], MaxSteps)

LEMMA AcceptedPlans == Spec => []Accepted
<1>1. Init => Accepted
  BY DEF Init, Accepted, Accepts
<1>2. IInv /\ Accepted /\ [Next]_vars => Accepted'
  <2> SUFFICES ASSUME IInv, Accepted, [Next]_vars PROVE Accepted' OBVIOUS
  <2>1. CASE plans' = plans BY <2>1 DEF Accepted
  <2>2. CASE ReplanTask
    <3>1. PICK p \in Planned :
            Accepts(p, plan, MaxSteps) /\ plans' = Append(plans, p)
      BY <2>2 DEF ReplanTask
    <3>2. p \in Plan BY PlannedArePlans
    <3>3. /\ Len(plans) \in Nat /\ DOMAIN plans = 1 .. Len(plans)
          /\ DOMAIN plans' = 1 .. Len(plans) + 1
          /\ \A n \in DOMAIN plans : plans'[n] = plans[n]
          /\ plans'[Len(plans) + 1] = p
      BY <3>1, <3>2, AppendProperties DEF IInv, TypeOK
    <3>4. Validate(p, MaxSteps) BY <3>1 DEF Accepts
    <3> QED BY <3>3, <3>4 DEF Accepted
  <2>3. CASE UNCHANGED vars BY <2>1, <2>3 DEF vars, store
  <2>4. ASSUME NEW c \in Callers, NEW l \in Entry, Call(c, l)
        PROVE  plans' = plans
    BY <2>4 DEF Call, store
  <2>5. ASSUME NEW c \in Callers,
               \/ Abort(c) \/ FindStep(c) \/ ListAssignments(c)
               \/ CheckAssignment(c) \/ CreateAgentAssignment(c)
               \/ LoadAssignment(c) \/ StartAssignment(c)
               \/ FindRunning(c) \/ CloseRunning(c) \/ PauseTask(c)
        PROVE  plans' = plans
    BY <2>5 DEF Abort, FindStep, ListAssignments, CheckAssignment,
       CreateAgentAssignment, LoadAssignment, StartAssignment, FindRunning,
       CloseRunning, PauseTask, store
  <2>6. ASSUME NEW c \in Callers,
               \/ ChooseStep(c) \/ ClaimStep(c) \/ ModelStepFails(c)
               \/ StepCompletes(c) \/ StepWaits(c) \/ StepFails(c)
               \/ SaveHandoff(c) \/ Succeed(c) \/ MarkFailed(c)
        PROVE  plans' = plans
    BY <2>6 DEF ChooseStep, ClaimStep, ModelStepFails, StepCompletes,
       StepWaits, StepFails, StepEnds, SaveHandoff, Succeed, MarkFailed, store
  <2> QED BY <2>1, <2>2, <2>3, <2>4, <2>5, <2>6 DEF Next
<1> QED BY <1>1, <1>2, Invariance, PTL DEF Spec

LEMMA SoundPlans == Spec => []Sound
<1>1. Accepted => Sound BY DEF Accepted, Sound, Validate, UniqueIds
<1> QED BY <1>1, AcceptedPlans, PTL

LEMMA StepAt ==
  ASSUME NEW p \in Plan, UniqueIds(p), NEW k \in DOMAIN p
  PROVE  StepOf(p, p[k].id) = p[k]
<1>1. DOMAIN p \subseteq Nat BY DEF Plan
<1>2. \A j \in DOMAIN p :
        (p[j].id = p[k].id
         /\ \A i \in DOMAIN p : p[i].id = p[k].id => j <= i) <=> j = k
  BY <1>1 DEF UniqueIds
<1> QED BY <1>2 DEF StepOf

LEMMA CandidatesReady ==
  ASSUME NEW p \in Plan, UniqueIds(p), NEW status
  PROVE  {p[k].id : k \in Candidates(p, status)} = ReadySteps(p, status)
BY StepAt DEF Candidates, ReadySteps, StepIds

(* As many of a set of positions as have fewer than n before them are at    *)
(* most n: all but the last of them are before the last.                    *)
LEMMA FirstFew ==
  ASSUME NEW n \in Nat, NEW m \in Nat, NEW free \in SUBSET (1 .. m),
         NEW start \in SUBSET free,
         \A k \in start : Cardinality({j \in free : j < k}) < n
  PROVE  IsFiniteSet(start) /\ Cardinality(start) <= n
<1>1. IsFiniteSet(1 .. m) BY FS_Interval
<1>2. IsFiniteSet(free) /\ IsFiniteSet(start) BY <1>1, FS_Subset
<1>3. CASE start = {} BY <1>3, FS_EmptySet
<1>4. CASE start # {}
  <2> DEFINE mirror == {m - k : k \in start}
  <2>0. \A k \in start : k \in Nat /\ m - k \in Nat OBVIOUS
  <2>1. mirror \in SUBSET Nat /\ mirror # {} BY <1>4, <2>0
  <2>2. PICK last \in start : m - last = First(mirror)
    BY <2>1, FirstIsLeast
  <2>3. \A k \in start : k <= last
    <3> SUFFICES ASSUME NEW k \in start PROVE k <= last OBVIOUS
    <3>1. First(mirror) <= m - k BY <2>1, FirstIsLeast
    <3> HIDE DEF mirror
    <3> QED BY <2>0, <2>2, <3>1
  <2>4. start \ {last} \in SUBSET {j \in free : j < last} BY <2>3
  <2>5. IsFiniteSet({j \in free : j < last}) BY <1>2, FS_Subset
  <2>6. Cardinality(start \ {last}) <= Cardinality({j \in free : j < last})
    BY <2>4, <2>5, FS_Subset
  <2>7. Cardinality(start \ {last}) = Cardinality(start) - 1
    BY <1>2, FS_RemoveElement
  <2>8. Cardinality(start) \in Nat /\ Cardinality({j \in free : j < last}) \in Nat
    BY <1>2, <2>5, FS_CardinalityType
  <2> QED BY <1>2, <2>6, <2>7, <2>8
<1> QED BY <1>2, <1>3, <1>4

LEMMA SchedulerSound ==
  ASSUME StoreTypes, Sound
  PROVE  ReadySetsAgree
<1> DEFINE status == steps
           running == Running(plan, steps)
           slots == Slots(plan, steps, MaxConcurrent)
           free == Unopposed(plan, steps)
           candidates == Candidates(plan, steps)
           start == {k \in free : Cardinality({j \in free : j < k}) < slots}
           set == ReadySet(plan, steps, MaxConcurrent)
<1>1. plan \in Plan /\ UniqueIds(plan)
  <2>1. Len(plans) \in DOMAIN plans BY EmptySeq DEF StoreTypes
  <2> QED BY <2>1, PlanStored DEF Sound, plan
<1>2. /\ set.steps = {plan[k].id : k \in start}
      /\ set.skipped = IF slots = 0 THEN {}
                       ELSE {plan[k].id : k \in candidates \ start}
  BY DEF ReadySet
<1>3. start \subseteq free /\ free \subseteq candidates
      /\ candidates \subseteq DOMAIN plan
  BY DEF Unopposed, Candidates
<1>4. {plan[k].id : k \in candidates} = Ready
  BY <1>1, CandidatesReady DEF Ready
<1>5. PICK m \in Nat : DOMAIN plan = 1 .. m BY <1>1 DEF Plan
<1>6. IsFiniteSet(running) /\ Cardinality(running) \in Nat
  <2>1. IsFiniteSet(1 .. m) BY FS_Interval
  <2>2. running \in SUBSET (1 .. m) BY <1>5 DEF Running
  <2> QED BY <2>1, <2>2, FS_Subset, FS_CardinalityType
<1>7. /\ slots \in Nat
      /\ Cardinality(running) < MaxConcurrent => slots # 0
      /\ slots # 0 => slots + Cardinality(running) = MaxConcurrent
  BY <1>6, BoundsNat DEF Slots
<1>8. set.steps \cup set.skipped \subseteq Ready
  BY <1>2, <1>3, <1>4
<1>9. Cardinality(running) < MaxConcurrent => set.steps \cup set.skipped = Ready
  BY <1>2, <1>3, <1>4, <1>7
<1>10. ASSUME set.steps # {}
       PROVE  Cardinality(set.steps) + Cardinality(running) <= MaxConcurrent
  <2>1. free \in SUBSET (1 .. m) /\ start \in SUBSET free BY <1>3, <1>5
  <2>2. \A k \in start : Cardinality({j \in free : j < k}) < slots
    OBVIOUS
  <2>3. IsFiniteSet(start) /\ Cardinality(start) <= slots
    BY <1>7, <2>1, <2>2, FirstFew
  <2>4. [k \in start |-> plan[k].id] \in Surjection(start, set.steps)
    BY <1>2 DEF Surjection
  <2>5. /\ IsFiniteSet(set.steps)
        /\ Cardinality(set.steps) <= Cardinality(start)
    BY <2>3, <2>4, FS_Surjection
  <2>6. slots # 0
    <3>1. PICK k \in start : TRUE BY <1>2, <1>10
    <3>2. IsFiniteSet({j \in free : j < k})
      <4>1. IsFiniteSet(1 .. m) BY FS_Interval
      <4>2. {j \in free : j < k} \in SUBSET (1 .. m) BY <2>1
      <4> QED BY <4>1, <4>2, FS_Subset
    <3>3. Cardinality({j \in free : j < k}) \in Nat
      BY <3>2, FS_CardinalityType
    <3> QED BY <2>2, <3>3
  <2>7. Cardinality(set.steps) \in Nat /\ Cardinality(start) \in Nat
    BY <2>3, <2>5, FS_CardinalityType
  <2> QED BY <1>6, <1>7, <2>3, <2>5, <2>6, <2>7, BoundsNat
<1>11. ASSUME NEW id \in set.steps, NEW r \in running
       PROVE  ~ ("WRITE" \in {StepNamed(id).risk, plan[r].risk}
                 /\ StepNamed(id).tools \cap plan[r].tools \cap Writers # {})
  <2>1. PICK k \in start : id = plan[k].id BY <1>2
  <2>2. StepNamed(id) = plan[k] BY <1>1, <1>3, <2>1, StepAt DEF StepNamed
  <2>3. ~ Conflicts(plan[k], plan[r]) BY <1>3 DEF Unopposed
  <2> QED BY <2>2, <2>3 DEF Conflicts
<1> HIDE DEF set, running
<1> QED BY <1>8, <1>9, <1>10, <1>11 DEF ReadySetsAgree, set, running

(* ComputeReadySet: for every accepted plan and every state of its steps    *)
(* the scheduler starts ready steps only, no more than there are slots, and *)
(* none that writes what a running one may write.                           *)
THEOREM SchedulerAgrees == Spec => []ReadySetsAgree
<1>1. IInv /\ Sound => ReadySetsAgree
  BY SchedulerSound DEF IInv, TypeOK, StoreTypes
<1> QED BY <1>1, Invariance, SoundPlans, PTL

----
(* findCycle.  The whole search is a function of the walk it starts from,   *)
(* defined by recursion.                                                    *)
Search(p) == CHOOSE f : f = [walk \in Walks |-> Explored(p, walk, f)]
Start == [marks |-> [id \in Ids |-> "unseen"], trail |-> << >>]

LEMMA FindCycleIs == ASSUME NEW p PROVE FindCycle(p) = Search(p)[Start]
BY DEF FindCycle, Search, Start

(* One step of the search: it starts from an unseen step, leaves a step    *)
(* that has no more to look at, passes over one that is done, or descends   *)
(* into one that is unseen.                                                 *)
Ahead(w) == First(w.trail[1].todo)

Opens(p, w, v) ==
  /\ w.trail = << >> /\ Unseen(p, w) # {}
  /\ v = Visit(p, w, First(Unseen(p, w)))

Closes(w, v) ==
  w.trail # << >> /\ w.trail[1].todo = {} /\ v = Leave(w)

Passes(w, v) ==
  /\ w.trail # << >> /\ w.trail[1].todo # {}
  /\ w.marks[Ahead(w)] = "done" /\ v = Look(w, Ahead(w))

Descends(p, w, v) ==
  /\ w.trail # << >> /\ w.trail[1].todo # {}
  /\ w.marks[Ahead(w)] = "unseen"
  /\ v = Visit(p, Look(w, Ahead(w)), Ahead(w))

Move(p, w, v) ==
  Opens(p, w, v) \/ Closes(w, v) \/ Passes(w, v) \/ Descends(p, w, v)

Alarm(w) ==
  /\ w.trail # << >> /\ w.trail[1].todo # {}
  /\ w.marks[Ahead(w)] = "visiting"

LEMMA ExploredIs ==
  ASSUME NEW p, NEW w, NEW f
  PROVE  Explored(p, w, f) <=> Alarm(w) \/ \E v : Move(p, w, v) /\ f[v]
BY DEF Explored, Move, Opens, Closes, Passes, Descends, Ahead, Alarm

LEMMA ExploredTruth ==
  ASSUME NEW p, NEW w, NEW f
  PROVE  Explored(p, w, f) \in BOOLEAN
BY DEF Explored

LEMMA FirstOfIds ==
  ASSUME NEW ids \in SUBSET Ids, ids # {}
  PROVE  First(ids) \in ids /\ First(ids) \in Ids
<1>1. ids \in SUBSET Nat BY IdsNat
<1> QED BY <1>1, FirstIsLeast

(* What the first of several steps with one id needs. *)
LEMMA StepFound ==
  ASSUME NEW p \in Plan, NEW id \in StepIds(p)
  PROVE  StepOf(p, id) \in Step /\ StepOf(p, id).id = id
         /\ \E k \in DOMAIN p : StepOf(p, id) = p[k]
<1> DEFINE Named == {k \in DOMAIN p : p[k].id = id}
<1>1. Named # {} BY DEF StepIds
<1>2. Named \in SUBSET Nat BY DEF Plan
<1>3. PICK k \in Named : \A j \in Named : k <= j
  BY <1>1, <1>2, FirstIsLeast
<1>4. \E k1 \in DOMAIN p :
        p[k1].id = id /\ \A j \in DOMAIN p : p[j].id = id => k1 <= j
  BY <1>3
<1>5. PICK k2 \in DOMAIN p : StepOf(p, id) = p[k2] /\ p[k2].id = id
  BY <1>4 DEF StepOf
<1>6. p[k2] \in Step BY ElementOfSeq DEF Plan
<1> QED BY <1>5, <1>6

LEMMA NeedsTyped ==
  ASSUME NEW p \in Plan, NEW id
  PROVE  Needs(p, id) \subseteq Ids
BY StepFound DEF Needs, Step

(* an entry of the trail *)
Visited == [id : Ids, todo : SUBSET Ids]

(* A walk stays a walk: pushing on the trail, popping it, each move. *)
LEMMA Pushed ==
  ASSUME NEW S, NEW x \in S, NEW s \in Seq(S)
  PROVE  /\ <<x>> \o s \in Seq(S)
         /\ <<x>> \o s # << >>
         /\ (<<x>> \o s)[1] = x
         /\ Len(<<x>> \o s) = Len(s) + 1
         /\ \A i \in 1..Len(s) : (<<x>> \o s)[i + 1] = s[i]
<1>1. /\ <<x>> \in Seq(S) /\ Len(<<x>>) = 1 /\ <<x>>[1] = x
      /\ Len(s) \in Nat
  OBVIOUS
<1>2. <<x>> \o s \in Seq(S) /\ Len(<<x>> \o s) = Len(s) + 1
  BY <1>1
<1>3. \A i \in 1..Len(s) : (<<x>> \o s)[i + 1] = s[i] BY <1>1
<1>4. (<<x>> \o s)[1] = x BY <1>1
<1> QED BY <1>1, <1>2, <1>3, <1>4

LEMMA Popped ==
  ASSUME NEW S, NEW s \in Seq(S), s # << >>
  PROVE  /\ s[1] \in S
         /\ Tail(s) \in Seq(S)
         /\ Len(s) \in Nat \ {0} /\ Len(Tail(s)) = Len(s) - 1
         /\ \A i \in 1..Len(Tail(s)) : Tail(s)[i] = s[i + 1]
<1>1. Len(s) \in Nat \ {0} BY EmptySeq
<1> QED BY <1>1

LEMMA VisitTyped ==
  ASSUME NEW p \in Plan, NEW w \in Walks, NEW id \in Ids
  PROVE  /\ Visit(p, w, id) \in Walks
         /\ Visit(p, w, id).marks = [w.marks EXCEPT ![id] = "visiting"]
         /\ Visit(p, w, id).trail =
              <<[id |-> id, todo |-> Needs(p, id)]>> \o w.trail
<1>1. /\ w.marks \in [Ids -> {"unseen", "visiting", "done"}]
      /\ w.trail \in Seq(Visited)
  BY DEF Walks, Visited
<1>2. [id |-> id, todo |-> Needs(p, id)] \in Visited BY NeedsTyped DEF Visited
<1>3. <<[id |-> id, todo |-> Needs(p, id)]>> \o w.trail \in Seq(Visited)
  BY <1>1, <1>2, Pushed
<1> QED BY <1>1, <1>3 DEF Visit, Walks, Visited

LEMMA LeaveTyped ==
  ASSUME NEW w \in Walks, w.trail # << >>
  PROVE  /\ Leave(w) \in Walks
         /\ Leave(w).marks = [w.marks EXCEPT ![w.trail[1].id] = "done"]
         /\ Leave(w).trail = Tail(w.trail)
<1>1. /\ w.marks \in [Ids -> {"unseen", "visiting", "done"}]
      /\ w.trail \in Seq(Visited)
  BY DEF Walks, Visited
<1>2. w.trail[1] \in Visited /\ Tail(w.trail) \in Seq(Visited) BY <1>1, Popped
<1>3. w.trail[1].id \in Ids BY <1>2 DEF Visited
<1> QED BY <1>1, <1>2, <1>3 DEF Leave, Walks, Visited

LEMMA LookTyped ==
  ASSUME NEW w \in Walks, w.trail # << >>, NEW next
  PROVE  /\ Look(w, next) \in Walks
         /\ Look(w, next).marks = w.marks
         /\ Len(Look(w, next).trail) = Len(w.trail)
         /\ \A i \in 1..Len(w.trail) :
              /\ Look(w, next).trail[i].id = w.trail[i].id
              /\ i # 1 => Look(w, next).trail[i].todo = w.trail[i].todo
         /\ Look(w, next).trail[1].todo = w.trail[1].todo \ {next}
<1> DEFINE less == [w.trail[1] EXCEPT !.todo = w.trail[1].todo \ {next}]
           cut == [w.trail EXCEPT ![1] = less]
<1>1. /\ w.marks \in [Ids -> {"unseen", "visiting", "done"}]
      /\ w.trail \in Seq(Visited)
  BY DEF Walks, Visited
<1>2. w.trail[1] \in Visited /\ Len(w.trail) \in Nat \ {0} BY <1>1, Popped
<1>3. /\ less \in Visited /\ less.id = w.trail[1].id
      /\ less.todo = w.trail[1].todo \ {next}
  BY <1>2 DEF Visited
<1>4. /\ cut \in Seq(Visited) /\ Len(cut) = Len(w.trail) /\ cut[1] = less
      /\ \A i \in 1..Len(w.trail) : i # 1 => cut[i] = w.trail[i]
  <2> HIDE DEF less
  <2> QED BY <1>1, <1>2, <1>3
<1>5. Look(w, next) = [w EXCEPT !.trail = cut] BY DEF Look
<1>6. Look(w, next).marks = w.marks /\ Look(w, next).trail = cut
      /\ Look(w, next) \in Walks
  <2> HIDE DEF cut
  <2> QED BY <1>1, <1>4, <1>5 DEF Walks, Visited
<1> HIDE DEF cut, less
<1> QED BY <1>3, <1>4, <1>6

LEMMA UnseenIds ==
  ASSUME NEW p \in Plan, NEW w
  PROVE  Unseen(p, w) \subseteq StepIds(p) /\ Unseen(p, w) \subseteq Ids
BY IdsOfPlan DEF Unseen

LEMMA TodoTyped ==
  ASSUME NEW w \in Walks, w.trail # << >>
  PROVE  /\ w.trail[1] \in Visited
         /\ w.trail[1].id \in Ids /\ w.trail[1].todo \in SUBSET Ids
         /\ w.trail[1].todo # {} =>
              Ahead(w) \in w.trail[1].todo /\ Ahead(w) \in Ids
<1>1. w.trail \in Seq(Visited) BY DEF Walks, Visited
<1>2. w.trail[1] \in Visited BY <1>1, Popped
<1>3. w.trail[1].id \in Ids /\ w.trail[1].todo \in SUBSET Ids
  BY <1>2 DEF Visited
<1> QED BY <1>2, <1>3, FirstOfIds DEF Ahead

LEMMA MoveTyped ==
  ASSUME NEW p \in Plan, NEW w \in Walks, NEW v, Move(p, w, v)
  PROVE  v \in Walks
<1>1. CASE Opens(p, w, v)
  <2>1. First(Unseen(p, w)) \in Ids
    BY <1>1, UnseenIds, FirstOfIds DEF Opens
  <2>2. Visit(p, w, First(Unseen(p, w))) \in Walks BY <2>1, VisitTyped
  <2> QED BY <1>1, <2>2 DEF Opens
<1>2. CASE Closes(w, v) BY <1>2, LeaveTyped DEF Closes
<1>3. CASE Passes(w, v) BY <1>3, LookTyped DEF Passes
<1>4. CASE Descends(p, w, v)
  <2>1. Ahead(w) \in Ids BY <1>4, TodoTyped DEF Descends
  <2>2. Look(w, Ahead(w)) \in Walks BY <1>4, LookTyped DEF Descends
  <2>3. Visit(p, Look(w, Ahead(w)), Ahead(w)) \in Walks
    BY <2>1, <2>2, VisitTyped
  <2> QED BY <1>4, <2>3 DEF Descends
<1> QED BY <1>1, <1>2, <1>3, <1>4 DEF Move

(* The search is defined by recursion on walks.  That there is a function   *)
(* that satisfies its equation does not need the search to end: the walks   *)
(* in every set that is closed under the equation are one.                  *)
Truth(set) == [w \in Walks |-> w \in set]
Closed(p, set) == \A w \in Walks : Explored(p, w, Truth(set)) => w \in set
Least(p) ==
  {w \in Walks : \A set \in SUBSET Walks : Closed(p, set) => w \in set}

LEMMA TruthIs ==
  ASSUME NEW p \in Plan, NEW w \in Walks, NEW set
  PROVE  Explored(p, w, Truth(set)) <=>
           Alarm(w) \/ \E v : Move(p, w, v) /\ v \in set /\ v \in Walks
<1>1. \A v : Move(p, w, v) => v \in Walks BY MoveTyped
<1>2. \A v \in Walks : Truth(set)[v] <=> v \in set BY DEF Truth
<1> QED BY <1>1, <1>2, ExploredIs

LEMMA LeastIsClosed ==
  ASSUME NEW p \in Plan
  PROVE  \A w \in Walks : Explored(p, w, Truth(Least(p))) <=> w \in Least(p)
<1> DEFINE G == Least(p)
           F == {w \in Walks : Explored(p, w, Truth(G))}
<1>1. ASSUME NEW w \in F PROVE w \in G
  <2>1. Alarm(w) \/ \E v : Move(p, w, v) /\ v \in G /\ v \in Walks
    BY TruthIs
  <2>2. ASSUME NEW set \in SUBSET Walks, Closed(p, set) PROVE w \in set
    <3>1. \A v \in G : v \in set BY <2>2 DEF Least
    <3>2. Explored(p, w, Truth(set))
      <4> HIDE DEF G
      <4> QED BY <2>1, <3>1, TruthIs
    <3> QED BY <2>2, <3>2 DEF Closed
  <2> QED BY <2>2 DEF Least
<1>2. ASSUME NEW w \in G PROVE w \in F
  <2>1. F \in SUBSET Walks OBVIOUS
  <2>2. Closed(p, F)
    <3>1. ASSUME NEW v \in Walks, Explored(p, v, Truth(F)) PROVE v \in F
      <4>1. Alarm(v) \/ \E u : Move(p, v, u) /\ u \in F /\ u \in Walks
        <5> HIDE DEF F
        <5> QED BY <3>1, TruthIs
      <4>2. Alarm(v) \/ \E u : Move(p, v, u) /\ u \in G /\ u \in Walks
        <5> HIDE DEF F, G
        <5> QED BY <1>1, <4>1
      <4>3. Explored(p, v, Truth(G))
        <5> HIDE DEF F, G
        <5> QED BY <4>2, TruthIs
      <4> QED BY <4>3
    <3> QED BY <3>1 DEF Closed
  <2>3. w \in Walks /\ \A set \in SUBSET Walks : Closed(p, set) => w \in set
    BY DEF Least
  <2> HIDE DEF F, G
  <2> QED BY <2>1, <2>2, <2>3
<1>3. \A w \in Walks : w \in F <=> Explored(p, w, Truth(G)) OBVIOUS
<1> HIDE DEF F, G
<1>4. \A w \in Walks : Explored(p, w, Truth(G)) <=> w \in G BY <1>1, <1>2, <1>3
<1> QED BY <1>4 DEF G

LEMMA SearchIs ==
  ASSUME NEW p \in Plan
  PROVE  Search(p) = [w \in Walks |-> Explored(p, w, Search(p))]
<1>1. \A w \in Walks : (w \in Least(p)) = Explored(p, w, Truth(Least(p)))
  <2>1. \A w : (w \in Least(p)) \in BOOLEAN OBVIOUS
  <2> QED BY <2>1, LeastIsClosed, ExploredTruth
<1>2. Truth(Least(p)) = [w \in Walks |-> Explored(p, w, Truth(Least(p)))]
  <2>1. Truth(Least(p)) = [w \in Walks |-> w \in Least(p)] BY DEF Truth
  <2> QED BY <1>1, <2>1
<1>3. \E f : f = [w \in Walks |-> Explored(p, w, f)] BY <1>2
<1> QED BY <1>3 DEF Search

(* It finds a cycle where it sees one, and where it finds one later. *)
LEMMA SearchStep ==
  ASSUME NEW p \in Plan, NEW w \in Walks
  PROVE  Search(p)[w] <=>
           Alarm(w) \/ \E v \in Walks : Move(p, w, v) /\ Search(p)[v]
<1>1. Search(p)[w] = Explored(p, w, Search(p)) BY SearchIs
<1>2. \A v : Move(p, w, v) => v \in Walks BY MoveTyped
<1> QED BY <1>1, <1>2, ExploredIs

(* What holds of every walk of a search: the trail is a path without        *)
(* repetition of steps being visited, each needed by the next one down it,  *)
(* and what a step on it has looked at is done or further along.            *)
Walked(p, w) ==
  /\ w \in Walks
  /\ \A i \in 1..Len(w.trail) :
       /\ w.trail[i].id \in StepIds(p)
       /\ w.trail[i].todo \subseteq Needs(p, w.trail[i].id)
       /\ w.marks[w.trail[i].id] = "visiting"
  /\ \A i, j \in 1..Len(w.trail) : w.trail[i].id = w.trail[j].id => i = j
  /\ \A id \in Ids : w.marks[id] = "visiting" =>
       \E i \in 1..Len(w.trail) : w.trail[i].id = id
  /\ \A i, j \in 1..Len(w.trail) :
       j = i + 1 => w.trail[i].id \in Needs(p, w.trail[j].id)

Looked(p, w, i) == Needs(p, w.trail[i].id) \ w.trail[i].todo
Settled(w, i, d) ==
  \/ w.marks[d] = "done"
  \/ \E j \in 1..Len(w.trail) : j < i /\ w.trail[j].id = d

Faithful(p, w) ==
  /\ Walked(p, w)
  /\ \A i \in 1..Len(w.trail) : \A d \in Looked(p, w, i) : Settled(w, i, d)

(* the same, on the way to the step `id` it turns to *)
Turning(p, w, id) ==
  /\ Walked(p, w)
  /\ \A i \in 1..Len(w.trail) : \A d \in Looked(p, w, i) :
       Settled(w, i, d) \/ (i = 1 /\ d = id)
  /\ w.trail # << >> => id \in Needs(p, w.trail[1].id)

LEMMA Positions ==
  ASSUME NEW n \in Nat, NEW m \in 1..(n + 1)
  PROVE  m = 1 \/ \E i \in 1..n : m = i + 1
<1>1. CASE m # 1
  <2>1. m - 1 \in 1..n /\ m = (m - 1) + 1 BY <1>1
  <2> QED BY <2>1
<1> QED BY <1>1

(* Each kind of move keeps a walk faithful. *)
LEMMA LookTurns ==
  ASSUME NEW p \in Plan, NEW w, Faithful(p, w), w.trail # << >>,
         NEW next \in w.trail[1].todo
  PROVE  Turning(p, Look(w, next), next) /\ Look(w, next).trail # << >>
<1> DEFINE u == Look(w, next)
<1>1. w \in Walks /\ w.trail \in Seq(Visited)
  BY DEF Faithful, Walked, Walks, Visited
<1>2. Len(w.trail) \in Nat \ {0} BY <1>1, Popped
<1>3. /\ u \in Walks /\ u.marks = w.marks
      /\ Len(u.trail) = Len(w.trail)
      /\ \A i \in 1..Len(w.trail) :
           /\ u.trail[i].id = w.trail[i].id
           /\ i # 1 => u.trail[i].todo = w.trail[i].todo
      /\ u.trail[1].todo = w.trail[1].todo \ {next}
  BY <1>1, LookTyped
<1> HIDE DEF u
<1>4. u.trail # << >> BY <1>2, <1>3
<1>5. \A i \in 1..Len(w.trail) : u.trail[i].todo \subseteq w.trail[i].todo
  BY <1>3
<1>6. Walked(p, u) BY <1>3, <1>5 DEF Faithful, Walked
<1>7. ASSUME NEW i \in 1..Len(u.trail), NEW d \in Looked(p, u, i)
      PROVE  Settled(u, i, d) \/ (i = 1 /\ d = next)
  <2>1. i \in 1..Len(w.trail) BY <1>3
  <2>2. d \in Looked(p, w, i) \/ (i = 1 /\ d = next)
    BY <1>3, <2>1 DEF Looked
  <2>3. d \in Looked(p, w, i) => Settled(w, i, d) BY <2>1 DEF Faithful
  <2>4. Settled(w, i, d) => Settled(u, i, d) BY <1>3 DEF Settled
  <2> QED BY <2>2, <2>3, <2>4
<1>8. next \in Needs(p, u.trail[1].id)
  BY <1>2, <1>3 DEF Faithful, Walked
<1> QED BY <1>4, <1>6, <1>7, <1>8 DEF Turning, u

LEMMA PassSound ==
  ASSUME NEW p, NEW w, NEW id, Turning(p, w, id), w.marks[id] = "done"
  PROVE  Faithful(p, w)
BY DEF Turning, Faithful, Settled

LEMMA VisitSound ==
  ASSUME NEW p \in Plan, NEW w, NEW id \in StepIds(p), Turning(p, w, id),
         w.marks[id] = "unseen"
  PROVE  Faithful(p, Visit(p, w, id))
<1> DEFINE v == Visit(p, w, id)
           new == [id |-> id, todo |-> Needs(p, id)]
           n == Len(w.trail)
<1>1. w \in Walks /\ w.trail \in Seq(Visited) /\ id \in Ids
      /\ w.marks \in [Ids -> {"unseen", "visiting", "done"}]
  BY IdsOfPlan DEF Turning, Walked, Walks, Visited
<1>2. /\ v \in Walks /\ v.marks = [w.marks EXCEPT ![id] = "visiting"]
      /\ v.trail = <<new>> \o w.trail
  BY <1>1, VisitTyped
<1>3. new \in Visited /\ new.id = id /\ new.todo = Needs(p, id)
  BY <1>1, NeedsTyped DEF Visited
<1>4. n \in Nat BY <1>1
<1>5. /\ Len(v.trail) = n + 1 /\ v.trail[1] = new
      /\ \A i \in 1..n : v.trail[i + 1] = w.trail[i]
  <2> HIDE DEF new
  <2> QED BY <1>1, <1>2, <1>3, Pushed
<1>6. /\ v.marks[id] = "visiting"
      /\ \A d \in Ids \ {id} : v.marks[d] = w.marks[d]
  BY <1>1, <1>2
<1> HIDE DEF v, new, n
<1>7. v.trail[1].id = id /\ v.trail[1].todo = Needs(p, id) BY <1>3, <1>5
<1>8. \A m \in 1..(n + 1) : m = 1 \/ \E i \in 1..n : m = i + 1
  BY <1>4, Positions
<1>9. \A i \in 1..n : w.trail[i].id \in Ids /\ w.trail[i].id # id
  <2>1. \A i \in 1..n : w.trail[i].id \in Ids
    <3>1. \A i \in 1..n : w.trail[i] \in Visited
      BY <1>1, ElementOfSeq DEF n
    <3> QED BY <3>1 DEF Visited
  <2>2. \A i \in 1..n : w.marks[w.trail[i].id] = "visiting"
    BY DEF Turning, Walked, n
  <2> QED BY <2>1, <2>2
<1>10. Walked(p, v)
  <2>1. ASSUME NEW m \in 1..Len(v.trail)
        PROVE  /\ v.trail[m].id \in StepIds(p)
               /\ v.trail[m].todo \subseteq Needs(p, v.trail[m].id)
               /\ v.marks[v.trail[m].id] = "visiting"
    <3>1. CASE m = 1 BY <1>6, <1>7, <3>1
    <3>2. ASSUME NEW i \in 1..n, m = i + 1
          PROVE  /\ v.trail[m].id \in StepIds(p)
                 /\ v.trail[m].todo \subseteq Needs(p, v.trail[m].id)
                 /\ v.marks[v.trail[m].id] = "visiting"
      <4>1. v.trail[m] = w.trail[i] BY <1>5, <3>2
      <4>2. w.trail[i].id \in Ids \ {id} BY <1>9
      <4> QED BY <1>6, <4>1, <4>2 DEF Turning, Walked, n
    <3> QED BY <1>5, <1>8, <3>1, <3>2
  <2>2. ASSUME NEW l \in 1..Len(v.trail), NEW m \in 1..Len(v.trail),
               v.trail[l].id = v.trail[m].id
        PROVE  l = m
    <3>1. CASE l = 1 /\ m = 1 BY <3>1
    <3>2. ASSUME NEW i \in 1..n, l = i + 1, m = 1 PROVE FALSE
      <4>1. v.trail[l] = w.trail[i] BY <1>5, <3>2
      <4> QED BY <1>7, <1>9, <2>2, <3>2, <4>1
    <3>3. ASSUME NEW j \in 1..n, m = j + 1, l = 1 PROVE FALSE
      <4>1. v.trail[m] = w.trail[j] BY <1>5, <3>3
      <4> QED BY <1>7, <1>9, <2>2, <3>3, <4>1
    <3>4. ASSUME NEW i \in 1..n, NEW j \in 1..n, l = i + 1, m = j + 1
          PROVE  l = m
      <4>1. v.trail[l] = w.trail[i] /\ v.trail[m] = w.trail[j]
        BY <1>5, <3>4
      <4>2. i = j BY <2>2, <4>1 DEF Turning, Walked, n
      <4> QED BY <3>4, <4>2
    <3> QED BY <1>5, <1>8, <3>1, <3>2, <3>3, <3>4
  <2>3. ASSUME NEW d \in Ids, v.marks[d] = "visiting"
        PROVE  \E m \in 1..Len(v.trail) : v.trail[m].id = d
    <3>1. CASE d = id BY <1>4, <1>5, <1>7, <3>1
    <3>2. CASE d # id
      <4>1. PICK i \in 1..n : w.trail[i].id = d
        BY <1>6, <2>3, <3>2 DEF Turning, Walked, n
      <4>2. i + 1 \in 1..Len(v.trail) BY <1>4, <1>5
      <4> QED BY <1>5, <4>1, <4>2
    <3> QED BY <3>1, <3>2
  <2>4. ASSUME NEW l \in 1..Len(v.trail), NEW m \in 1..Len(v.trail), m = l + 1
        PROVE  v.trail[l].id \in Needs(p, v.trail[m].id)
    <3>1. CASE l = 1
      <4>1. 1 \in 1..n /\ m = 1 + 1 BY <1>4, <1>5, <2>4, <3>1
      <4>2. v.trail[m] = w.trail[1] BY <1>5, <4>1
      <4>3. w.trail # << >> BY <1>1, <4>1 DEF n
      <4> QED BY <1>7, <3>1, <4>2, <4>3 DEF Turning
    <3>2. ASSUME NEW i \in 1..n, l = i + 1
          PROVE  v.trail[l].id \in Needs(p, v.trail[m].id)
      <4>1. i + 1 \in 1..n BY <1>4, <1>5, <2>4, <3>2
      <4>2. v.trail[l] = w.trail[i] BY <1>5, <3>2
      <4>3. v.trail[m] = w.trail[i + 1] BY <1>5, <2>4, <3>2, <4>1
      <4> QED BY <4>1, <4>2, <4>3 DEF Turning, Walked, n
    <3> QED BY <1>5, <1>8, <3>1, <3>2
  <2> QED BY <1>2, <2>1, <2>2, <2>3, <2>4 DEF Walked
<1>11. ASSUME NEW m \in 1..Len(v.trail), NEW d \in Looked(p, v, m)
       PROVE  Settled(v, m, d)
  <2>1. m # 1 BY <1>7, <1>11 DEF Looked
  <2>2. PICK i \in 1..n : m = i + 1 BY <1>5, <1>8, <2>1
  <2>3. v.trail[m] = w.trail[i] BY <1>5, <2>2
  <2>4. d \in Looked(p, w, i) BY <2>3 DEF Looked
  <2>5. Settled(w, i, d) \/ (i = 1 /\ d = id)
    BY <2>4 DEF Turning, n
  <2>6. CASE i = 1 /\ d = id
    <3>1. 1 \in 1..Len(v.trail) /\ 1 < m BY <1>4, <1>5, <2>2
    <3> QED BY <1>7, <2>6, <3>1 DEF Settled
  <2>7. CASE w.marks[d] = "done"
    <3>1. d \in Ids BY NeedsTyped DEF Looked
    <3> QED BY <1>6, <2>7, <3>1 DEF Settled
  <2>8. ASSUME NEW j \in 1..n, j < i, w.trail[j].id = d
        PROVE  Settled(v, m, d)
    <3>1. j + 1 \in 1..Len(v.trail) /\ j + 1 < m BY <1>4, <1>5, <2>2, <2>8
    <3>2. v.trail[j + 1].id = d BY <1>5, <2>8
    <3> QED BY <3>1, <3>2 DEF Settled
  <2> QED BY <2>5, <2>6, <2>7, <2>8 DEF Settled, n
<1> QED BY <1>10, <1>11 DEF Faithful, v

(* A step that leaves the trail has only needs that are done. *)
LEMMA CloseSound ==
  ASSUME NEW p \in Plan, NEW w, Faithful(p, w), w.trail # << >>,
         w.trail[1].todo = {}
  PROVE  /\ Faithful(p, Leave(w))
         /\ \A d \in Needs(p, w.trail[1].id) : w.marks[d] = "done"
<1> DEFINE v == Leave(w)
           top == w.trail[1].id
           n == Len(w.trail)
<1>1. w \in Walks /\ w.trail \in Seq(Visited)
      /\ w.marks \in [Ids -> {"unseen", "visiting", "done"}]
  BY DEF Faithful, Walked, Walks, Visited
<1>2. /\ n \in Nat \ {0} /\ 1 \in 1..n
      /\ Len(Tail(w.trail)) = n - 1
      /\ \A i \in 1..(n - 1) : Tail(w.trail)[i] = w.trail[i + 1]
      /\ top \in Ids
  BY <1>1, Popped, TodoTyped
<1>3. /\ v \in Walks /\ v.marks = [w.marks EXCEPT ![top] = "done"]
      /\ v.trail = Tail(w.trail)
  BY <1>1, LeaveTyped
<1> HIDE DEF v, n
<1>4. /\ v.marks[top] = "done"
      /\ \A d \in Ids \ {top} : v.marks[d] = w.marks[d]
  <2> HIDE DEF top
  <2> QED BY <1>1, <1>2, <1>3
<1>5. ASSUME NEW i \in 1..Len(v.trail)
      PROVE  /\ i \in 1..(n - 1) /\ i + 1 \in 1..n /\ i + 1 # 1
             /\ v.trail[i] = w.trail[i + 1]
  <2>1. i \in 1..(n - 1) BY <1>2, <1>3
  <2> QED BY <1>2, <1>3, <2>1
<1>6. \A m \in 1..n : m = 1 \/ \E i \in 1..Len(v.trail) : m = i + 1
  <2>1. n = (n - 1) + 1 /\ n - 1 \in Nat BY <1>2
  <2> QED BY <1>2, <1>3, <2>1, Positions
<1>7. \A i \in 1..n : i # 1 => w.trail[i].id \in Ids \ {top}
  <2>1. \A i \in 1..n : w.trail[i].id \in Ids
    <3>1. \A i \in 1..n : w.trail[i] \in Visited
      BY <1>1, ElementOfSeq DEF n
    <3> QED BY <3>1 DEF Visited
  <2>2. \A i \in 1..n : w.trail[i].id = w.trail[1].id => i = 1
    BY <1>2 DEF Faithful, Walked, n
  <2> QED BY <2>1, <2>2
<1>8. \A d \in Needs(p, top) : w.marks[d] = "done"
  <2>1. \A d \in Needs(p, top) : Settled(w, 1, d)
    BY <1>2 DEF Faithful, Looked, n
  <2>2. \A j \in 1..Len(w.trail) : ~(j < 1) BY <1>1
  <2> QED BY <2>1, <2>2 DEF Settled
<1>9. Walked(p, v)
  <2>1. ASSUME NEW i \in 1..Len(v.trail)
        PROVE  /\ v.trail[i].id \in StepIds(p)
               /\ v.trail[i].todo \subseteq Needs(p, v.trail[i].id)
               /\ v.marks[v.trail[i].id] = "visiting"
    <3>1. PICK k \in 1..n : k # 1 /\ v.trail[i] = w.trail[k] BY <1>5
    <3>2. w.trail[k].id \in Ids \ {top} BY <1>7, <3>1
    <3>3. /\ w.trail[k].id \in StepIds(p)
          /\ w.trail[k].todo \subseteq Needs(p, w.trail[k].id)
          /\ w.marks[w.trail[k].id] = "visiting"
      BY DEF Faithful, Walked, n
    <3> QED BY <1>4, <3>1, <3>2, <3>3
  <2>2. ASSUME NEW i \in 1..Len(v.trail), NEW j \in 1..Len(v.trail),
               v.trail[i].id = v.trail[j].id
        PROVE  i = j
    <3>1. PICK k \in 1..n : k = i + 1 /\ v.trail[i] = w.trail[k] BY <1>5
    <3>2. PICK l \in 1..n : l = j + 1 /\ v.trail[j] = w.trail[l] BY <1>5
    <3>3. k = l BY <2>2, <3>1, <3>2 DEF Faithful, Walked, n
    <3> QED BY <1>2, <1>5, <3>1, <3>2, <3>3
  <2>3. ASSUME NEW d \in Ids, v.marks[d] = "visiting"
        PROVE  \E i \in 1..Len(v.trail) : v.trail[i].id = d
    <3>1. d # top BY <1>4, <2>3
    <3>2. w.marks[d] = "visiting" BY <1>4, <2>3, <3>1
    <3>3. PICK m \in 1..n : w.trail[m].id = d
      BY <3>2 DEF Faithful, Walked, n
    <3>4. m # 1 BY <3>1, <3>3
    <3>5. PICK i \in 1..Len(v.trail) : m = i + 1 BY <1>6, <3>4
    <3> QED BY <1>5, <3>3, <3>5
  <2>4. ASSUME NEW i \in 1..Len(v.trail), NEW j \in 1..Len(v.trail), j = i + 1
        PROVE  v.trail[i].id \in Needs(p, v.trail[j].id)
    <3>1. j + 1 = (i + 1) + 1 BY <2>4
    <3>2. i + 1 \in 1..n /\ j + 1 \in 1..n BY <1>5
    <3>3. w.trail[i + 1].id \in Needs(p, w.trail[j + 1].id)
      BY <3>1, <3>2 DEF Faithful, Walked, n
    <3> QED BY <1>5, <3>3
  <2> QED BY <1>3, <2>1, <2>2, <2>3, <2>4 DEF Walked
<1>10. ASSUME NEW i \in 1..Len(v.trail), NEW d \in Looked(p, v, i)
       PROVE  Settled(v, i, d)
  <2>1. /\ i + 1 \in 1..n /\ v.trail[i] = w.trail[i + 1] BY <1>5
  <2>2. d \in Looked(p, w, i + 1) BY <2>1 DEF Looked
  <2>3. Settled(w, i + 1, d) BY <2>1, <2>2 DEF Faithful, n
  <2>4. d \in Ids BY NeedsTyped DEF Looked
  <2>5. CASE w.marks[d] = "done" BY <1>4, <2>4, <2>5 DEF Settled
  <2>6. ASSUME NEW m \in 1..n, m < i + 1, w.trail[m].id = d
        PROVE  Settled(v, i, d)
    <3>1. CASE m = 1 BY <1>4, <2>6, <3>1 DEF Settled
    <3>2. ASSUME NEW j \in 1..Len(v.trail), m = j + 1
          PROVE  Settled(v, i, d)
      <4>1. j < i BY <1>2, <1>5, <2>6, <3>2
      <4>2. v.trail[j].id = d BY <1>5, <2>6, <3>2
      <4> QED BY <4>1, <4>2 DEF Settled
    <3> QED BY <1>6, <3>1, <3>2
  <2> QED BY <2>3, <2>5, <2>6 DEF Settled, n
<1> QED BY <1>8, <1>9, <1>10 DEF Faithful, v

LEMMA OpenTurns ==
  ASSUME NEW p, NEW w, Faithful(p, w), w.trail = << >>, NEW id
  PROVE  Turning(p, w, id)
BY DEF Faithful, Turning

(* Validate has found every dependency in the plan. *)
Within(p) == \A id \in StepIds(p) : Needs(p, id) \subseteq StepIds(p)

LEMMA MoveSound ==
  ASSUME NEW p \in Plan, Within(p), NEW w, Faithful(p, w), NEW v, Move(p, w, v)
  PROVE  Faithful(p, v)
<1>1. CASE Opens(p, w, v)
  <2>1. /\ First(Unseen(p, w)) \in StepIds(p)
        /\ w.marks[First(Unseen(p, w))] = "unseen"
    <3>1. First(Unseen(p, w)) \in Unseen(p, w)
      BY <1>1, UnseenIds, FirstOfIds DEF Opens
    <3> QED BY <3>1 DEF Unseen
  <2>2. Turning(p, w, First(Unseen(p, w))) BY <1>1, OpenTurns DEF Opens
  <2> QED BY <1>1, <2>1, <2>2, VisitSound DEF Opens
<1>2. CASE Closes(w, v) BY <1>2, CloseSound DEF Closes
<1>3. CASE Passes(w, v) \/ Descends(p, w, v)
  <2>1. w \in Walks /\ w.trail # << >> /\ w.trail[1].todo # {}
    BY <1>3 DEF Faithful, Walked, Passes, Descends
  <2>2. Ahead(w) \in w.trail[1].todo BY <2>1, TodoTyped
  <2>3. Turning(p, Look(w, Ahead(w)), Ahead(w)) BY <2>1, <2>2, LookTurns
  <2>4. Look(w, Ahead(w)).marks = w.marks BY <2>1, LookTyped
  <2>5. CASE Passes(w, v)
    BY <2>3, <2>4, <2>5, PassSound DEF Passes
  <2>6. CASE Descends(p, w, v)
    <3>1. Ahead(w) \in StepIds(p)
      <4>1. 1 \in 1..Len(w.trail)
        <5>1. w.trail \in Seq(Visited) BY <2>1 DEF Walks, Visited
        <5> QED BY <2>1, <5>1, Popped
      <4>2. /\ w.trail[1].id \in StepIds(p)
            /\ w.trail[1].todo \subseteq Needs(p, w.trail[1].id)
        BY <4>1 DEF Faithful, Walked
      <4> QED BY <2>2, <4>2 DEF Within
    <3> QED BY <2>3, <2>4, <2>6, <3>1, VisitSound DEF Descends
  <2> QED BY <1>3, <2>5, <2>6
<1> QED BY <1>1, <1>2, <1>3 DEF Move

(* What the search has still to do: dependencies to look at, steps to       *)
(* visit, steps to be done with.                                            *)
Edges(p, w) ==
  {e \in StepIds(p) \X StepIds(p) :
     \/ w.marks[e[1]] = "unseen"
     \/ \E i \in 1..Len(w.trail) :
          w.trail[i].id = e[1] /\ e[2] \in w.trail[i].todo}
Undone(p, w) == {id \in StepIds(p) : w.marks[id] # "done"}

Size(p, w) ==
  Cardinality(Edges(p, w)) + Cardinality(Unseen(p, w))
  + Cardinality(Undone(p, w))

LEMMA PlanIsFinite ==
  ASSUME NEW p \in Plan
  PROVE  IsFiniteSet(StepIds(p)) /\ IsFiniteSet(StepIds(p) \X StepIds(p))
<1>1. DOMAIN p = 1..Len(p) /\ Len(p) \in Nat BY DEF Plan
<1>2. IsFiniteSet(DOMAIN p) BY <1>1, FS_Interval
<1> DEFINE named == [k \in DOMAIN p |-> p[k].id]
<1>3. named \in Surjection(DOMAIN p, StepIds(p)) BY DEF Surjection, StepIds
<1>4. IsFiniteSet(StepIds(p)) BY <1>2, <1>3, FS_Surjection
<1> QED BY <1>4, FS_Product

LEMMA SizeNat ==
  ASSUME NEW p \in Plan, NEW w
  PROVE  /\ IsFiniteSet(Edges(p, w)) /\ Cardinality(Edges(p, w)) \in Nat
         /\ IsFiniteSet(Unseen(p, w)) /\ Cardinality(Unseen(p, w)) \in Nat
         /\ IsFiniteSet(Undone(p, w)) /\ Cardinality(Undone(p, w)) \in Nat
         /\ Size(p, w) \in Nat
<1>1. /\ Edges(p, w) \subseteq StepIds(p) \X StepIds(p)
      /\ Unseen(p, w) \subseteq StepIds(p) /\ Undone(p, w) \subseteq StepIds(p)
  BY DEF Edges, Unseen, Undone
<1>2. /\ IsFiniteSet(Edges(p, w)) /\ IsFiniteSet(Unseen(p, w))
      /\ IsFiniteSet(Undone(p, w))
  BY <1>1, PlanIsFinite, FS_Subset
<1>3. /\ Cardinality(Edges(p, w)) \in Nat
      /\ Cardinality(Unseen(p, w)) \in Nat
      /\ Cardinality(Undone(p, w)) \in Nat
  BY <1>2, FS_CardinalityType
<1> QED BY <1>2, <1>3 DEF Size

(* Each kind of move takes something off. *)
LEMMA SizeShrinks ==
  ASSUME NEW p \in Plan, NEW w, NEW v,
         Edges(p, v) \subseteq Edges(p, w), Unseen(p, v) \subseteq Unseen(p, w),
         Undone(p, v) \subseteq Undone(p, w),
         \/ Edges(p, v) # Edges(p, w)
         \/ Unseen(p, v) # Unseen(p, w)
         \/ Undone(p, v) # Undone(p, w)
  PROVE  Size(p, v) < Size(p, w)
<1>1. ASSUME NEW T, NEW S, S \subseteq T, IsFiniteSet(T)
      PROVE  /\ Cardinality(S) <= Cardinality(T)
             /\ S # T => Cardinality(S) # Cardinality(T)
  BY <1>1, FS_Subset
<1>2. /\ Cardinality(Edges(p, v)) <= Cardinality(Edges(p, w))
      /\ Edges(p, v) # Edges(p, w) =>
           Cardinality(Edges(p, v)) # Cardinality(Edges(p, w))
  BY <1>1, SizeNat
<1>3. /\ Cardinality(Unseen(p, v)) <= Cardinality(Unseen(p, w))
      /\ Unseen(p, v) # Unseen(p, w) =>
           Cardinality(Unseen(p, v)) # Cardinality(Unseen(p, w))
  BY <1>1, SizeNat
<1>4. /\ Cardinality(Undone(p, v)) <= Cardinality(Undone(p, w))
      /\ Undone(p, v) # Undone(p, w) =>
           Cardinality(Undone(p, v)) # Cardinality(Undone(p, w))
  BY <1>1, SizeNat
<1>5. /\ Cardinality(Edges(p, w)) \in Nat /\ Cardinality(Edges(p, v)) \in Nat
      /\ Cardinality(Unseen(p, w)) \in Nat /\ Cardinality(Unseen(p, v)) \in Nat
      /\ Cardinality(Undone(p, w)) \in Nat /\ Cardinality(Undone(p, v)) \in Nat
  BY SizeNat
<1> QED BY <1>2, <1>3, <1>4, <1>5 DEF Size

LEMMA LookShrinks ==
  ASSUME NEW p \in Plan, Within(p), NEW w, Faithful(p, w), w.trail # << >>,
         NEW next \in w.trail[1].todo
  PROVE  /\ Edges(p, Look(w, next)) \subseteq Edges(p, w)
         /\ Edges(p, Look(w, next)) # Edges(p, w)
         /\ Unseen(p, Look(w, next)) = Unseen(p, w)
         /\ Undone(p, Look(w, next)) = Undone(p, w)
<1> DEFINE u == Look(w, next)
<1>1. w \in Walks /\ w.trail \in Seq(Visited)
  BY DEF Faithful, Walked, Walks, Visited
<1>2. Len(w.trail) \in Nat \ {0} /\ 1 \in 1..Len(w.trail) BY <1>1, Popped
<1>3. /\ u.marks = w.marks
      /\ Len(u.trail) = Len(w.trail)
      /\ \A i \in 1..Len(w.trail) :
           /\ u.trail[i].id = w.trail[i].id
           /\ i # 1 => u.trail[i].todo = w.trail[i].todo
      /\ u.trail[1].todo = w.trail[1].todo \ {next}
  BY <1>1, LookTyped
<1> HIDE DEF u
<1>4. \A i \in 1..Len(w.trail) : u.trail[i].todo \subseteq w.trail[i].todo
  BY <1>3
<1>5. Edges(p, u) \subseteq Edges(p, w) BY <1>3, <1>4 DEF Edges
<1>6. Unseen(p, u) = Unseen(p, w) /\ Undone(p, u) = Undone(p, w)
  BY <1>3 DEF Unseen, Undone
<1> DEFINE e == <<w.trail[1].id, next>>
<1>7. /\ w.trail[1].id \in StepIds(p) /\ next \in StepIds(p)
      /\ w.marks[w.trail[1].id] # "unseen"
  BY <1>2 DEF Faithful, Walked, Within
<1>8. e \in Edges(p, w) BY <1>2, <1>7 DEF Edges
<1>9. e \notin Edges(p, u)
  <2>1. ASSUME NEW i \in 1..Len(u.trail), u.trail[i].id = w.trail[1].id
        PROVE  next \notin u.trail[i].todo
    <3>1. i = 1 BY <1>2, <1>3, <2>1 DEF Faithful, Walked
    <3> QED BY <1>3, <3>1
  <2> QED BY <1>3, <1>7, <2>1 DEF Edges
<1> QED BY <1>5, <1>6, <1>8, <1>9 DEF u

LEMMA VisitShrinks ==
  ASSUME NEW p \in Plan, NEW w \in Walks, NEW id \in StepIds(p),
         w.marks[id] = "unseen"
  PROVE  /\ Edges(p, Visit(p, w, id)) \subseteq Edges(p, w)
         /\ Unseen(p, Visit(p, w, id)) \subseteq Unseen(p, w)
         /\ Unseen(p, Visit(p, w, id)) # Unseen(p, w)
         /\ Undone(p, Visit(p, w, id)) \subseteq Undone(p, w)
<1> DEFINE v == Visit(p, w, id)
           new == [id |-> id, todo |-> Needs(p, id)]
           n == Len(w.trail)
<1>1. w.trail \in Seq(Visited) /\ id \in Ids /\ n \in Nat
      /\ w.marks \in [Ids -> {"unseen", "visiting", "done"}]
  BY IdsOfPlan DEF Walks, Visited
<1>2. /\ v.marks = [w.marks EXCEPT ![id] = "visiting"]
      /\ v.trail = <<new>> \o w.trail
  BY <1>1, VisitTyped
<1>3. new \in Visited /\ new.id = id BY <1>1, NeedsTyped DEF Visited
<1>4. /\ Len(v.trail) = n + 1 /\ v.trail[1] = new
      /\ \A i \in 1..n : v.trail[i + 1] = w.trail[i]
  <2> HIDE DEF new
  <2> QED BY <1>1, <1>2, <1>3, Pushed
<1>5. /\ v.marks[id] = "visiting"
      /\ \A d \in Ids \ {id} : v.marks[d] = w.marks[d]
  BY <1>1, <1>2
<1> HIDE DEF v, new, n
<1>6. StepIds(p) \subseteq Ids BY IdsOfPlan
<1>7. ASSUME NEW e \in Edges(p, v) PROVE e \in Edges(p, w)
  <2>1. e \in StepIds(p) \X StepIds(p) BY DEF Edges
  <2>2. e[1] \in StepIds(p) BY <2>1
  <2>3. CASE v.marks[e[1]] = "unseen"
    <3>1. w.marks[e[1]] = "unseen" BY <1>5, <1>6, <2>2, <2>3
    <3> QED BY <2>1, <3>1 DEF Edges
  <2>4. ASSUME NEW m \in 1..Len(v.trail), v.trail[m].id = e[1],
               e[2] \in v.trail[m].todo
        PROVE  e \in Edges(p, w)
    <3>1. CASE m = 1
      <4>1. w.marks[e[1]] = "unseen" BY <1>3, <1>4, <2>4, <3>1
      <4> QED BY <2>1, <4>1 DEF Edges
    <3>2. ASSUME NEW i \in 1..n, m = i + 1 PROVE e \in Edges(p, w)
      <4>1. v.trail[m] = w.trail[i] BY <1>4, <3>2
      <4> QED BY <2>1, <2>4, <4>1 DEF Edges, n
    <3> QED BY <1>1, <1>4, <3>1, <3>2, Positions DEF n
  <2> QED BY <2>3, <2>4 DEF Edges
<1>8. /\ Unseen(p, v) \subseteq Unseen(p, w)
      /\ id \in Unseen(p, w) /\ id \notin Unseen(p, v)
  BY <1>5, <1>6 DEF Unseen
<1>9. Undone(p, v) \subseteq Undone(p, w) BY <1>5, <1>6 DEF Undone
<1> QED BY <1>7, <1>8, <1>9 DEF v

LEMMA CloseShrinks ==
  ASSUME NEW p \in Plan, NEW w, Faithful(p, w), w.trail # << >>,
         w.trail[1].todo = {}
  PROVE  /\ Edges(p, Leave(w)) \subseteq Edges(p, w)
         /\ Unseen(p, Leave(w)) \subseteq Unseen(p, w)
         /\ Undone(p, Leave(w)) \subseteq Undone(p, w)
         /\ Undone(p, Leave(w)) # Undone(p, w)
<1> DEFINE v == Leave(w)
           top == w.trail[1].id
           n == Len(w.trail)
<1>1. w \in Walks /\ w.trail \in Seq(Visited)
      /\ w.marks \in [Ids -> {"unseen", "visiting", "done"}]
  BY DEF Faithful, Walked, Walks, Visited
<1>2. /\ n \in Nat \ {0} /\ 1 \in 1..n
      /\ Len(Tail(w.trail)) = n - 1
      /\ \A i \in 1..(n - 1) : Tail(w.trail)[i] = w.trail[i + 1]
      /\ top \in Ids
  BY <1>1, Popped, TodoTyped
<1>3. /\ v.marks = [w.marks EXCEPT ![top] = "done"]
      /\ v.trail = Tail(w.trail)
  BY <1>1, LeaveTyped
<1>4. top \in StepIds(p) /\ w.marks[top] = "visiting"
  BY <1>2 DEF Faithful, Walked
<1> HIDE DEF v, n
<1>5. /\ v.marks[top] = "done"
      /\ \A d \in Ids \ {top} : v.marks[d] = w.marks[d]
  <2> HIDE DEF top
  <2> QED BY <1>1, <1>2, <1>3
<1>6. \A i \in 1..Len(v.trail) : \E k \in 1..n : v.trail[i] = w.trail[k]
  BY <1>2, <1>3
<1> HIDE DEF top
<1>7. StepIds(p) \subseteq Ids BY IdsOfPlan
<1>8. ASSUME NEW e \in Edges(p, v) PROVE e \in Edges(p, w)
  <2>1. e \in StepIds(p) \X StepIds(p) BY DEF Edges
  <2>2. e[1] \in StepIds(p) BY <2>1
  <2>3. CASE v.marks[e[1]] = "unseen"
    <3>1. w.marks[e[1]] = "unseen" BY <1>5, <1>7, <2>2, <2>3
    <3> QED BY <2>1, <3>1 DEF Edges
  <2>4. ASSUME NEW i \in 1..Len(v.trail), v.trail[i].id = e[1],
               e[2] \in v.trail[i].todo
        PROVE  e \in Edges(p, w)
    <3>1. PICK k \in 1..n : v.trail[i] = w.trail[k] BY <1>6
    <3> QED BY <2>1, <2>4, <3>1 DEF Edges, n
  <2> QED BY <2>3, <2>4 DEF Edges
<1>9. Unseen(p, v) \subseteq Unseen(p, w) BY <1>5, <1>7 DEF Unseen
<1>10. /\ Undone(p, v) \subseteq Undone(p, w)
       /\ top \in Undone(p, w) /\ top \notin Undone(p, v)
  BY <1>4, <1>5, <1>7 DEF Undone
<1> QED BY <1>8, <1>9, <1>10 DEF v

LEMMA MoveShrinks ==
  ASSUME NEW p \in Plan, Within(p), NEW w, Faithful(p, w), NEW v, Move(p, w, v)
  PROVE  Size(p, v) < Size(p, w)
<1>0. w \in Walks BY DEF Faithful, Walked
<1>1. CASE Opens(p, w, v)
  <2>1. First(Unseen(p, w)) \in Unseen(p, w)
    BY <1>1, UnseenIds, FirstOfIds DEF Opens
  <2>2. /\ First(Unseen(p, w)) \in StepIds(p)
        /\ w.marks[First(Unseen(p, w))] = "unseen"
    BY <2>1 DEF Unseen
  <2>3. /\ Edges(p, v) \subseteq Edges(p, w)
        /\ Unseen(p, v) \subseteq Unseen(p, w)
        /\ Unseen(p, v) # Unseen(p, w)
        /\ Undone(p, v) \subseteq Undone(p, w)
    BY <1>0, <1>1, <2>2, VisitShrinks DEF Opens
  <2> QED BY <2>3, SizeShrinks
<1>2. CASE Closes(w, v)
  <2>1. /\ Edges(p, v) \subseteq Edges(p, w)
        /\ Unseen(p, v) \subseteq Unseen(p, w)
        /\ Undone(p, v) \subseteq Undone(p, w)
        /\ Undone(p, v) # Undone(p, w)
    BY <1>2, CloseShrinks DEF Closes
  <2> QED BY <2>1, SizeShrinks
<1>3. CASE Passes(w, v) \/ Descends(p, w, v)
  <2> DEFINE u == Look(w, Ahead(w))
  <2>1. w.trail # << >> /\ w.trail[1].todo # {}
    BY <1>3 DEF Passes, Descends
  <2>2. Ahead(w) \in w.trail[1].todo BY <1>0, <2>1, TodoTyped
  <2>3. /\ Edges(p, u) \subseteq Edges(p, w) /\ Edges(p, u) # Edges(p, w)
        /\ Unseen(p, u) = Unseen(p, w) /\ Undone(p, u) = Undone(p, w)
    BY <2>1, <2>2, LookShrinks
  <2>4. CASE Passes(w, v) BY <2>3, <2>4, SizeShrinks DEF Passes
  <2>5. CASE Descends(p, w, v)
    <3>1. u \in Walks /\ u.marks = w.marks BY <1>0, <2>1, LookTyped
    <3>2. Ahead(w) \in StepIds(p)
      <4>1. 1 \in 1..Len(w.trail)
        <5>1. w.trail \in Seq(Visited) BY <1>0 DEF Walks, Visited
        <5> QED BY <2>1, <5>1, Popped
      <4> QED BY <2>2, <4>1 DEF Faithful, Walked, Within
    <3>3. w.marks[Ahead(w)] = "unseen" /\ v = Visit(p, u, Ahead(w))
      BY <2>5 DEF Descends
    <3> HIDE DEF u
    <3>4. /\ Edges(p, v) \subseteq Edges(p, u)
          /\ Unseen(p, v) \subseteq Unseen(p, u)
          /\ Unseen(p, v) # Unseen(p, u)
          /\ Undone(p, v) \subseteq Undone(p, u)
      BY <3>1, <3>2, <3>3, VisitShrinks
    <3> QED BY <2>3, <3>4, SizeShrinks
  <2> QED BY <1>3, <2>4, <2>5
<1> QED BY <1>1, <1>2, <1>3 DEF Move

(* Every move leaves less to do, so no set of walks always goes on. *)
LEMMA SearchEnds ==
  ASSUME NEW p \in Plan, Within(p), NEW S,
         \A w \in S : Faithful(p, w) /\ \E v \in S : Move(p, w, v)
  PROVE  S = {}
<1> SUFFICES ASSUME S # {} PROVE FALSE OBVIOUS
<1> DEFINE sizes == {n \in Nat : \E w \in S : n = Size(p, w)}
<1>1. \A w \in S : Size(p, w) \in sizes BY SizeNat
<1>2. sizes \in SUBSET Nat /\ sizes # {} BY <1>1
<1>3. PICK w \in S : First(sizes) = Size(p, w) BY <1>2, FirstIsLeast
<1>4. PICK v \in S : Move(p, w, v) OBVIOUS
<1>5. Size(p, v) < Size(p, w) BY <1>4, MoveShrinks
<1>6. Size(p, w) <= Size(p, v)
  <2>1. Size(p, v) \in sizes BY <1>1
  <2>2. \A n \in sizes : First(sizes) <= n BY <1>2, FirstIsLeast
  <2> HIDE DEF sizes
  <2> QED BY <1>3, <2>1, <2>2
<1> QED BY <1>5, <1>6, SizeNat

LEMMA StartSound ==
  ASSUME NEW p
  PROVE  Start \in Walks /\ Faithful(p, Start)
<1>1. << >> \in Seq(Visited) /\ Len(<< >>) = 0 OBVIOUS
<1>2. Start \in Walks BY <1>1 DEF Start, Walks, Visited
<1>3. Len(Start.trail) = 0 /\ \A id \in Ids : Start.marks[id] = "unseen"
  BY <1>1 DEF Start
<1>4. Walked(p, Start) BY <1>2, <1>3 DEF Walked
<1> QED BY <1>2, <1>3, <1>4 DEF Faithful

(* Steps that wait for one another: none of them can ever be first. *)
Trap(p, trap) ==
  /\ trap # {} /\ trap \subseteq StepIds(p)
  /\ \A id \in trap : Needs(p, id) \cap trap # {}

(* A dependency that is on the trail closes a cycle: the trail down to it. *)
LEMMA AlarmIsTrap ==
  ASSUME NEW p \in Plan, Within(p), NEW w, Faithful(p, w), Alarm(w)
  PROVE  \E trap : Trap(p, trap)
<1>1. w \in Walks /\ w.trail \in Seq(Visited)
  BY DEF Faithful, Walked, Walks, Visited
<1>2. Len(w.trail) \in Nat \ {0} BY <1>1, Popped DEF Alarm
<1>3. Ahead(w) \in w.trail[1].todo /\ Ahead(w) \in Ids
  BY <1>1, TodoTyped DEF Alarm
<1>4. PICK j \in 1..Len(w.trail) : w.trail[j].id = Ahead(w)
  BY <1>3 DEF Faithful, Walked, Alarm
<1> DEFINE trap == {id \in StepIds(p) : \E i \in 1..j : w.trail[i].id = id}
<1>5. \A i \in 1..j : i \in 1..Len(w.trail) BY <1>2
<1>6. \A i \in 1..j : w.trail[i].id \in trap BY <1>5 DEF Faithful, Walked
<1>7. 1 \in 1..j /\ j \in 1..j BY <1>2
<1>8. ASSUME NEW id \in trap PROVE Needs(p, id) \cap trap # {}
  <2>1. PICK i \in 1..j : w.trail[i].id = id OBVIOUS
  <2>2. CASE i = 1
    <3>1. Ahead(w) \in Needs(p, id)
      BY <1>3, <1>5, <2>1, <2>2 DEF Faithful, Walked
    <3>2. Ahead(w) \in trap BY <1>4, <1>6, <1>7
    <3> QED BY <3>1, <3>2
  <2>3. CASE i # 1
    <3>1. PICK k \in 1..j : i = k + 1
      <4>1. i - 1 \in 1..j /\ i = (i - 1) + 1 BY <2>3
      <4> QED BY <4>1
    <3>2. w.trail[k].id \in Needs(p, w.trail[i].id)
      BY <1>5, <3>1 DEF Faithful, Walked
    <3> QED BY <1>6, <2>1, <3>2
  <2> QED BY <2>2, <2>3
<1> HIDE DEF trap
<1>9. trap \subseteq StepIds(p) BY DEF trap
<1> QED BY <1>6, <1>7, <1>8, <1>9 DEF Trap

(* A search that finds nothing would be done with the steps of a trap one   *)
(* after the other, and with each only after the one it needs.              *)
LEMMA TrapIsFound ==
  ASSUME NEW p \in Plan, Within(p), NEW trap, Trap(p, trap)
  PROVE  FindCycle(p)
<1> DEFINE Kept(w) == \A id \in trap : w.marks[id] # "done"
           S == {w \in Walks : Faithful(p, w) /\ Kept(w) /\ ~ Search(p)[w]}
<1>0. trap \subseteq StepIds(p) /\ trap \subseteq Ids BY IdsOfPlan DEF Trap
<1>1. ASSUME NEW w \in S PROVE \E v \in S : Move(p, w, v)
  <2>1. /\ w \in Walks /\ Faithful(p, w) /\ ~ Search(p)[w]
        /\ w.marks \in [Ids -> {"unseen", "visiting", "done"}]
        /\ \A id \in trap : w.marks[id] # "done"
    BY DEF Walks
  <2>2. ASSUME NEW v, Move(p, w, v), \A id \in trap : v.marks[id] # "done"
        PROVE  v \in S
    <3>1. v \in Walks BY <2>1, <2>2, MoveTyped
    <3>2. Faithful(p, v) BY <2>1, <2>2, MoveSound
    <3>3. ~ Search(p)[v] BY <2>1, <2>2, <3>1, SearchStep
    <3> QED BY <2>2, <3>1, <3>2, <3>3
  <2>3. ASSUME NEW m, NEW id \in Ids, m = [w.marks EXCEPT ![id] = "visiting"]
        PROVE  \A t \in trap : m[t] # "done"
    <3>1. \A t \in Ids : m[t] = IF t = id THEN "visiting" ELSE w.marks[t]
      BY <2>1, <2>3
    <3> QED BY <1>0, <2>1, <3>1
  <2> HIDE DEF S
  <2>4. CASE w.trail = << >>
    <3>1. Unseen(p, w) # {}
      <4>1. PICK t \in trap : TRUE BY DEF Trap
      <4>2. w.marks[t] # "visiting"
        <5>1. Len(w.trail) = 0 BY <2>4
        <5>2. ~ \E i \in 1..Len(w.trail) : w.trail[i].id = t BY <5>1
        <5> QED BY <1>0, <2>1, <5>2 DEF Faithful, Walked
      <4>3. w.marks[t] = "unseen" BY <1>0, <2>1, <4>2
      <4> QED BY <1>0, <4>3 DEF Unseen
    <3> DEFINE id == First(Unseen(p, w))
               v == Visit(p, w, id)
    <3>2. id \in Ids BY <3>1, UnseenIds, FirstOfIds
    <3>3. Move(p, w, v) BY <2>4, <3>1 DEF Move, Opens
    <3>4. v.marks = [w.marks EXCEPT ![id] = "visiting"]
      BY <2>1, <3>2, VisitTyped
    <3> HIDE DEF id, v
    <3>5. \A t \in trap : v.marks[t] # "done" BY <2>3, <3>2, <3>4
    <3> QED BY <2>2, <3>3, <3>5
  <2>5. CASE w.trail # << >> /\ w.trail[1].todo = {}
    <3> DEFINE id == w.trail[1].id
               v == Leave(w)
    <3>1. Move(p, w, v) BY <2>5 DEF Move, Closes
    <3>2. \A d \in Needs(p, id) : w.marks[d] = "done"
      BY <2>1, <2>5, CloseSound
    <3>3. id \in Ids BY <2>1, <2>5, TodoTyped
    <3>4. v.marks = [w.marks EXCEPT ![id] = "done"] BY <2>1, <2>5, LeaveTyped
    <3> HIDE DEF id, v
    <3>5. id \notin trap BY <2>1, <3>2 DEF Trap
    <3>6. \A t \in Ids \ {id} : v.marks[t] = w.marks[t] BY <2>1, <3>3, <3>4
    <3>7. \A t \in trap : v.marks[t] # "done" BY <1>0, <2>1, <3>5, <3>6
    <3> QED BY <2>2, <3>1, <3>7
  <2>6. CASE w.trail # << >> /\ w.trail[1].todo # {}
    <3> DEFINE id == Ahead(w)
               u == Look(w, id)
    <3>1. id \in Ids BY <2>1, <2>6, TodoTyped
    <3>2. u \in Walks /\ u.marks = w.marks BY <2>1, <2>6, LookTyped
    <3>3. w.marks[id] # "visiting" BY <2>1, <2>6, SearchStep DEF Alarm
    <3>4. CASE w.marks[id] = "done"
      <4>1. Move(p, w, u) BY <2>6, <3>4 DEF Move, Passes
      <4> QED BY <2>1, <2>2, <3>2, <4>1
    <3>5. CASE w.marks[id] = "unseen"
      <4> DEFINE v == Visit(p, u, id)
      <4>1. Move(p, w, v) BY <2>6, <3>5 DEF Move, Descends
      <4>2. v.marks = [w.marks EXCEPT ![id] = "visiting"]
        <5> HIDE DEF id, u
        <5>1. Visit(p, u, id).marks = [u.marks EXCEPT ![id] = "visiting"]
          BY <3>1, <3>2, VisitTyped
        <5> QED BY <3>2, <5>1
      <4> HIDE DEF id, u, v
      <4>3. \A t \in trap : v.marks[t] # "done" BY <2>3, <3>1, <4>2
      <4> QED BY <2>2, <4>1, <4>3
    <3> HIDE DEF id, u
    <3>6. w.marks[id] \in {"unseen", "visiting", "done"} BY <2>1, <3>1
    <3> QED BY <3>3, <3>4, <3>5, <3>6
  <2> QED BY <2>4, <2>5, <2>6
<1>2. \A w \in S : Faithful(p, w) OBVIOUS
<1>3. S = {}
  <2> HIDE DEF S
  <2> QED BY <1>1, <1>2, SearchEnds
<1>4. Kept(Start) BY <1>0 DEF Start
<1>5. Search(p)[Start] BY <1>3, <1>4, StartSound
<1> QED BY <1>5, FindCycleIs

(* A search that finds a cycle cannot always find it later only. *)
LEMMA FoundIsTrap ==
  ASSUME NEW p \in Plan, Within(p), FindCycle(p)
  PROVE  \E trap : Trap(p, trap)
<1> SUFFICES ASSUME ~ \E trap : Trap(p, trap) PROVE FALSE OBVIOUS
<1> DEFINE S == {w \in Walks : Faithful(p, w) /\ Search(p)[w]}
<1>1. ASSUME NEW w \in S PROVE \E v \in S : Move(p, w, v)
  <2>1. w \in Walks /\ Faithful(p, w) /\ Search(p)[w] OBVIOUS
  <2>2. ~ Alarm(w) BY <2>1, AlarmIsTrap
  <2>3. PICK v \in Walks : Move(p, w, v) /\ Search(p)[v]
    BY <2>1, <2>2, SearchStep
  <2> QED BY <2>1, <2>3, MoveSound
<1>2. \A w \in S : Faithful(p, w) OBVIOUS
<1>3. S = {}
  <2> HIDE DEF S
  <2> QED BY <1>1, <1>2, SearchEnds
<1>4. Search(p)[Start] BY FindCycleIs
<1> QED BY <1>3, <1>4, StartSound

(* findCycle (internal/plan/validate.go): it refuses a plan exactly when    *)
(* there are steps each of which waits for another of them, wherever in the *)
(* plan they are and whatever order the search takes.                       *)
THEOREM CyclesAreFound ==
  ASSUME NEW p \in Plan, Within(p)
  PROVE  HasCycle(p) <=> \E trap : Trap(p, trap)
BY TrapIsFound, FoundIsTrap DEF HasCycle

----
(* A plan that Validate accepts: what is not complete when nothing is ready *)
(* would be a trap.                                                         *)
LEMMA ValidGoesOn ==
  ASSUME NEW p \in Plan, NEW limit, Validate(p, limit), NEW status,
         \A id \in StepIds(p) : status[id] \in {"PENDING", "READY", "COMPLETED"},
         ReadySteps(p, status) = {}
  PROVE  \A id \in StepIds(p) : status[id] = "COMPLETED"
<1> DEFINE rest == {id \in StepIds(p) : status[id] # "COMPLETED"}
<1>1. Within(p)
  <2>1. ASSUME NEW id \in StepIds(p) PROVE Needs(p, id) \subseteq StepIds(p)
    <3>1. PICK k \in DOMAIN p : StepOf(p, id) = p[k] BY StepFound
    <3> QED BY <3>1 DEF Validate, Needs
  <2> QED BY <2>1 DEF Within
<1>2. ~ \E trap : Trap(p, trap) BY <1>1, CyclesAreFound DEF Validate
<1>3. ASSUME NEW id \in rest PROVE Needs(p, id) \cap rest # {}
  <2>1. ~ DependenciesDone(StepOf(p, id), status) BY DEF ReadySteps
  <2>2. PICK d \in StepOf(p, id).needs : status[d] # "COMPLETED"
    BY <2>1 DEF DependenciesDone
  <2>3. d \in Needs(p, id) /\ d \in StepIds(p) BY <1>1, <2>2 DEF Needs, Within
  <2> QED BY <2>2, <2>3
<1>4. rest = {} BY <1>2, <1>3 DEF Trap
<1> QED BY <1>4

(* plan.Validate and plan.ReadySteps: no plan that was accepted gets stuck  *)
(* on its dependencies, in any state of its steps that the calls, their     *)
(* aborts, recovery and replans can bring about.                            *)
THEOREM PlanNeverStuck == Spec => []PlanKeepsGoing
<1>1. ASSUME StoreTypes, Accepted PROVE PlanKeepsGoing
  <2>1. Len(plans) \in DOMAIN plans BY <1>1, EmptySeq DEF StoreTypes
  <2>2. plan \in Plan /\ Validate(plan, MaxSteps)
    BY <1>1, <2>1, PlanStored DEF Accepted, plan
  <2> QED BY <2>2, ValidGoesOn DEF PlanKeepsGoing, Ready
<1>2. IInv /\ Accepted => PlanKeepsGoing
  BY <1>1 DEF IInv, TypeOK, StoreTypes
<1> QED BY <1>2, Invariance, AcceptedPlans, PTL
=============================================================================
