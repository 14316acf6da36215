------------------------- MODULE TaskRuntimeProofs -------------------------
(***************************************************************************)
(* Theorems about TaskRuntime, for any number of concurrent calls, any     *)
(* operations among them, any plans and any budgets.                       *)
(***************************************************************************)
EXTENDS TaskRuntime, SequenceTheorems, TLAPS

(* No table shrinks: rows of plans and steps are only added. *)
Grows ==
  /\ Len(plans) <= Len(plans')
  /\ DOMAIN steps \subseteq DOMAIN steps'

----
(* Types.  An action changes the locals of its caller by Goto, Begin or one *)
(* EXCEPT each, and the store by one statement; the next lemmas are about   *)
(* these building blocks.                                                   *)

LEMMA LenNat == ASSUME StoreTypes PROVE Len(plans) \in Nat
BY DEF StoreTypes

LEMMA SameStore ==
  ASSUME StoreTypes, UNCHANGED store
  PROVE  StoreTypes' /\ Grows
<1>1. StoreTypes' BY DEF StoreTypes, store, Ids
<1>2. Grows BY LenNat DEF Grows, store
<1> QED BY <1>1, <1>2

(* rev and step stay typed as the tables grow *)
LEMMA KeepTypes ==
  ASSUME StoreTypes, StoreTypes', CallTypes, Grows
  PROVE  /\ rev \in [Callers -> 0..Len(plans')]
         /\ step \in [Callers -> DOMAIN steps' \cup {NoStep}]
<1>1. Len(plans) \in Nat /\ Len(plans') \in Nat BY DEF StoreTypes
<1>2. rev \in [Callers -> 0..Len(plans')] BY <1>1 DEF CallTypes, Grows
<1>3. step \in [Callers -> DOMAIN steps' \cup {NoStep}]
  BY DEF CallTypes, Grows
<1> QED BY <1>2, <1>3

LEMMA BeginTypes ==
  ASSUME StoreTypes, StoreTypes', CallTypes, Grows, NEW c \in Callers,
         NEW o \in Operations \cup {NONE}, NEW l \in Label, Begin(c, o, l)
  PROVE  CallTypes'
<1>1. Len(plans) \in Nat /\ Len(plans') \in Nat BY DEF StoreTypes
<1>2. /\ pc' \in [Callers -> Label] /\ after' \in [Callers -> Label]
      /\ op' \in [Callers -> Operations \cup {NONE}]
      /\ seen' \in [Callers -> TaskStatus \cup {NONE}]
      /\ was' \in [Callers -> StepStatus \cup {NONE}]
      /\ passed' \in [Callers -> BOOLEAN]
  BY DEF CallTypes, Begin, To, Label
<1>3. rev' \in [Callers -> 0..Len(plans')]
  BY <1>1 DEF CallTypes, Begin, Grows
<1>4. step' \in [Callers -> DOMAIN steps' \cup {NoStep}]
  BY DEF CallTypes, Begin, Grows
<1> QED BY <1>2, <1>3, <1>4 DEF CallTypes

LEMMA GotoTypes ==
  ASSUME StoreTypes, StoreTypes', CallTypes, Grows, NEW c \in Callers,
         NEW l \in Label, Goto(c, l)
  PROVE  CallTypes'
<1>1. Len(plans) \in Nat /\ Len(plans') \in Nat BY DEF StoreTypes
<1>2. /\ pc' \in [Callers -> Label] /\ after' \in [Callers -> Label]
      /\ op' \in [Callers -> Operations \cup {NONE}]
      /\ seen' \in [Callers -> TaskStatus \cup {NONE}]
      /\ was' \in [Callers -> StepStatus \cup {NONE}]
      /\ passed' \in [Callers -> BOOLEAN]
  BY DEF CallTypes, Goto, To
<1>3. rev' \in [Callers -> 0..Len(plans')]
  BY <1>1 DEF CallTypes, Goto, Grows
<1>4. step' \in [Callers -> DOMAIN steps' \cup {NoStep}]
  BY DEF CallTypes, Goto, Grows
<1> QED BY <1>2, <1>3, <1>4 DEF CallTypes

LEMMA FinishTypes ==
  ASSUME StoreTypes, StoreTypes', CallTypes, Grows, NEW c \in Callers,
         Finish(c) \/ Return(c)
  PROVE  CallTypes'
<1>1. op[c] \in Operations \cup {NONE} BY DEF CallTypes
<1>2. {"snapshot", "idle"} \subseteq Label BY DEF Label
<1>3. \E o \in Operations \cup {NONE}, l \in Label : Begin(c, o, l)
  BY <1>1, <1>2 DEF Finish, Return
<1> QED BY <1>3, BeginTypes

LEMMA TaskWrite ==
  ASSUME StoreTypes, NEW from, NEW to \in TaskStatus, TaskCAS(from, to),
         UNCHANGED <<plans, steps, evidence, attached, pending, finals>>
  PROVE  StoreTypes' /\ Grows
<1>1. StoreTypes' BY DEF StoreTypes, TaskCAS, Ids
<1>2. Grows BY LenNat DEF Grows
<1> QED BY <1>1, <1>2

LEMMA StepWrite ==
  ASSUME StoreTypes, NEW s \in DOMAIN steps, NEW from, NEW to \in StepStatus,
         StepCAS(s, from, to),
         UNCHANGED <<status, plans, evidence, attached, pending, finals>>
  PROVE  StoreTypes' /\ Grows
<1>1. DOMAIN steps' = DOMAIN steps BY DEF StepCAS
<1>2. \A t \in DOMAIN steps' : steps'[t] \in StepStatus
  BY <1>1 DEF StepCAS, StoreTypes
<1>3. StoreTypes' BY <1>1, <1>2 DEF StoreTypes, Ids
<1>4. Grows BY <1>1, LenNat DEF Grows
<1> QED BY <1>3, <1>4

LEMMA PlanWrite ==
  ASSUME StoreTypes, NEW c \in Callers, CreatePlan(c)
  PROVE  StoreTypes' /\ Grows
<1>1. PICK shape \in Shapes :
        /\ plans' = Append(plans, shape)
        /\ steps' = [s \in DOMAIN steps \cup
                           {<<Len(plans) + 1, i>> : i \in DOMAIN shape} |->
                       IF s \in DOMAIN steps THEN steps[s] ELSE "PENDING"]
  BY DEF CreatePlan
<1>2. /\ plans' \in Seq(Shapes)
      /\ Len(plans') = Len(plans) + 1
      /\ Len(plans) \in Nat
      /\ plans'[Len(plans) + 1] = shape
      /\ \A r \in DOMAIN plans : plans'[r] = plans[r]
  BY <1>1, AppendProperties DEF StoreTypes
<1>3. DOMAIN plans' = DOMAIN plans \cup {Len(plans) + 1}
  BY <1>2 DEF StoreTypes
<1>4. DOMAIN steps' =
        DOMAIN steps \cup {<<Len(plans) + 1, i>> : i \in DOMAIN shape}
  BY <1>1
<1> DEFINE Rows(r) == {<<r, i>> : i \in DOMAIN plans'[r]}
<1>5. /\ Rows(Len(plans) + 1) = {<<Len(plans) + 1, i>> : i \in DOMAIN shape}
      /\ \A r \in DOMAIN plans : Rows(r) = Ids(r)
  BY <1>2 DEF Ids
<1>6. DOMAIN steps' = UNION {Ids(r)' : r \in DOMAIN plans'}
  <2>1. DOMAIN steps = UNION {Ids(r) : r \in DOMAIN plans}
    BY DEF StoreTypes
  <2>2. {Rows(r) : r \in DOMAIN plans'} =
          {Ids(r) : r \in DOMAIN plans} \cup {Rows(Len(plans) + 1)}
    <3> HIDE DEF Rows
    <3> QED BY <1>3, <1>5
  <2>3. UNION {Rows(r) : r \in DOMAIN plans'} =
          DOMAIN steps \cup Rows(Len(plans) + 1)
    <3> HIDE DEF Rows
    <3> QED BY <2>1, <2>2
  <2>4. {Ids(r)' : r \in DOMAIN plans'} = {Rows(r) : r \in DOMAIN plans'}
    BY DEF Ids
  <2> QED BY <1>4, <1>5, <2>3, <2>4
<1>7. \A s \in DOMAIN steps' : steps'[s] \in StepStatus
  BY <1>1, <1>4 DEF StoreTypes, StepStatus
<1>8. Grows BY <1>2, <1>4 DEF Grows
<1>9. UNCHANGED <<status, evidence, attached, pending, finals>>
  BY DEF CreatePlan
<1>10. StoreTypes' BY <1>2, <1>4, <1>6, <1>7, <1>9 DEF StoreTypes
<1> QED BY <1>8, <1>10

----
(* What a call knows of the step it works on: the row exists, and while the *)
(* call executes it the row has the status the call left there.             *)
Chosen ==
  {"start_task", "stage", "claim", "execute", "resume_task", "resume_step",
   "write", "save_report", "attach", "save_pending", "wait_step", "ask_step",
   "fail_step", "verify_step", "complete_step"}

Reported == {"verify_step", "ask_step", "fail_step", "save_pending"}

StepKnown(c) ==
  /\ pc[c] = "load_steps" => rev[c] \in DOMAIN plans
  /\ pc[c] \in Chosen => step[c] \in DOMAIN steps
  /\ pc[c] \in {"save_report", "attach"} => after[c] \in Reported

StepHeld(c) ==
  Executing(c) =>
    steps[step[c]] = IF pc[c] = "complete_step" THEN "VERIFYING"
                                                ELSE "RUNNING"

LEMMA LabelsKnown == Chosen \subseteq Label /\ Reported \subseteq Label
BY DEF Chosen, Reported, Label

(* A step with an id of a stored plan has a row. *)
LEMMA IdsAreRows ==
  ASSUME StoreTypes, NEW r \in DOMAIN plans
  PROVE  Ids(r) \subseteq DOMAIN steps
BY DEF StoreTypes

LEMMA RecordWrite ==
  ASSUME StoreTypes, UNCHANGED <<status, plans, steps>>,
         \/ evidence' = evidence
         \/ evidence' \subseteq [kind : EvidenceKind, step : DOMAIN steps],
         \/ attached' = attached
         \/ attached' \subseteq DOMAIN steps,
         \/ pending' = pending
         \/ pending' \subseteq [kind : PendingKind, step : DOMAIN steps],
         finals' = finals \/ finals' \subseteq BOOLEAN
  PROVE  StoreTypes' /\ Grows
<1>1. StoreTypes' BY DEF StoreTypes, Ids
<1>2. Grows BY LenNat DEF Grows
<1> QED BY <1>1, <1>2

LEMMA EvidenceIsTyped ==
  ASSUME StoreTypes, NEW c \in Callers, step[c] \in DOMAIN steps
  PROVE  evidence \cup {Evidence(c)}
           \subseteq [kind : EvidenceKind, step : DOMAIN steps]
BY DEF StoreTypes, Evidence, EvidenceKind

(* The step ReadySteps offers first has a row. *)
LEMMA ReadyIsRow ==
  ASSUME StoreTypes, NEW r \in DOMAIN plans
  PROVE  NextReady(r) \subseteq DOMAIN steps
<1>1. ReadySteps(r) \subseteq DOMAIN plans[r] BY DEF ReadySteps
<1>2. NextReady(r) \subseteq Ids(r) BY <1>1 DEF NextReady, Ids
<1> QED BY <1>2, IdsAreRows

(* Every statement keeps the types. *)
LEMMA ContinueTypes ==
  ASSUME TypeOK, NEW c \in Callers, StepKnown(c), Continue(c)
  PROVE  TypeOK' /\ Grows
<1> USE DEF TypeOK
<1>0. /\ pc[c] \in Label /\ after[c] \in Label
      /\ pc[c] \in Chosen => step[c] \in DOMAIN steps
  BY DEF CallTypes, StepKnown
(* one write of the task row *)
<1>1. CASE \/ InsertTask(c) \/ MoveToPlanning(c) \/ MoveToReady(c)
           \/ StartTask(c) \/ ParkTask(c) \/ AskTask(c) \/ FailTask(c)
           \/ ResumeTask(c) \/ MoveToVerifying(c) \/ Decide(c) \/ PauseTask(c)
  <2> USE DEF InsertTask, MoveToPlanning, MoveToReady, StartTask, ParkTask,
              AskTask, FailTask, ResumeTask, MoveToVerifying, Decide, PauseTask
  <2>1. StoreTypes' /\ Grows
    BY <1>1, TaskWrite, SameStore DEF TaskStatus, store
  <2>2. CallTypes'
    BY <1>1, <2>1, GotoTypes, FinishTypes DEF Label, NextOfStart
  <2> QED BY <2>1, <2>2
(* one write of the row of the call's step *)
<1>2. CASE \/ StageStep(c) \/ ParkStep(c) \/ AskStep(c) \/ FailStep(c)
           \/ ResumeStep(c) \/ VerifyStep(c) \/ CompleteStep(c)
  <2> USE DEF StageStep, ParkStep, AskStep, FailStep, ResumeStep, VerifyStep,
              CompleteStep
  <2>1. StoreTypes' /\ Grows
    BY <1>0, <1>2, StepWrite, SameStore DEF Chosen, StepStatus, store
  <2>2. CallTypes'
    BY <1>2, <2>1, GotoTypes DEF Label
  <2> QED BY <2>1, <2>2
<1>3. CASE ClaimStep(c)
  <2>1. StoreTypes' /\ Grows
    BY <1>0, <1>3, StepWrite DEF ClaimStep, Chosen, StepStatus
  <2>2. CallTypes'
    BY <1>3, <2>1, KeepTypes DEF ClaimStep, CallTypes, To, Label
  <2> QED BY <2>1, <2>2
(* one row more in another table *)
<1>4. CASE CreatePlan(c)
  <2>1. StoreTypes' /\ Grows
    BY <1>4, PlanWrite
  <2>2. CallTypes'
    BY <1>4, <2>1, GotoTypes, FinishTypes DEF CreatePlan, Label
  <2> QED BY <2>1, <2>2
<1>5. CASE SaveReport(c) \/ Attach(c)
  <2>1. StoreTypes' /\ Grows
    BY <1>0, <1>5, EvidenceIsTyped, RecordWrite
    DEF SaveReport, Attach, Chosen, StoreTypes
  <2>2. CallTypes'
    BY <1>0, <1>5, <2>1, KeepTypes
    DEF SaveReport, Attach, Goto, CallTypes, To, Label
  <2> QED BY <2>1, <2>2
<1>6. CASE SavePending(c)
  <2>1. pending' \subseteq [kind : PendingKind, step : DOMAIN steps]
    BY <1>0, <1>6 DEF SavePending, Chosen, StoreTypes
  <2>2. StoreTypes' /\ Grows
    BY <1>6, <2>1, RecordWrite DEF SavePending
  <2>3. CallTypes'
    BY <1>6, <2>2, GotoTypes DEF SavePending, Label
  <2> QED BY <2>2, <2>3
<1>7. CASE SaveFinal(c)
  <2>1. finals' \subseteq BOOLEAN
    BY <1>7 DEF SaveFinal, StoreTypes, CallTypes
  <2>2. StoreTypes' /\ Grows
    BY <1>7, <2>1, RecordWrite DEF SaveFinal
  <2>3. CallTypes'
    BY <1>7, <2>2, GotoTypes DEF SaveFinal, Label
  <2> QED BY <2>2, <2>3
(* the store is only read *)
<1>8. CASE Snapshot(c) \/ Look(c)
  <2>1. StoreTypes' /\ Grows
    BY <1>8, SameStore DEF Snapshot, Look
  <2>2. CallTypes'
    BY <1>8, <2>1, GotoTypes, FinishTypes DEF Snapshot, Look, Label
  <2> QED BY <2>1, <2>2
<1>9. CASE \/ LoadTask(c) \/ ExecutionFails(c) \/ WriteFiles(c)
           \/ VerifyTask(c) \/ Execute(c)
  <2> USE DEF LoadTask, ExecutionFails, WriteFiles, VerifyTask, Execute
  <2>1. StoreTypes' /\ Grows
    BY <1>9, SameStore DEF store
  <2>2. UNCHANGED <<op, rev, step, was>>
    BY <1>9
  <2>3. \A next \in Outcomes(c) : next \in Label
    BY DEF Outcomes, Label
  <2>4. pc' \in [Callers -> Label] /\ after' \in [Callers -> Label]
    <3>1. after' \in [Callers -> Label]
      <4>1. "idle" \in Label
        BY DEF Label
      <4> QED BY <1>9, <2>3, <4>1 DEF CallTypes
    <3>2. pc' \in [Callers -> Label]
      BY <1>0, <1>9 DEF CallTypes, To, Label
    <3> QED BY <3>1, <3>2
  <2>5. /\ seen' \in [Callers -> TaskStatus \cup {NONE}]
        /\ passed' \in [Callers -> BOOLEAN]
    BY <1>9 DEF StoreTypes, CallTypes
  <2>6. CallTypes'
    BY <2>1, <2>2, <2>4, <2>5, KeepTypes DEF CallTypes
  <2> QED BY <2>1, <2>6
<1>10. CASE LoadPlan(c)
  <2>1. StoreTypes' /\ Grows
    BY <1>10, SameStore DEF LoadPlan
  <2>2. Len(plans') \in Nat
    BY <2>1 DEF StoreTypes
  <2>3. rev' \in [Callers -> 0..Len(plans')] /\ pc' \in [Callers -> Label]
    BY <1>10, <2>1, <2>2, KeepTypes DEF LoadPlan, CallTypes, To, Label, store
  <2>4. UNCHANGED <<op, seen, step, was, after, passed>>
    BY <1>10 DEF LoadPlan
  <2>5. CallTypes'
    BY <2>1, <2>3, <2>4, KeepTypes DEF CallTypes
  <2> QED BY <2>1, <2>5
<1>11. CASE PickReady(c)
  <2>1. StoreTypes' /\ Grows
    BY <1>11, SameStore DEF PickReady
  <2>2. PICK s \in NextReady(rev[c]) :
          /\ step' = [step EXCEPT ![c] = s]
          /\ was' = [was EXCEPT ![c] = steps[s]]
          /\ To(c, IF seen[c] = "READY" THEN "start_task"
                   ELSE NextOfStart(c, steps[s]))
    BY <1>11 DEF PickReady
  <2>3. /\ step' \in [Callers -> DOMAIN steps' \cup {NoStep}]
        /\ was' \in [Callers -> StepStatus \cup {NONE}]
    <3>1. s \in DOMAIN steps
      BY <1>11, ReadyIsRow DEF PickReady, StepKnown
    <3> QED BY <2>1, <2>2, <3>1 DEF CallTypes, StoreTypes, Grows
  <2>4. pc' \in [Callers -> Label]
    BY <2>2 DEF CallTypes, To, NextOfStart, Label
  <2>5. UNCHANGED <<op, seen, rev, after, passed>>
    BY <1>11 DEF PickReady
  <2>6. CallTypes'
    BY <2>1, <2>3, <2>4, <2>5, KeepTypes DEF CallTypes
  <2> QED BY <2>1, <2>6
<1>12. CASE PickWaiting(c)
  <2>1. StoreTypes' /\ Grows
    BY <1>12, SameStore DEF PickWaiting
  <2>2. PICK s \in Ids(rev[c]) : step' = [step EXCEPT ![c] = s]
    BY <1>12 DEF PickWaiting
  <2>3. s \in DOMAIN steps
    BY <1>12, <2>2, IdsAreRows DEF PickWaiting, StepKnown
  <2>4. /\ step' \in [Callers -> DOMAIN steps' \cup {NoStep}]
        /\ seen' \in [Callers -> TaskStatus \cup {NONE}]
        /\ pc' \in [Callers -> Label]
    BY <1>12, <2>1, <2>2, <2>3 DEF PickWaiting, CallTypes, Grows, To, Label
  <2>5. UNCHANGED <<op, rev, was, after, passed>>
    BY <1>12 DEF PickWaiting
  <2>6. CallTypes'
    BY <2>1, <2>4, <2>5, KeepTypes DEF CallTypes
  <2> QED BY <2>1, <2>6
<1> QED
  BY <1>1, <1>2, <1>3, <1>4, <1>5, <1>6, <1>7, <1>8, <1>9, <1>10, <1>11, <1>12
  DEF Continue

LEMMA CallTypesKept ==
  ASSUME TypeOK, NEW c \in Callers,
         (\E o \in Operations : Call(c, o)) \/ Abort(c)
  PROVE  TypeOK' /\ Grows
<1>1. StoreTypes' /\ Grows
  BY SameStore DEF Call, Abort, TypeOK
<1>2. CallTypes'
  BY <1>1, BeginTypes, FinishTypes DEF Call, Abort, TypeOK, Label
<1> QED BY <1>1, <1>2 DEF TypeOK

----
(* The discipline of a step of call c: it leaves the other calls' locals    *)
(* alone; it starts to execute a step that nobody executes; and it changes  *)
(* the status of a step that it executes or that nobody does.               *)
Held == {"RUNNING", "VERIFYING"}

OthersKeep(c) ==
  \A d \in Callers \ {c} :
    /\ pc'[d] = pc[d] /\ step'[d] = step[d]
    /\ rev'[d] = rev[d] /\ after'[d] = after[d]
    /\ op'[d] = op[d] /\ passed'[d] = passed[d]

Claims(c) ==
  Executing(c)' =>
    \/ Executing(c) /\ step'[c] = step[c]
    \/ steps[step'[c]] \notin Held

Touches(c) ==
  \A s \in DOMAIN steps : steps'[s] # steps[s] =>
    \/ Executing(c) /\ s = step[c]
    \/ steps[s] \notin Held

Disciplined(c) ==
  OthersKeep(c) /\ Claims(c) /\ Touches(c) /\ StepKnown(c)' /\ StepHeld(c)'

(* A plan that exists keeps its place, as does everything a call reads of   *)
(* its step: what another call knows of its own step stays true.            *)
LEMMA OthersStillKnow ==
  ASSUME StoreTypes, StoreTypes', CallTypes, Grows, OneExecutorPerStep,
         NEW c \in Callers, NEW d \in Callers \ {c}, Disciplined(c),
         StepKnown(d), StepHeld(d)
  PROVE  StepKnown(d)' /\ StepHeld(d)'
<1>1. /\ pc'[d] = pc[d] /\ step'[d] = step[d]
      /\ rev'[d] = rev[d] /\ after'[d] = after[d]
    /\ op'[d] = op[d] /\ passed'[d] = passed[d]
  BY DEF Disciplined, OthersKeep
<1>2. /\ DOMAIN plans \subseteq DOMAIN plans'
      /\ DOMAIN steps \subseteq DOMAIN steps'
  BY DEF StoreTypes, Grows
<1>3. StepKnown(d)'
  BY <1>1, <1>2 DEF StepKnown
<1>4. ASSUME Executing(d)
      PROVE  steps'[step[d]] = steps[step[d]]
  <2>1. step[d] \in DOMAIN steps /\ steps[step[d]] \in Held
    BY <1>4 DEF StepKnown, StepHeld, Executing, Chosen, Held
  <2>2. Executing(c) => step[c] # step[d]
    BY <1>4 DEF OneExecutorPerStep
  <2> QED BY <2>1, <2>2 DEF Disciplined, Touches
<1>5. StepHeld(d)'
  BY <1>1, <1>4 DEF StepHeld, Executing
<1> QED BY <1>3, <1>5

LEMMA StillOneExecutor ==
  ASSUME NEW c \in Callers, Disciplined(c), OneExecutorPerStep,
         \A d \in Callers : StepHeld(d)
  PROVE  OneExecutorPerStep'
<1> SUFFICES ASSUME NEW d \in Callers \ {c}, Executing(c)', Executing(d)'
             PROVE  step'[c] # step'[d]
  <2>1. \A a, b \in Callers \ {c} : a # b /\ Executing(a)' /\ Executing(b)'
                                       => step'[a] # step'[b]
    BY DEF Disciplined, OthersKeep, OneExecutorPerStep, Executing
  <2> QED BY <2>1 DEF OneExecutorPerStep
<1>1. Executing(d) /\ step'[d] = step[d]
  BY DEF Disciplined, OthersKeep, Executing
<1>2. steps[step[d]] \in Held
  BY <1>1 DEF StepHeld, Held
<1> QED BY <1>1, <1>2 DEF Disciplined, Claims, OneExecutorPerStep

LEMMA OthersMove ==
  ASSUME CallTypes, NEW c \in Callers,
         \/ \E l \in Label : Goto(c, l)
         \/ \E o \in Operations \cup {NONE}, l \in Label : Begin(c, o, l)
         \/ Finish(c)
  PROVE  OthersKeep(c)
<1>1. CASE \E l \in Label : Goto(c, l)
  BY <1>1 DEF Goto, To, OthersKeep, CallTypes
<1>2. CASE \E o \in Operations \cup {NONE}, l \in Label : Begin(c, o, l)
  BY <1>2 DEF Begin, To, OthersKeep, CallTypes
<1>3. CASE Finish(c)
  BY <1>3 DEF Finish, Return, Begin, To, OthersKeep, CallTypes
<1> QED BY <1>1, <1>2, <1>3

LEMMA ContinueDisciplined ==
  ASSUME TypeOK, TypeOK', Grows, NEW c \in Callers, StepKnown(c), StepHeld(c),
         Continue(c)
  PROVE  Disciplined(c)
<1> USE DEF TypeOK, CallTypes, OthersKeep, To
(* statements before and after the execution of a step *)
<1>1. CASE \/ InsertTask(c) \/ MoveToPlanning(c) \/ MoveToReady(c)
           \/ Snapshot(c) \/ LoadTask(c) \/ StartTask(c) \/ ParkTask(c)
           \/ AskTask(c) \/ FailTask(c) \/ ResumeTask(c) \/ Look(c)
           \/ MoveToVerifying(c) \/ VerifyTask(c) \/ SaveFinal(c) \/ Decide(c)
           \/ PauseTask(c)
  <2> USE DEF InsertTask, MoveToPlanning, MoveToReady, Snapshot, LoadTask,
              StartTask, ParkTask, AskTask, FailTask, ResumeTask, Look,
              MoveToVerifying, VerifyTask, SaveFinal, Decide, PauseTask,
              NextOfStart, store
  <2>1. OthersKeep(c)
    <3>1. CASE LoadTask(c) \/ VerifyTask(c)
      BY <3>1
    <3>2. CASE Finish(c) \/ Return(c) \/ \E l \in Label : Goto(c, l)
      BY <3>2, OthersMove DEF Return, Label
    <3> QED BY <1>1, <3>1, <3>2 DEF Label
  <2>2. Touches(c) /\ ~Executing(c)'
    BY <1>1 DEF Touches, Executing, Goto, Finish, Return, Begin
  <2>3. StepKnown(c)'
    BY <1>1 DEF StepKnown, Chosen, Goto, Finish, Return, Begin
  <2> QED BY <2>1, <2>2, <2>3 DEF Disciplined, Claims, StepHeld
<1>2. CASE CreatePlan(c)
  <2>1. OthersKeep(c) /\ Touches(c)
    BY <1>2 DEF CreatePlan, Touches, Goto, Return, Begin
  <2>2. pc'[c] \in {"idle", "to_ready"}
    BY <1>2 DEF CreatePlan, Goto, Return, Begin
  <2> QED
    BY <2>1, <2>2
    DEF Disciplined, Claims, StepHeld, StepKnown, Executing, Chosen
<1>3. CASE LoadPlan(c)
  BY <1>3 DEF LoadPlan, Disciplined, Claims, Touches, StepHeld, StepKnown,
              Executing, Chosen, StoreTypes, store
<1>4. CASE PickReady(c) \/ PickWaiting(c)
  <2>1. PICK s \in DOMAIN steps : step' = [step EXCEPT ![c] = s]
    BY <1>4, ReadyIsRow, IdsAreRows DEF PickReady, PickWaiting, StepKnown
  <2>2. pc'[c] \in {"start_task", "stage", "claim", "resume_task"}
    BY <1>4 DEF PickReady, PickWaiting, NextOfStart
  <2>3. OthersKeep(c) /\ UNCHANGED store
    BY <1>4 DEF PickReady, PickWaiting
  <2> QED
    BY <2>1, <2>2, <2>3 DEF Disciplined, Claims, Touches, StepHeld, StepKnown,
                            Executing, store
(* a step nobody executes is staged, then taken *)
<1>5. CASE StageStep(c) \/ ClaimStep(c) \/ ResumeStep(c)
  BY <1>5 DEF StageStep, ClaimStep, ResumeStep, Disciplined, Claims, Touches,
              StepHeld, StepKnown, Executing, Chosen, Held, StepCAS, Goto
(* the step stays with its call *)
<1>6. CASE \/ Execute(c) \/ ExecutionFails(c) \/ SaveReport(c) \/ Attach(c)
           \/ SavePending(c) \/ WriteFiles(c)
  <2> USE DEF Execute, ExecutionFails, SaveReport, Attach, SavePending,
              WriteFiles, store
  <2>1. OthersKeep(c) /\ Touches(c)
    BY <1>6 DEF Touches, Goto
  <2>2. StepKnown(c)'
    BY <1>6 DEF StepKnown, Chosen, Reported, Outcomes, Goto
  <2>3. Claims(c) /\ StepHeld(c)'
    BY <1>6 DEF Claims, StepHeld, StepKnown, Executing, Reported, Goto
  <2> QED BY <2>1, <2>2, <2>3 DEF Disciplined
(* and is let go of, or verified, by it *)
<1>7. CASE \/ ParkStep(c) \/ AskStep(c) \/ FailStep(c) \/ VerifyStep(c)
           \/ CompleteStep(c)
  BY <1>7 DEF ParkStep, AskStep, FailStep, VerifyStep, CompleteStep,
              Disciplined, Claims, Touches, StepHeld, StepKnown, Executing,
              Chosen, StepCAS, Goto
<1> QED BY <1>1, <1>2, <1>3, <1>4, <1>5, <1>6, <1>7 DEF Continue

LEMMA CallDisciplined ==
  ASSUME TypeOK, NEW c \in Callers, StepKnown(c),
         (\E o \in Operations : Call(c, o)) \/ Abort(c)
  PROVE  Disciplined(c)
<1>1. \E q \in Operations \cup {NONE},
         l \in {"idle", "insert", "snapshot", "load_task"} : Begin(c, q, l)
  BY DEF Call, Abort, Return
<1>2. pc'[c] \in {"idle", "insert", "snapshot", "load_task"} /\ UNCHANGED store
  BY <1>1 DEF Begin, To, Call, Abort, TypeOK, CallTypes
<1>3. OthersKeep(c)
  BY <1>1, OthersMove DEF TypeOK, Label
<1> QED
  BY <1>2, <1>3 DEF Disciplined, Claims, Touches, StepKnown, StepHeld,
                    Executing, Chosen, store

----
(* Who moves a task into and out of VERIFYING. *)
VerifiesAlone(c) ==
  /\ Verifying(c)' => /\ status' = "VERIFYING"
                      /\ Verifying(c) \/ status # "VERIFYING"
  /\ status = "VERIFYING" => status' = status \/ Verifying(c)

LEMMA StillOneVerifier ==
  ASSUME NEW c \in Callers, OthersKeep(c), VerifiesAlone(c), OneVerifier
  PROVE  OneVerifier'
<1>1. \A d \in Callers \ {c} : Verifying(d)' <=> Verifying(d)
  BY DEF OthersKeep, Verifying
<1>2. ASSUME NEW d \in Callers \ {c}, Verifying(d)'
      PROVE  status' = "VERIFYING" /\ ~Verifying(c)'
  <2>1. Verifying(d) /\ status = "VERIFYING" /\ ~Verifying(c)
    BY <1>1, <1>2 DEF OneVerifier
  <2> QED BY <2>1 DEF VerifiesAlone
<1>3. \A d, e \in Callers \ {c} : Verifying(d)' /\ Verifying(e)' => d = e
  BY <1>1 DEF OneVerifier
<1>4. Verifying(c)' => status' = "VERIFYING"
  BY DEF VerifiesAlone
<1> QED BY <1>2, <1>3, <1>4 DEF OneVerifier

LEMMA EveryoneVerifiesAlone ==
  ASSUME TypeOK, OneVerifier, NEW c \in Callers, StepKnown(c),
         Continue(c) \/ (\E o \in Operations : Call(c, o)) \/ Abort(c)
  PROVE  VerifiesAlone(c)
<1> USE DEF TypeOK, CallTypes, VerifiesAlone, Verifying, To
<1>1. CASE MoveToVerifying(c)
  BY <1>1 DEF MoveToVerifying, TaskCAS, Goto
<1>2. CASE VerifyTask(c) \/ SaveFinal(c)
  BY <1>2 DEF VerifyTask, SaveFinal, Goto, store, OneVerifier
<1>3. CASE Decide(c)
  BY <1>3 DEF Decide, Finish, Return, Begin
<1>4. CASE \/ InsertTask(c) \/ MoveToPlanning(c) \/ MoveToReady(c)
           \/ StartTask(c) \/ ParkTask(c) \/ AskTask(c) \/ FailTask(c)
           \/ ResumeTask(c) \/ PauseTask(c)
  BY <1>4 DEF InsertTask, MoveToPlanning, MoveToReady, StartTask, ParkTask,
              AskTask, FailTask, ResumeTask, PauseTask, NextOfStart, TaskCAS,
              Goto, Finish, Return, Begin, NONE
<1>5. CASE \/ CreatePlan(c) \/ Snapshot(c) \/ LoadTask(c) \/ LoadPlan(c)
           \/ PickReady(c) \/ Execute(c) \/ ExecutionFails(c)
           \/ PickWaiting(c) \/ WriteFiles(c) \/ Look(c)
           \/ (\E o \in Operations : Call(c, o)) \/ Abort(c)
  BY <1>5 DEF CreatePlan, Snapshot, LoadTask, LoadPlan, PickReady, Execute,
              ExecutionFails, PickWaiting, WriteFiles, Look, Call, Abort,
              NextOfStart, store, Goto, Finish, Return, Begin
<1>6. CASE \/ StageStep(c) \/ ClaimStep(c) \/ ParkStep(c) \/ AskStep(c)
           \/ FailStep(c) \/ ResumeStep(c) \/ VerifyStep(c) \/ CompleteStep(c)
           \/ SaveReport(c) \/ Attach(c) \/ SavePending(c)
  BY <1>6 DEF StageStep, ClaimStep, ParkStep, AskStep, FailStep, ResumeStep,
              VerifyStep, CompleteStep, SaveReport, Attach, SavePending,
              StepKnown, Reported, Goto
<1> QED BY <1>1, <1>2, <1>3, <1>4, <1>5, <1>6 DEF Continue

----
(* The inductive invariant.  OneExecutorPerStep alone is not inductive: the *)
(* UPDATE ... WHERE status = from protects a step only because the call     *)
(* that executes it knows its status (StepHeld), and a call only writes     *)
(* rows that exist (StepKnown).                                             *)
IInv ==
  /\ TypeOK
  /\ \A c \in Callers : StepKnown(c) /\ StepHeld(c)
  /\ OneExecutorPerStep
  /\ OneVerifier

LEMMA InitIInv == Init => IInv
<1> SUFFICES ASSUME Init PROVE IInv
  OBVIOUS
<1>1. StoreTypes
  BY DEF Init, StoreTypes
<1>2. CallTypes
  BY DEF Init, CallTypes, Label
<1>3. \A c \in Callers : pc[c] = "idle"
  BY DEF Init
<1> QED
  BY <1>1, <1>2, <1>3 DEF IInv, TypeOK, StepKnown, StepHeld, OneExecutorPerStep,
                          OneVerifier, Executing, Verifying, Chosen

LEMMA NextIInv == IInv /\ [Next]_vars => IInv'
<1> SUFFICES ASSUME IInv, [Next]_vars PROVE IInv'
  OBVIOUS
<1>1. CASE UNCHANGED vars
  BY <1>1 DEF IInv, TypeOK, StoreTypes, CallTypes, Ids, StepKnown, StepHeld,
              OneExecutorPerStep, OneVerifier, Executing, Verifying, vars, store,
              locals
<1>2. ASSUME NEW c \in Callers,
             Continue(c) \/ (\E o \in Operations : Call(c, o)) \/ Abort(c)
      PROVE  IInv'
  <2>1. TypeOK' /\ Grows
    BY <1>2, ContinueTypes, CallTypesKept DEF IInv
  <2>2. Disciplined(c)
    BY <1>2, <2>1, ContinueDisciplined, CallDisciplined DEF IInv
  <2>3. \A d \in Callers : StepKnown(d)' /\ StepHeld(d)'
    <3>1. \A d \in Callers \ {c} : StepKnown(d)' /\ StepHeld(d)'
      BY <2>1, <2>2, OthersStillKnow DEF IInv, TypeOK
    <3> QED BY <2>2, <3>1 DEF Disciplined
  <2>4. OneExecutorPerStep'
    BY <2>2, StillOneExecutor DEF IInv
  <2>5. OneVerifier'
    BY <1>2, <2>2, EveryoneVerifiesAlone, StillOneVerifier
    DEF IInv, Disciplined
  <2> QED BY <2>1, <2>3, <2>4, <2>5 DEF IInv
<1> QED BY <1>1, <1>2 DEF Next

(* The invariant holds in every reachable state. *)
THEOREM Invariance == Spec => []IInv
<1>1. Init => IInv BY InitIInv
<1>2. IInv /\ [Next]_vars => IInv' BY NextIInv
<1> QED BY <1>1, <1>2, PTL DEF Spec

(* The rows of the store and the locals of the calls keep their types; in   *)
(* particular every plan has exactly the rows of its steps.                 *)
THEOREM TypeCorrect == Spec => []TypeOK
<1>1. IInv => TypeOK BY DEF IInv
<1> QED BY <1>1, Invariance, PTL

(* No two calls execute one step at once, however many runners, approvals,  *)
(* replans and recoveries are in flight.                                    *)
THEOREM OneExecutor == Spec => []OneExecutorPerStep
<1>1. IInv => OneExecutorPerStep BY DEF IInv
<1> QED BY <1>1, Invariance, PTL

(* One call verifies the task, and nobody takes it out of VERIFYING under   *)
(* that call.                                                               *)
THEOREM SingleVerifier == Spec => []OneVerifier
<1>1. IInv => OneVerifier BY DEF IInv
<1> QED BY <1>1, Invariance, PTL

----
(* Steps only move forward.                                                 *)
Forward ==
  \A s \in DOMAIN steps :
    steps[s] \notin {"PENDING", "READY"} =>
      steps'[s] \notin {"PENDING", "READY"}

LEMMA StepsMoveForward == [Next]_vars => Forward
<1> SUFFICES ASSUME [Next]_vars PROVE Forward
  OBVIOUS
<1> USE DEF Forward
<1>1. CASE UNCHANGED vars
  BY <1>1 DEF vars, store
<1>2. ASSUME NEW c \in Callers, NEW o \in Operations, Call(c, o)
      PROVE  Forward
  BY <1>2 DEF Call, store
<1>3. ASSUME NEW c \in Callers, Abort(c) PROVE Forward
  BY <1>3 DEF Abort, store
<1>4. ASSUME NEW c \in Callers, Continue(c) PROVE Forward
  <2>1. CASE CreatePlan(c)
    BY <2>1 DEF CreatePlan
  <2>2. CASE \/ StageStep(c) \/ ClaimStep(c) \/ ParkStep(c) \/ AskStep(c)
             \/ FailStep(c) \/ ResumeStep(c) \/ VerifyStep(c) \/ CompleteStep(c)
    BY <2>2 DEF StageStep, ClaimStep, ParkStep, AskStep, FailStep, ResumeStep,
                VerifyStep, CompleteStep, StepCAS
  <2>3. CASE UNCHANGED steps
    BY <2>3
  <2> QED
    BY <1>4, <2>1, <2>2, <2>3
    DEF Continue, InsertTask, MoveToPlanning, MoveToReady, Snapshot, LoadTask,
        LoadPlan, PickReady, StartTask, Execute, ExecutionFails, SaveReport,
        Attach, SavePending, ParkTask, AskTask, FailTask, PickWaiting,
        ResumeTask, WriteFiles, Look, MoveToVerifying, VerifyTask, SaveFinal,
        Decide, PauseTask, store
<1> QED BY <1>1, <1>2, <1>3, <1>4 DEF Next

(* A step that was claimed once is never offered to a runner again: neither *)
(* recovery nor a replan nor a late call resets it.                         *)
THEOREM NoReplay == Spec => NeverReplayed
<1>1. [Next]_vars =>
        [\A s \in DOMAIN steps :
           steps[s] \notin {"PENDING", "READY"} =>
             steps'[s] \notin {"PENDING", "READY"}]_vars
  BY StepsMoveForward DEF Forward
<1> QED BY <1>1, PTL DEF Spec, NeverReplayed

----
(* Evidence.  A step that waits for approval, is verified or is complete    *)
(* has its results on record, and so has the step of a call that is about   *)
(* to bring it there.                                                       *)
Recorded(s) == s \in attached /\ \E e \in evidence : e.step = s

StepsRecorded ==
  \A s \in DOMAIN steps :
    steps[s] \in {"WAITING_APPROVAL", "VERIFYING", "COMPLETED"} => Recorded(s)

CallRecorded(c) ==
  /\ pc[c] = "attach" => \E e \in evidence : e.step = step[c]
  /\ pc[c] \in {"save_pending", "wait_step", "write", "verify_step"} =>
       Recorded(step[c])

EvidenceInv ==
  /\ StepsRecorded
  /\ \A c \in Callers : CallRecorded(c)

LEMMA EvidenceKept ==
  ASSUME evidence \subseteq evidence', attached \subseteq attached'
  PROVE  \A s : Recorded(s) => Recorded(s)'
BY DEF Recorded

(* Nothing is deleted. *)
LEMMA RecordsKept ==
  ASSUME NEW c \in Callers, Continue(c)
  PROVE  /\ evidence \subseteq evidence' /\ attached \subseteq attached'
         /\ finals \subseteq finals'
<1>1. CASE SaveReport(c) \/ Attach(c) \/ SaveFinal(c)
  BY <1>1 DEF SaveReport, Attach, SaveFinal
<1>2. CASE UNCHANGED <<evidence, attached, finals>>
  BY <1>2
<1> QED
  BY <1>1, <1>2
  DEF Continue, InsertTask, MoveToPlanning, CreatePlan, MoveToReady, Snapshot,
      LoadTask, LoadPlan, PickReady, StartTask, StageStep, ClaimStep, Execute,
      ExecutionFails, SavePending, ParkStep, ParkTask, AskStep, AskTask,
      FailStep, FailTask, PickWaiting, ResumeTask, ResumeStep, WriteFiles,
      VerifyStep, CompleteStep, Look, MoveToVerifying, VerifyTask, Decide,
      PauseTask, store

LEMMA RecordsStay ==
  ASSUME NEW c \in Callers,
         Continue(c) \/ (\E o \in Operations : Call(c, o)) \/ Abort(c)
  PROVE  /\ evidence \subseteq evidence' /\ attached \subseteq attached'
         /\ finals \subseteq finals'
<1>1. CASE (\E o \in Operations : Call(c, o)) \/ Abort(c)
  BY <1>1 DEF Call, Abort, store
<1> QED BY <1>1, RecordsKept

(* A write to a step it is not on record for is never to one of the three   *)
(* statuses.                                                                *)
LEMMA StepsStayRecorded ==
  ASSUME IInv, EvidenceInv, NEW c \in Callers,
         Continue(c) \/ (\E o \in Operations : Call(c, o)) \/ Abort(c)
  PROVE  StepsRecorded'
<1> DEFINE Late == {"WAITING_APPROVAL", "VERIFYING", "COMPLETED"}
<1>1. \A s : Recorded(s) => Recorded(s)'
  BY RecordsStay, EvidenceKept
<1>2. SUFFICES ASSUME NEW s \in DOMAIN steps', steps'[s] \in Late
               PROVE  Recorded(s)
  BY <1>1 DEF StepsRecorded
<1>3. CASE s \in DOMAIN steps /\ steps'[s] = steps[s]
  BY <1>2, <1>3 DEF EvidenceInv, StepsRecorded
<1>4. CASE CreatePlan(c)
  BY <1>2, <1>3, <1>4 DEF CreatePlan
<1>5. CASE ParkStep(c) \/ VerifyStep(c)
  BY <1>3, <1>5 DEF ParkStep, VerifyStep, StepCAS, EvidenceInv, CallRecorded
<1>6. CASE CompleteStep(c)
  BY <1>3, <1>6 DEF CompleteStep, StepCAS, EvidenceInv, StepsRecorded
<1>7. CASE \/ StageStep(c) \/ ClaimStep(c) \/ AskStep(c) \/ FailStep(c)
           \/ ResumeStep(c)
  BY <1>2, <1>3, <1>7 DEF StageStep, ClaimStep, AskStep, FailStep, ResumeStep,
                          StepCAS
<1>8. CASE UNCHANGED steps
  BY <1>3, <1>8
<1> QED
  BY <1>4, <1>5, <1>6, <1>7, <1>8
  DEF Continue, InsertTask, MoveToPlanning, MoveToReady, Snapshot, LoadTask,
      LoadPlan, PickReady, StartTask, Execute, ExecutionFails, SaveReport,
      Attach, SavePending, ParkTask, AskTask, FailTask, PickWaiting,
      ResumeTask, WriteFiles, Look, MoveToVerifying, VerifyTask, SaveFinal,
      Decide, PauseTask, Call, Abort, store

LEMMA CallStaysRecorded ==
  ASSUME IInv, EvidenceInv, NEW c \in Callers,
         Continue(c) \/ (\E o \in Operations : Call(c, o)) \/ Abort(c)
  PROVE  CallRecorded(c)'
<1> USE DEF CallRecorded, IInv, TypeOK, CallTypes, To
<1>1. \A s : Recorded(s) => Recorded(s)'
  BY RecordsStay, EvidenceKept
(* the report of the step, then its attachment *)
<1>2. CASE SaveReport(c)
  <2>1. pc'[c] = "attach" /\ step'[c] = step[c]
    BY <1>2 DEF SaveReport, Goto
  <2>2. Evidence(c) \in evidence' /\ Evidence(c).step = step[c]
    BY <1>2 DEF SaveReport, Evidence
  <2> QED BY <2>1, <2>2
<1>3. CASE Attach(c)
  <2>1. pc'[c] = after[c] /\ step'[c] = step[c]
    BY <1>3 DEF Attach
  <2>2. after[c] # "attach"
    BY <1>3 DEF Attach, StepKnown, Reported
  <2>3. Recorded(step[c])'
    BY <1>3 DEF Attach, Recorded, EvidenceInv
  <2> QED BY <2>1, <2>2, <2>3
(* the step stays the one on record *)
<1>4. CASE SavePending(c) \/ WriteFiles(c)
  <2>1. step'[c] = step[c] /\ Recorded(step[c]) /\ pc'[c] # "attach"
    BY <1>4 DEF SavePending, WriteFiles, Goto, EvidenceInv
  <2> QED BY <1>1, <2>1
(* a write that waited for its approval *)
<1>5. CASE ResumeStep(c)
  <2>1. /\ step'[c] = step[c]
        /\ pc'[c] # "attach"
        /\ steps[step[c]] = "WAITING_APPROVAL" /\ step[c] \in DOMAIN steps
    BY <1>5 DEF ResumeStep, StepCAS, Goto, StepKnown, Chosen
  <2> QED BY <1>1, <2>1 DEF EvidenceInv, StepsRecorded
(* elsewhere there is nothing to know *)
<1>6. CASE pc'[c] \notin {"attach", "save_pending", "wait_step", "write",
                          "verify_step"}
  BY <1>6
<1>7. CASE \/ InsertTask(c) \/ MoveToPlanning(c) \/ CreatePlan(c)
           \/ MoveToReady(c) \/ Snapshot(c) \/ LoadTask(c) \/ LoadPlan(c)
           \/ PickReady(c) \/ StartTask(c) \/ StageStep(c) \/ ClaimStep(c)
  BY <1>6, <1>7
  DEF InsertTask, MoveToPlanning, CreatePlan, MoveToReady, Snapshot, LoadTask,
      LoadPlan, PickReady, StartTask, StageStep, ClaimStep, NextOfStart,
      Goto, Finish, Return, Begin
<1>8. CASE \/ Execute(c) \/ ExecutionFails(c) \/ ParkStep(c) \/ ParkTask(c)
           \/ AskStep(c) \/ AskTask(c) \/ FailStep(c) \/ FailTask(c)
           \/ PickWaiting(c) \/ ResumeTask(c)
  BY <1>6, <1>8
  DEF Execute, ExecutionFails, ParkStep, ParkTask, AskStep, AskTask, FailStep,
      FailTask, PickWaiting, ResumeTask, Goto, Finish, Return, Begin
<1>9. CASE \/ VerifyStep(c) \/ CompleteStep(c) \/ Look(c) \/ MoveToVerifying(c)
           \/ VerifyTask(c) \/ SaveFinal(c) \/ Decide(c) \/ PauseTask(c)
           \/ (\E o \in Operations : Call(c, o)) \/ Abort(c)
  BY <1>6, <1>9
  DEF VerifyStep, CompleteStep, Look, MoveToVerifying, VerifyTask, SaveFinal,
      Decide, PauseTask, Call, Abort, Goto, Finish, Return, Begin
<1> QED
  BY <1>2, <1>3, <1>4, <1>5, <1>7, <1>8, <1>9 DEF Continue

LEMMA EvidenceStep == IInv /\ EvidenceInv /\ [Next]_vars => EvidenceInv'
<1> SUFFICES ASSUME IInv, EvidenceInv, [Next]_vars PROVE EvidenceInv'
  OBVIOUS
<1>1. CASE UNCHANGED vars
  BY <1>1 DEF EvidenceInv, StepsRecorded, CallRecorded, Recorded, vars, store,
              locals
<1>2. ASSUME NEW c \in Callers,
             Continue(c) \/ (\E o \in Operations : Call(c, o)) \/ Abort(c)
      PROVE  EvidenceInv'
  <2>1. StepsRecorded' /\ CallRecorded(c)'
    BY <1>2, StepsStayRecorded, CallStaysRecorded
  <2>2. OthersKeep(c)
    BY <1>2, ContinueTypes, ContinueDisciplined, CallDisciplined
    DEF IInv, Disciplined
  <2>3. \A s : Recorded(s) => Recorded(s)'
    BY <1>2, RecordsStay, EvidenceKept
  <2>4. evidence \subseteq evidence'
    BY <1>2, RecordsStay
  <2>5. ASSUME NEW d \in Callers \ {c} PROVE CallRecorded(d)'
    BY <2>2, <2>3, <2>4 DEF OthersKeep, EvidenceInv, CallRecorded
  <2> QED BY <2>1, <2>5 DEF EvidenceInv
<1> QED BY <1>1, <1>2 DEF Next

(* A completed step has its results on record and attached, whichever call  *)
(* completed it.                                                            *)
THEOREM Evidenced == Spec => []CompletedHasEvidence
<1>1. Init => EvidenceInv
  BY DEF Init, EvidenceInv, StepsRecorded, CallRecorded
<1>2. IInv /\ EvidenceInv /\ [Next]_vars => EvidenceInv'
  BY EvidenceStep
<1>3. EvidenceInv => CompletedHasEvidence
  BY DEF EvidenceInv, StepsRecorded, Recorded, CompletedHasEvidence
<1> QED BY <1>1, <1>2, <1>3, Invariance, PTL DEF Spec

----
(* Verification.  What the verifier has found, before and after it saves    *)
(* its report, and what a COMPLETED task keeps of it.                       *)
Satisfied == \E e \in evidence : e.kind = Criterion

CallVerified(c) ==
  /\ pc[c] \in {"save_final", "decide"} /\ passed[c] => Satisfied
  /\ pc[c] = "decide" /\ passed[c] => TRUE \in finals

VerifiedInv == CompletedWasVerified /\ \A c \in Callers : CallVerified(c)

LEMMA CompletedStaysVerified ==
  ASSUME IInv, VerifiedInv, NEW c \in Callers,
         Continue(c) \/ (\E o \in Operations : Call(c, o)) \/ Abort(c)
  PROVE  CompletedWasVerified'
<1>1. CompletedWasVerified /\ status' = status => CompletedWasVerified'
  BY RecordsStay DEF CompletedWasVerified
<1>2. CASE Decide(c)
  <2>1. status' = "COMPLETED" => passed[c] /\ pc[c] = "decide"
    BY <1>2 DEF Decide, TaskCAS
  <2> QED
    BY <2>1, RecordsStay
    DEF VerifiedInv, CallVerified, Satisfied, CompletedWasVerified
<1>3. CASE status' # "COMPLETED"
  BY <1>3 DEF CompletedWasVerified
<1>4. CASE \/ InsertTask(c) \/ MoveToPlanning(c) \/ MoveToReady(c)
           \/ StartTask(c) \/ ParkTask(c) \/ AskTask(c) \/ FailTask(c)
           \/ ResumeTask(c) \/ MoveToVerifying(c) \/ PauseTask(c)
  BY <1>1, <1>3, <1>4
  DEF InsertTask, MoveToPlanning, MoveToReady, StartTask, ParkTask, AskTask,
      FailTask, ResumeTask, MoveToVerifying, PauseTask, TaskCAS, VerifiedInv
<1>5. CASE UNCHANGED status
  BY <1>1, <1>5 DEF VerifiedInv
<1> QED
  BY <1>2, <1>4, <1>5
  DEF Continue, CreatePlan, Snapshot, LoadTask, LoadPlan, PickReady, StageStep,
      ClaimStep, Execute, ExecutionFails, SaveReport, Attach, SavePending,
      ParkStep, AskStep, FailStep, PickWaiting, ResumeStep, WriteFiles,
      VerifyStep, CompleteStep, Look, VerifyTask, SaveFinal, Call, Abort, store

LEMMA CallStaysVerified ==
  ASSUME IInv, VerifiedInv, NEW c \in Callers,
         Continue(c) \/ (\E o \in Operations : Call(c, o)) \/ Abort(c)
  PROVE  CallVerified(c)'
<1> USE DEF CallVerified, IInv, TypeOK, CallTypes, To
<1>1. CASE VerifyTask(c)
  BY <1>1 DEF VerifyTask, Satisfied, store
<1>2. CASE SaveFinal(c)
  BY <1>2 DEF SaveFinal, Goto, Satisfied, VerifiedInv
(* elsewhere there is nothing to know *)
<1>3. CASE pc'[c] \notin {"save_final", "decide"}
  BY <1>3
<1>4. CASE \/ InsertTask(c) \/ MoveToPlanning(c) \/ CreatePlan(c)
           \/ MoveToReady(c) \/ Snapshot(c) \/ LoadTask(c) \/ LoadPlan(c)
           \/ PickReady(c) \/ StartTask(c) \/ StageStep(c) \/ ClaimStep(c)
  BY <1>3, <1>4
  DEF InsertTask, MoveToPlanning, CreatePlan, MoveToReady, Snapshot, LoadTask,
      LoadPlan, PickReady, StartTask, StageStep, ClaimStep, NextOfStart,
      Goto, Finish, Return, Begin
<1>5. CASE \/ Execute(c) \/ ExecutionFails(c) \/ SaveReport(c) \/ Attach(c)
           \/ SavePending(c) \/ ParkStep(c) \/ ParkTask(c) \/ AskStep(c)
           \/ AskTask(c) \/ FailStep(c) \/ FailTask(c)
  BY <1>3, <1>5
  DEF Execute, ExecutionFails, SaveReport, Attach, SavePending, ParkStep,
      ParkTask, AskStep, AskTask, FailStep, FailTask, StepKnown, Reported,
      Goto, Finish, Return, Begin
<1>6. CASE \/ PickWaiting(c) \/ ResumeTask(c) \/ ResumeStep(c) \/ WriteFiles(c)
           \/ VerifyStep(c) \/ CompleteStep(c) \/ Look(c) \/ MoveToVerifying(c)
           \/ Decide(c) \/ PauseTask(c)
           \/ (\E o \in Operations : Call(c, o)) \/ Abort(c)
  BY <1>3, <1>6
  DEF PickWaiting, ResumeTask, ResumeStep, WriteFiles, VerifyStep,
      CompleteStep, Look, MoveToVerifying, Decide, PauseTask, Call, Abort,
      Goto, Finish, Return, Begin
<1> QED BY <1>1, <1>2, <1>4, <1>5, <1>6 DEF Continue

LEMMA VerifiedStep == IInv /\ VerifiedInv /\ [Next]_vars => VerifiedInv'
<1> SUFFICES ASSUME IInv, VerifiedInv, [Next]_vars PROVE VerifiedInv'
  OBVIOUS
<1>1. CASE UNCHANGED vars
  BY <1>1 DEF VerifiedInv, CompletedWasVerified, CallVerified, Satisfied, vars,
              store, locals
<1>2. ASSUME NEW c \in Callers,
             Continue(c) \/ (\E o \in Operations : Call(c, o)) \/ Abort(c)
      PROVE  VerifiedInv'
  <2>1. CompletedWasVerified' /\ CallVerified(c)'
    BY <1>2, CompletedStaysVerified, CallStaysVerified
  <2>2. OthersKeep(c)
    BY <1>2, ContinueTypes, ContinueDisciplined, CallDisciplined
    DEF IInv, Disciplined
  <2>3. Satisfied => Satisfied'
    BY <1>2, RecordsStay DEF Satisfied
  <2>4. finals \subseteq finals'
    BY <1>2, RecordsStay
  <2>5. ASSUME NEW d \in Callers \ {c} PROVE CallVerified(d)'
    BY <2>2, <2>3, <2>4 DEF OthersKeep, VerifiedInv, CallVerified
  <2> QED BY <2>1, <2>5 DEF VerifiedInv
<1> QED BY <1>1, <1>2 DEF Next

(* A task is COMPLETED only after a verifier that found evidence of the     *)
(* kind the criterion asks for has saved a passing report.                  *)
THEOREM Verified == Spec => []CompletedWasVerified
<1>1. Init => VerifiedInv
  BY DEF Init, VerifiedInv, CompletedWasVerified, CallVerified, NONE
<1>2. IInv /\ VerifiedInv /\ [Next]_vars => VerifiedInv'
  BY VerifiedStep
<1>3. VerifiedInv => CompletedWasVerified
  BY DEF VerifiedInv
<1> QED BY <1>1, <1>2, <1>3, Invariance, PTL DEF Spec

----
(* The replan budget.  A replan that is about to create a plan read a       *)
(* revision within the budget; the revision it creates is the next one.     *)
BudgetChecked(c) ==
  op[c] = "ReplanTask" =>
    /\ pc[c] \notin {"insert", "to_planning"}
    /\ pc[c] = "create_plan" => rev[c] <= MaxReplans

BudgetInv == \A c \in Callers : BudgetChecked(c)

LEMMA BudgetStaysChecked ==
  ASSUME IInv, NEW c \in Callers, BudgetChecked(c),
         Continue(c) \/ (\E o \in Operations : Call(c, o)) \/ Abort(c)
  PROVE  BudgetChecked(c)'
<1> USE DEF BudgetChecked, IInv, TypeOK, CallTypes, To
<1>1. CASE LoadPlan(c)
  BY <1>1, LenNat, BudgetsNat DEF LoadPlan
<1>2. CASE InsertTask(c) \/ MoveToPlanning(c)
  BY <1>2 DEF InsertTask, MoveToPlanning, Goto
<1>3. CASE \E o \in Operations : Call(c, o)
  BY <1>3 DEF Call, Begin
(* elsewhere there is nothing to know *)
<1>4. CASE pc'[c] \notin {"insert", "to_planning", "create_plan"}
  BY <1>4
<1>5. CASE \/ CreatePlan(c) \/ MoveToReady(c) \/ Snapshot(c) \/ LoadTask(c)
           \/ PickReady(c) \/ StartTask(c) \/ StageStep(c) \/ ClaimStep(c)
  BY <1>4, <1>5
  DEF CreatePlan, MoveToReady, Snapshot, LoadTask, PickReady, StartTask,
      StageStep, ClaimStep, NextOfStart, Goto, Finish, Return, Begin
<1>6. CASE \/ Execute(c) \/ ExecutionFails(c) \/ SaveReport(c) \/ Attach(c)
           \/ SavePending(c) \/ ParkStep(c) \/ ParkTask(c) \/ AskStep(c)
           \/ AskTask(c) \/ FailStep(c) \/ FailTask(c)
  BY <1>4, <1>6
  DEF Execute, ExecutionFails, SaveReport, Attach, SavePending, ParkStep,
      ParkTask, AskStep, AskTask, FailStep, FailTask, StepKnown, Reported,
      Goto, Finish, Return, Begin
<1>7. CASE \/ PickWaiting(c) \/ ResumeTask(c) \/ ResumeStep(c) \/ WriteFiles(c)
           \/ VerifyStep(c) \/ CompleteStep(c) \/ Look(c) \/ MoveToVerifying(c)
           \/ VerifyTask(c) \/ SaveFinal(c) \/ Decide(c) \/ PauseTask(c)
           \/ Abort(c)
  BY <1>4, <1>7
  DEF PickWaiting, ResumeTask, ResumeStep, WriteFiles, VerifyStep,
      CompleteStep, Look, MoveToVerifying, VerifyTask, SaveFinal, Decide,
      PauseTask, Abort, Goto, Finish, Return, Begin
<1> QED BY <1>1, <1>2, <1>3, <1>5, <1>6, <1>7 DEF Continue

LEMMA ReplansWithin ==
  ASSUME IInv, BudgetInv, NEW c \in Callers, NEW d \in Callers,
         Continue(c) \/ (\E o \in Operations : Call(c, o)) \/ Abort(c),
         op[d] = "ReplanTask", pc[d] = "create_plan", pc'[d] = "to_ready"
  PROVE  Len(plans') <= MaxReplans + 1
<1>1. OthersKeep(c)
  BY ContinueTypes, ContinueDisciplined, CallDisciplined DEF IInv, Disciplined
<1>2. c = d
  BY <1>1 DEF OthersKeep
<1>3. Continue(c)
  BY <1>2 DEF Call, Abort, Return, Begin, To, IInv, TypeOK, CallTypes
<1>4. CreatePlan(c)
  BY <1>2, <1>3
  DEF Continue, InsertTask, MoveToPlanning, MoveToReady, Snapshot,
      LoadTask, LoadPlan, PickReady, StartTask, StageStep, ClaimStep, Execute,
      ExecutionFails, SaveReport, Attach, SavePending, ParkStep, ParkTask,
      AskStep, AskTask, FailStep, FailTask, PickWaiting, ResumeTask,
      ResumeStep, WriteFiles, VerifyStep, CompleteStep, Look,
      MoveToVerifying, VerifyTask, SaveFinal, Decide, PauseTask
<1>5. Len(plans) = rev[c] /\ rev[c] <= MaxReplans
  BY <1>2, <1>4 DEF CreatePlan, BudgetInv, BudgetChecked
<1>6. Len(plans') = Len(plans) + 1
  BY <1>4, AppendProperties DEF CreatePlan, IInv, TypeOK, StoreTypes
<1> QED BY <1>5, <1>6, LenNat, BudgetsNat DEF IInv, TypeOK

(* No interleaving of replans and new plans carries a replan past the task's *)
(* budget: the uniqueness of (task, revision) voids a check made on an older *)
(* revision.                                                                 *)
THEOREM BudgetKept == Spec => ReplanWithinBudget
<1>1. Init => BudgetInv
  BY DEF Init, BudgetInv, BudgetChecked
<1>2. IInv /\ BudgetInv /\ [Next]_vars => BudgetInv'
  <2> SUFFICES ASSUME IInv, BudgetInv, [Next]_vars PROVE BudgetInv'
    OBVIOUS
  <2>1. CASE UNCHANGED vars
    BY <2>1 DEF BudgetInv, BudgetChecked, vars, locals
  <2>2. ASSUME NEW c \in Callers,
               Continue(c) \/ (\E o \in Operations : Call(c, o)) \/ Abort(c)
        PROVE  BudgetInv'
    <3>1. OthersKeep(c) /\ BudgetChecked(c)'
      BY <2>2, BudgetStaysChecked, ContinueTypes, ContinueDisciplined,
         CallDisciplined
      DEF IInv, Disciplined, BudgetInv
    <3> QED BY <3>1 DEF OthersKeep, BudgetInv, BudgetChecked
  <2> QED BY <2>1, <2>2 DEF Next
<1>3. IInv /\ BudgetInv /\ [Next]_vars =>
        [\A c \in Callers :
           op[c] = "ReplanTask" /\ pc[c] = "create_plan" /\ pc'[c] = "to_ready"
             => Len(plans') <= MaxReplans + 1]_vars
  BY ReplansWithin DEF Next
<1> QED BY <1>1, <1>2, <1>3, Invariance, PTL DEF Spec, ReplanWithinBudget

----
(* Approvals.  A task that waits for approval, a call that parked its step  *)
(* and not yet the task, and a call that resumed the task and not yet its   *)
(* step each have a waiting step to themselves.  It need not be the step    *)
(* they are about: two runners can each park a step, and the two approvals  *)
(* resume them in the other order.                                          *)
Waiting == {s \in DOMAIN steps : steps[s] = "WAITING_APPROVAL"}
Owing == {c \in Callers : pc[c] \in {"wait_task", "resume_step"}}
TaskWaits == status = "WAITING_APPROVAL"

(* every c in Calls has a row of its own in Rows, and if task one is left   *)
Matched(Calls, Rows, task) ==
  \E row \in [Calls -> Rows] :
    /\ \A c, d \in Calls : row[c] = row[d] => c = d
    /\ task => \E s \in Rows : \A c \in Calls : row[c] # s

LEMMA MatchedLess ==
  ASSUME NEW Calls, NEW Rows, NEW task, Matched(Calls, Rows, task),
         NEW Fewer, Fewer \subseteq Calls, NEW More, Rows \subseteq More,
         NEW less, less => task
  PROVE  Matched(Fewer, More, less)
<1>1. PICK row \in [Calls -> Rows] :
        /\ \A c, d \in Calls : row[c] = row[d] => c = d
        /\ task => \E s \in Rows : \A c \in Calls : row[c] # s
  BY DEF Matched
<1> DEFINE part == [c \in Fewer |-> row[c]]
<1>2. part \in [Fewer -> More] /\ \A c \in Fewer : part[c] = row[c] OBVIOUS
<1>3. \A c, d \in Fewer : part[c] = part[d] => c = d BY <1>1, <1>2
<1>4. less => \E s \in More : \A c \in Fewer : part[c] # s BY <1>1, <1>2
<1> HIDE DEF part
<1> QED BY <1>2, <1>3, <1>4 DEF Matched

(* a call parks its step, *)
LEMMA MatchedPark ==
  ASSUME NEW Calls, NEW Rows, NEW task, Matched(Calls, Rows, task),
         NEW c, NEW s, s \notin Rows
  PROVE  Matched(Calls \cup {c}, Rows \cup {s}, task)
<1>1. PICK row \in [Calls -> Rows] :
        /\ \A d, e \in Calls : row[d] = row[e] => d = e
        /\ task => \E t \in Rows : \A d \in Calls : row[d] # t
  BY DEF Matched
<1> DEFINE new == [d \in Calls \cup {c} |-> IF d \in Calls THEN row[d] ELSE s]
<1>2. /\ new \in [Calls \cup {c} -> Rows \cup {s}]
      /\ \A d \in Calls : new[d] = row[d] /\ new[d] \in Rows
      /\ c \notin Calls => new[c] = s
  OBVIOUS
<1> HIDE DEF new
<1>3. \A d, e \in Calls \cup {c} : new[d] = new[e] => d = e BY <1>1, <1>2
<1>4. task => \E t \in Rows \cup {s} : \A d \in Calls \cup {c} : new[d] # t
  BY <1>1, <1>2
<1> QED BY <1>2, <1>3, <1>4 DEF Matched

(* and hands its row over to the task; *)
LEMMA MatchedParkTask ==
  ASSUME NEW Calls, NEW Rows, NEW task, Matched(Calls, Rows, task),
         NEW c \in Calls
  PROVE  Matched(Calls \ {c}, Rows, TRUE)
<1>1. PICK row \in [Calls -> Rows] :
        \A d, e \in Calls : row[d] = row[e] => d = e
  BY DEF Matched
<1> DEFINE new == [d \in Calls \ {c} |-> row[d]]
<1>2. /\ new \in [Calls \ {c} -> Rows]
      /\ \A d \in Calls \ {c} : new[d] = row[d]
  OBVIOUS
<1> HIDE DEF new
<1>3. \A d, e \in Calls \ {c} : new[d] = new[e] => d = e BY <1>1, <1>2
<1>4. \A d \in Calls \ {c} : new[d] # row[c] BY <1>1, <1>2
<1>5. row[c] \in Rows OBVIOUS
<1> QED BY <1>2, <1>3, <1>4, <1>5 DEF Matched

(* an approval takes over the row of the task, *)
LEMMA MatchedResumeTask ==
  ASSUME NEW Calls, NEW Rows, Matched(Calls, Rows, TRUE), NEW c
  PROVE  Matched(Calls \cup {c}, Rows, FALSE)
<1>1. PICK row \in [Calls -> Rows], s \in Rows :
        /\ \A d, e \in Calls : row[d] = row[e] => d = e
        /\ \A d \in Calls : row[d] # s
  BY DEF Matched
<1> DEFINE new == [d \in Calls \cup {c} |-> IF d \in Calls THEN row[d] ELSE s]
<1>2. /\ new \in [Calls \cup {c} -> Rows]
      /\ \A d \in Calls : new[d] = row[d]
      /\ c \notin Calls => new[c] = s
  OBVIOUS
<1> HIDE DEF new
<1>3. \A d, e \in Calls \cup {c} : new[d] = new[e] => d = e BY <1>1, <1>2
<1> QED BY <1>2, <1>3 DEF Matched

(* and resumes a step: whoever had that one gets the approval's in exchange *)
LEMMA MatchedResumeStep ==
  ASSUME NEW Calls, NEW Rows, NEW task, Matched(Calls, Rows, task),
         NEW c \in Calls, NEW s \in Rows
  PROVE  Matched(Calls \ {c}, Rows \ {s}, task)
<1>1. PICK row \in [Calls -> Rows] :
        /\ \A d, e \in Calls : row[d] = row[e] => d = e
        /\ task => \E t \in Rows : \A d \in Calls : row[d] # t
  BY DEF Matched
<1> DEFINE new == [d \in Calls \ {c} |-> IF row[d] = s THEN row[c] ELSE row[d]]
<1>2. \A d \in Calls \ {c} :
        /\ new[d] = IF row[d] = s THEN row[c] ELSE row[d]
        /\ new[d] \in Rows \ {s}
  BY <1>1
<1>3. new \in [Calls \ {c} -> Rows \ {s}] BY <1>2
<1> HIDE DEF new
<1>4. \A d, e \in Calls \ {c} : new[d] = new[e] => d = e BY <1>1, <1>2
<1>5. task => \E t \in Rows \ {s} : \A d \in Calls \ {c} : new[d] # t
  <2> SUFFICES ASSUME task
               PROVE  \E t \in Rows \ {s} : \A d \in Calls \ {c} : new[d] # t
    OBVIOUS
  <2>1. PICK t \in Rows : \A d \in Calls : row[d] # t BY <1>1
  <2>2. CASE t = s
    <3>1. row[c] \in Rows \ {s} BY <2>1, <2>2
    <3>2. \A d \in Calls \ {c} : new[d] # row[c] BY <1>1, <1>2, <2>1, <2>2
    <3> QED BY <3>1, <3>2
  <2>3. CASE t # s
    <3>1. \A d \in Calls \ {c} : new[d] # t BY <1>2, <2>1
    <3> QED BY <2>3, <3>1
  <2> QED BY <2>2, <2>3
<1> QED BY <1>3, <1>4, <1>5 DEF Matched

Covered == Matched(Owing, Waiting, TaskWaits)

(* A step that waits has its proposal stored, and so has the step of a call *)
(* that is about to park it.                                                *)
Proposed(s) == \E p \in pending : p.step = s

ProposalInv ==
  /\ \A s \in Waiting : Proposed(s)
  /\ \A c \in Callers : pc[c] = "wait_step" => Proposed(step[c])

(* The statements that neither park nor resume. *)
Neutral(c) ==
  /\ pc'[c] \notin {"wait_task", "resume_step"}
  /\ \A d \in Callers \ {c} : pc'[d] = pc[d]
  /\ TaskWaits' => TaskWaits
  /\ Waiting \subseteq Waiting'

LEMMA NeutralCovered ==
  ASSUME Covered, NEW c \in Callers, Neutral(c)
  PROVE  Covered'
<1>1. Owing' \subseteq Owing BY DEF Owing, Neutral
<1> QED BY <1>1, MatchedLess DEF Covered, Neutral

(* Of what is left, nothing takes a row out of WAITING_APPROVAL or the task *)
(* into it.                                                                 *)
Parks(c) == ParkStep(c) \/ ParkTask(c)
Resumes(c) == ResumeTask(c) \/ ResumeStep(c)

LEMMA RowsStayWaiting ==
  ASSUME NEW c \in Callers,
         Continue(c) \/ (\E o \in Operations : Call(c, o)) \/ Abort(c),
         ~Parks(c), ~Resumes(c)
  PROVE  Waiting \subseteq Waiting' /\ (TaskWaits' => TaskWaits)
<1> USE DEF Waiting, TaskWaits
<1>1. CASE CreatePlan(c) BY <1>1 DEF CreatePlan
<1>2. CASE \/ StageStep(c) \/ ClaimStep(c) \/ AskStep(c) \/ FailStep(c)
           \/ VerifyStep(c) \/ CompleteStep(c)
  BY <1>2 DEF StageStep, ClaimStep, AskStep, FailStep, VerifyStep,
              CompleteStep, StepCAS
<1>3. CASE \/ InsertTask(c) \/ MoveToPlanning(c) \/ MoveToReady(c)
           \/ StartTask(c) \/ AskTask(c) \/ FailTask(c)
           \/ MoveToVerifying(c) \/ Decide(c) \/ PauseTask(c)
  BY <1>3 DEF InsertTask, MoveToPlanning, MoveToReady, StartTask, AskTask,
              FailTask, MoveToVerifying, Decide, PauseTask, TaskCAS
<1>4. CASE UNCHANGED <<status, steps>> BY <1>4
<1> QED
  BY <1>1, <1>2, <1>3, <1>4
  DEF Continue, Parks, Resumes, Snapshot, LoadTask, LoadPlan, PickReady,
      Execute, ExecutionFails, SaveReport, Attach, SavePending, PickWaiting,
      WriteFiles, Look, VerifyTask, SaveFinal, Call, Abort, store

LEMMA OnlyTheseOwe ==
  ASSUME IInv, NEW c \in Callers,
         Continue(c) \/ (\E o \in Operations : Call(c, o)) \/ Abort(c),
         ~Parks(c), ~Resumes(c)
  PROVE  pc'[c] \notin {"wait_task", "resume_step"}
<1> USE DEF IInv, TypeOK, CallTypes, To
<1>1. CASE \/ InsertTask(c) \/ MoveToPlanning(c) \/ CreatePlan(c)
           \/ MoveToReady(c) \/ Snapshot(c) \/ LoadTask(c) \/ LoadPlan(c)
           \/ PickReady(c) \/ StartTask(c) \/ StageStep(c) \/ ClaimStep(c)
  BY <1>1
  DEF InsertTask, MoveToPlanning, CreatePlan, MoveToReady, Snapshot, LoadTask,
      LoadPlan, PickReady, StartTask, StageStep, ClaimStep, NextOfStart,
      Goto, Finish, Return, Begin
<1>2. CASE \/ Execute(c) \/ ExecutionFails(c) \/ SaveReport(c) \/ Attach(c)
           \/ SavePending(c) \/ AskStep(c) \/ AskTask(c) \/ FailStep(c)
           \/ FailTask(c) \/ PickWaiting(c) \/ WriteFiles(c)
  BY <1>2
  DEF Execute, ExecutionFails, SaveReport, Attach, SavePending, AskStep,
      AskTask, FailStep, FailTask, PickWaiting, WriteFiles, StepKnown,
      Reported, Goto, Finish, Return, Begin
<1>3. CASE \/ VerifyStep(c) \/ CompleteStep(c) \/ Look(c) \/ MoveToVerifying(c)
           \/ VerifyTask(c) \/ SaveFinal(c) \/ Decide(c) \/ PauseTask(c)
           \/ (\E o \in Operations : Call(c, o)) \/ Abort(c)
  BY <1>3
  DEF VerifyStep, CompleteStep, Look, MoveToVerifying, VerifyTask, SaveFinal,
      Decide, PauseTask, Call, Abort, Goto, Finish, Return, Begin
<1> QED BY <1>1, <1>2, <1>3 DEF Continue, Parks, Resumes

LEMMA ParkCovered ==
  ASSUME IInv, Covered, NEW c \in Callers, Parks(c)
  PROVE  Covered'
<1> USE DEF IInv, TypeOK, CallTypes
<1>1. CASE ParkStep(c)
  <2>1. /\ step[c] \in DOMAIN steps /\ steps[step[c]] = "RUNNING"
        /\ status' = status
        /\ steps' = [steps EXCEPT ![step[c]] = "WAITING_APPROVAL"]
    BY <1>1 DEF ParkStep, StepCAS, StepKnown, Chosen
  <2>2. step[c] \notin Waiting /\ Waiting' = Waiting \cup {step[c]}
    BY <2>1 DEF Waiting
  <2>3. Owing' = Owing \cup {c}
    BY <1>1 DEF ParkStep, Goto, To, Owing
  <2>4. TaskWaits' = TaskWaits BY <2>1 DEF TaskWaits
  <2> QED BY <2>2, <2>3, <2>4, MatchedPark DEF Covered
<1>2. CASE ParkTask(c)
  <2>1. TaskWaits' /\ Waiting' = Waiting
    BY <1>2 DEF ParkTask, TaskCAS, TaskWaits, Waiting
  <2>2. c \in Owing BY <1>2 DEF ParkTask, Owing
  <2>3. Owing' = Owing \ {c}
    BY <1>2 DEF ParkTask, Finish, Return, Begin, To, Owing
  <2> QED BY <2>1, <2>2, <2>3, MatchedParkTask DEF Covered
<1> QED BY <1>1, <1>2 DEF Parks

LEMMA ResumeCovered ==
  ASSUME IInv, Covered, NEW c \in Callers, Resumes(c)
  PROVE  Covered'
<1> USE DEF IInv, TypeOK, CallTypes
<1>1. CASE ResumeTask(c)
  <2>1. TaskWaits /\ ~TaskWaits' /\ Waiting' = Waiting
    BY <1>1 DEF ResumeTask, TaskCAS, TaskWaits, Waiting
  <2>2. Owing' = Owing \cup {c}
    BY <1>1 DEF ResumeTask, Goto, To, Owing
  <2>3. TaskWaits = TRUE /\ TaskWaits' = FALSE BY <2>1 DEF TaskWaits
  <2> QED BY <2>1, <2>2, <2>3, MatchedResumeTask DEF Covered
<1>2. CASE ResumeStep(c)
  <2>1. /\ step[c] \in DOMAIN steps /\ steps[step[c]] = "WAITING_APPROVAL"
        /\ status' = status
        /\ steps' = [steps EXCEPT ![step[c]] = "RUNNING"]
    BY <1>2 DEF ResumeStep, StepCAS, StepKnown, Chosen
  <2>2. step[c] \in Waiting /\ Waiting' = Waiting \ {step[c]}
    BY <2>1 DEF Waiting
  <2>3. c \in Owing BY <1>2 DEF ResumeStep, Owing
  <2>4. Owing' = Owing \ {c}
    BY <1>2 DEF ResumeStep, Goto, To, Owing
  <2>5. TaskWaits' = TaskWaits BY <2>1 DEF TaskWaits
  <2> QED BY <2>2, <2>3, <2>4, <2>5, MatchedResumeStep DEF Covered
<1> QED BY <1>1, <1>2 DEF Resumes

LEMMA CoveredStep == IInv /\ Covered /\ [Next]_vars => Covered'
<1> SUFFICES ASSUME IInv, Covered, [Next]_vars PROVE Covered'
  OBVIOUS
<1>1. CASE UNCHANGED vars
  BY <1>1, MatchedLess
  DEF Covered, Owing, Waiting, TaskWaits, vars, store, locals
<1>2. ASSUME NEW c \in Callers,
             Continue(c) \/ (\E o \in Operations : Call(c, o)) \/ Abort(c),
             ~Parks(c), ~Resumes(c)
      PROVE  Covered'
  <2>1. OthersKeep(c)
    BY <1>2, ContinueTypes, ContinueDisciplined, CallDisciplined
    DEF IInv, Disciplined
  <2>2. Neutral(c)
    BY <1>2, <2>1, RowsStayWaiting, OnlyTheseOwe DEF OthersKeep, Neutral
  <2> QED BY <2>2, NeutralCovered
<1> QED BY <1>1, <1>2, ParkCovered, ResumeCovered DEF Next

(* A step newly waits only because its call parked it; a call is about to   *)
(* park its step only because it stored a proposal for it.                  *)
LEMMA NewlyWaiting ==
  ASSUME NEW c \in Callers,
         Continue(c) \/ (\E o \in Operations : Call(c, o)) \/ Abort(c)
  PROVE  \A s \in Waiting' : s \in Waiting \/ (ParkStep(c) /\ s = step[c])
<1> USE DEF Waiting
<1>1. CASE CreatePlan(c) BY <1>1 DEF CreatePlan
<1>2. CASE \/ StageStep(c) \/ ClaimStep(c) \/ ParkStep(c) \/ AskStep(c)
           \/ FailStep(c) \/ ResumeStep(c) \/ VerifyStep(c) \/ CompleteStep(c)
  BY <1>2 DEF StageStep, ClaimStep, ParkStep, AskStep, FailStep, ResumeStep,
              VerifyStep, CompleteStep, StepCAS
<1>3. CASE UNCHANGED steps BY <1>3
<1> QED
  BY <1>1, <1>2, <1>3
  DEF Continue, InsertTask, MoveToPlanning, MoveToReady, Snapshot, LoadTask,
      LoadPlan, PickReady, StartTask, Execute, ExecutionFails, SaveReport,
      Attach, SavePending, ParkTask, AskTask, FailTask, PickWaiting,
      ResumeTask, WriteFiles, Look, MoveToVerifying, VerifyTask, SaveFinal,
      Decide, PauseTask, Call, Abort, store

LEMMA WaitsProposed ==
  ASSUME IInv, NEW c \in Callers, pc'[c] = "wait_step",
         Continue(c) \/ (\E o \in Operations : Call(c, o)) \/ Abort(c)
  PROVE  \E p \in pending' : p.step = step'[c]
<1> USE DEF IInv, TypeOK, CallTypes, To
<1>1. CASE SavePending(c)
  <2>1. PICK kinds \in (SUBSET PendingKind) \ {{}} :
          pending' = pending \cup {[kind |-> k, step |-> step[c]] : k \in kinds}
    BY <1>1 DEF SavePending
  <2>2. PICK k \in kinds : TRUE OBVIOUS
  <2>3. [kind |-> k, step |-> step[c]] \in pending' BY <2>1, <2>2
  <2>4. step'[c] = step[c] BY <1>1 DEF SavePending, Goto
  <2> QED BY <2>3, <2>4
<1>2. ~(\/ InsertTask(c) \/ MoveToPlanning(c) \/ CreatePlan(c)
         \/ MoveToReady(c) \/ Snapshot(c) \/ LoadTask(c) \/ LoadPlan(c)
         \/ PickReady(c) \/ StartTask(c) \/ StageStep(c) \/ ClaimStep(c))
  BY DEF InsertTask, MoveToPlanning, CreatePlan, MoveToReady, Snapshot,
      LoadTask, LoadPlan, PickReady, StartTask, StageStep, ClaimStep,
      NextOfStart, Goto, Finish, Return, Begin
<1>3. ~(\/ Execute(c) \/ ExecutionFails(c) \/ SaveReport(c) \/ Attach(c)
         \/ ParkStep(c) \/ ParkTask(c) \/ AskStep(c) \/ AskTask(c)
         \/ FailStep(c) \/ FailTask(c) \/ PickWaiting(c) \/ WriteFiles(c))
  BY DEF Execute, ExecutionFails, SaveReport, Attach, ParkStep, ParkTask,
      AskStep, AskTask, FailStep, FailTask, PickWaiting, WriteFiles, StepKnown,
      Reported, Goto, Finish, Return, Begin
<1>4. ~(\/ ResumeTask(c) \/ ResumeStep(c) \/ VerifyStep(c) \/ CompleteStep(c)
         \/ Look(c) \/ MoveToVerifying(c) \/ VerifyTask(c) \/ SaveFinal(c)
         \/ Decide(c) \/ PauseTask(c)
         \/ (\E o \in Operations : Call(c, o)) \/ Abort(c))
  BY DEF ResumeTask, ResumeStep, VerifyStep, CompleteStep, Look,
      MoveToVerifying, VerifyTask, SaveFinal, Decide, PauseTask, Call, Abort,
      Goto, Finish, Return, Begin
<1> QED BY <1>1, <1>2, <1>3, <1>4 DEF Continue

LEMMA ProposalStep == IInv /\ ProposalInv /\ [Next]_vars => ProposalInv'
<1> SUFFICES ASSUME IInv, ProposalInv, [Next]_vars PROVE ProposalInv'
  OBVIOUS
<1>1. CASE UNCHANGED vars
  BY <1>1 DEF ProposalInv, Proposed, Waiting, vars, store, locals
<1>2. ASSUME NEW c \in Callers,
             Continue(c) \/ (\E o \in Operations : Call(c, o)) \/ Abort(c)
      PROVE  ProposalInv'
  <2>1. OthersKeep(c)
    BY <1>2, ContinueTypes, ContinueDisciplined, CallDisciplined
    DEF IInv, Disciplined
  <2>2. pending \subseteq pending'
    BY <1>2
    DEF Continue, InsertTask, MoveToPlanning, CreatePlan, MoveToReady,
        Snapshot, LoadTask, LoadPlan, PickReady, StartTask, StageStep,
        ClaimStep, Execute, ExecutionFails, SaveReport, Attach, SavePending,
        ParkStep, ParkTask, AskStep, AskTask, FailStep, FailTask, PickWaiting,
        ResumeTask, ResumeStep, WriteFiles, VerifyStep, CompleteStep, Look,
        MoveToVerifying, VerifyTask, SaveFinal, Decide, PauseTask, Call,
        Abort, store
  <2>3. \A s : Proposed(s) => Proposed(s)' BY <2>2 DEF Proposed
  <2>4. \A s \in Waiting' : s \in Waiting \/ (ParkStep(c) /\ s = step[c])
    BY <1>2, NewlyWaiting
  <2>5. ParkStep(c) => Proposed(step[c]) BY DEF ParkStep, ProposalInv
  <2>6. \A s \in Waiting' : Proposed(s)'
    BY <2>3, <2>4, <2>5 DEF ProposalInv
  <2>7. ASSUME NEW d \in Callers, pc'[d] = "wait_step"
        PROVE  \E p \in pending' : p.step = step'[d]
    <3>1. CASE d = c BY <1>2, <2>7, <3>1, WaitsProposed
    <3>2. CASE d # c
      <4>1. pc[d] = "wait_step" /\ step'[d] = step[d]
        BY <2>1, <2>7, <3>2 DEF OthersKeep
      <4> QED BY <2>2, <4>1 DEF ProposalInv, Proposed
    <3> QED BY <3>1, <3>2
  <2> QED BY <2>6, <2>7 DEF ProposalInv, Proposed
<1> QED BY <1>1, <1>2 DEF Next

LEMMA InitWaiting == Init => Covered /\ ProposalInv
<1> SUFFICES ASSUME Init PROVE Covered /\ ProposalInv
  OBVIOUS
<1>1. Owing = {} /\ Waiting = {} /\ TaskWaits = FALSE
  BY DEF Init, Owing, Waiting, TaskWaits, NONE
<1>2. [c \in {} |-> c] \in [{} -> {}] OBVIOUS
<1>3. Matched({}, {}, FALSE) BY <1>2 DEF Matched
<1>4. Covered BY <1>1, <1>3 DEF Covered
<1>5. ProposalInv BY <1>1 DEF Init, ProposalInv
<1> QED BY <1>4, <1>5

LEMMA CoveredMeans ==
  ASSUME Covered, ProposalInv
  PROVE  TaskWaits => \E s \in Waiting : Proposed(s)
<1> SUFFICES ASSUME TaskWaits PROVE \E s \in Waiting : Proposed(s)
  OBVIOUS
<1>1. \E s \in Waiting : TRUE BY DEF Covered, Matched
<1> QED BY <1>1 DEF ProposalInv

(* ApprovePendingWrite, ApprovePendingCommand: however many runners park    *)
(* steps, approvals resume them and calls are cut off half-way, a task that *)
(* waits for approval has a step that waits with a stored proposal, though  *)
(* after a new plan it may be a step of an older one.                       *)
THEOREM WaitingIsFounded ==
  Spec => [](status = "WAITING_APPROVAL" =>
               \E s \in DOMAIN steps :
                 /\ steps[s] = "WAITING_APPROVAL"
                 /\ \E p \in pending : p.step = s)
<1>1. Covered /\ ProposalInv =>
        (status = "WAITING_APPROVAL" =>
           \E s \in DOMAIN steps :
             /\ steps[s] = "WAITING_APPROVAL"
             /\ \E p \in pending : p.step = s)
  BY CoveredMeans DEF Waiting, TaskWaits, Proposed
<1> QED BY <1>1, InitWaiting, CoveredStep, ProposalStep, Invariance, PTL
        DEF Spec

----
(* Without GeneratePlan and ReplanTask there is no second plan: CreateTask  *)
(* writes revision 1 or none.                                               *)
NoNewPlans == Operations \cap {"GeneratePlan", "ReplanTask"} = {}

OnePlan ==
  /\ Len(plans) <= 1
  /\ \A c \in Callers :
       pc[c] \in {"insert", "to_planning", "create_plan"} => rev[c] = 0

LEMMA StaysUnplanned ==
  ASSUME NoNewPlans, IInv, NEW c \in Callers,
         pc[c] \in {"insert", "to_planning", "create_plan"} => rev[c] = 0,
         Continue(c) \/ (\E o \in Operations : Call(c, o)) \/ Abort(c)
  PROVE  pc'[c] \in {"insert", "to_planning", "create_plan"} => rev'[c] = 0
<1> USE DEF IInv, TypeOK, CallTypes, To
<1>1. CASE LoadPlan(c)
  <2>1. op[c] \notin {"GeneratePlan", "ReplanTask"}
    BY DEF NoNewPlans, NONE
  <2> QED BY <1>1, <2>1 DEF LoadPlan
<1>2. CASE InsertTask(c) \/ MoveToPlanning(c)
  BY <1>2 DEF InsertTask, MoveToPlanning, Goto
<1>3. CASE \E o \in Operations : Call(c, o)
  BY <1>3 DEF Call, Begin
(* elsewhere there is nothing to know *)
<1>4. CASE \/ CreatePlan(c) \/ MoveToReady(c) \/ Snapshot(c) \/ LoadTask(c)
           \/ PickReady(c) \/ StartTask(c) \/ StageStep(c) \/ ClaimStep(c)
  BY <1>4
  DEF CreatePlan, MoveToReady, Snapshot, LoadTask, PickReady, StartTask,
      StageStep, ClaimStep, NextOfStart, Goto, Finish, Return, Begin
<1>5. CASE \/ Execute(c) \/ ExecutionFails(c) \/ SaveReport(c) \/ Attach(c)
           \/ SavePending(c) \/ ParkStep(c) \/ ParkTask(c) \/ AskStep(c)
           \/ AskTask(c) \/ FailStep(c) \/ FailTask(c)
  BY <1>5
  DEF Execute, ExecutionFails, SaveReport, Attach, SavePending, ParkStep,
      ParkTask, AskStep, AskTask, FailStep, FailTask, StepKnown, Reported,
      Goto, Finish, Return, Begin
<1>6. CASE \/ PickWaiting(c) \/ ResumeTask(c) \/ ResumeStep(c) \/ WriteFiles(c)
           \/ VerifyStep(c) \/ CompleteStep(c) \/ Look(c) \/ MoveToVerifying(c)
           \/ VerifyTask(c) \/ SaveFinal(c) \/ Decide(c) \/ PauseTask(c)
           \/ Abort(c)
  BY <1>6
  DEF PickWaiting, ResumeTask, ResumeStep, WriteFiles, VerifyStep,
      CompleteStep, Look, MoveToVerifying, VerifyTask, SaveFinal, Decide,
      PauseTask, Abort, Goto, Finish, Return, Begin
<1> QED BY <1>1, <1>2, <1>3, <1>4, <1>5, <1>6 DEF Continue

LEMMA OnePlanStep == NoNewPlans /\ IInv /\ OnePlan /\ [Next]_vars => OnePlan'
<1> SUFFICES ASSUME NoNewPlans, IInv, OnePlan, [Next]_vars PROVE OnePlan'
  OBVIOUS
<1>1. CASE UNCHANGED vars
  BY <1>1 DEF OnePlan, vars, store, locals
<1>2. ASSUME NEW c \in Callers,
             Continue(c) \/ (\E o \in Operations : Call(c, o)) \/ Abort(c)
      PROVE  OnePlan'
  <2>1. OthersKeep(c)
    BY <1>2, ContinueTypes, ContinueDisciplined, CallDisciplined
    DEF IInv, Disciplined
  <2>2. pc'[c] \in {"insert", "to_planning", "create_plan"} => rev'[c] = 0
    BY <1>2, StaysUnplanned DEF OnePlan
  <2>3. Len(plans') <= 1
    <3>1. CASE CreatePlan(c)
      <4>1. Len(plans) = 0 BY <3>1 DEF CreatePlan, OnePlan
      <4>2. Len(plans') = Len(plans) + 1
        BY <3>1, AppendProperties DEF CreatePlan, IInv, TypeOK, StoreTypes
      <4> QED BY <4>1, <4>2
    <3>2. CASE UNCHANGED plans BY <3>2 DEF OnePlan
    <3> QED
      BY <1>2, <3>1, <3>2
      DEF Continue, InsertTask, MoveToPlanning, MoveToReady, Snapshot,
          LoadTask, LoadPlan, PickReady, StartTask, StageStep, ClaimStep,
          Execute, ExecutionFails, SaveReport, Attach, SavePending, ParkStep,
          ParkTask, AskStep, AskTask, FailStep, FailTask, PickWaiting,
          ResumeTask, ResumeStep, WriteFiles, VerifyStep, CompleteStep, Look,
          MoveToVerifying, VerifyTask, SaveFinal, Decide, PauseTask, Call,
          Abort, store
  <2> QED BY <2>1, <2>2, <2>3 DEF OnePlan, OthersKeep
<1> QED BY <1>1, <1>2 DEF Next

LEMMA OnlyPlanIsLatest ==
  ASSUME IInv, OnePlan, NEW s \in DOMAIN steps
  PROVE  s \in Ids(Len(plans))
<1>1. PICK r \in DOMAIN plans : s \in Ids(r)
  BY DEF IInv, TypeOK, StoreTypes
<1>2. r = Len(plans) BY LenNat DEF IInv, TypeOK, StoreTypes, OnePlan
<1> QED BY <1>1, <1>2

(* The step to approve is in the latest plan, where the two approvals look  *)
(* for it, as long as no new plan is made: GeneratePlan may add one under a *)
(* waiting task, and after a recovery and a replan a runner of the old plan *)
(* that is still about to park the task parks it on the new one.            *)
THEOREM WaitingCanBeApproved ==
  ASSUME NoNewPlans
  PROVE  Spec => []WaitingIsApprovable
<1>1. Init => OnePlan BY DEF Init, OnePlan
<1>2. IInv /\ OnePlan /\ [Next]_vars => OnePlan' BY OnePlanStep
<1>3. IInv /\ OnePlan /\ Covered /\ ProposalInv => WaitingIsApprovable
  <2> SUFFICES ASSUME IInv, OnePlan, Covered, ProposalInv, TaskWaits
               PROVE  WaitingIsApprovable
    BY DEF WaitingIsApprovable, TaskWaits
  <2>1. PICK s \in Waiting : Proposed(s) BY CoveredMeans
  <2>2. s \in Ids(Len(plans)) BY OnlyPlanIsLatest DEF Waiting
  <2> QED BY <2>1, <2>2 DEF WaitingIsApprovable, Waiting, Proposed
<1> QED BY <1>1, <1>2, <1>3, InitWaiting, CoveredStep, ProposalStep,
           Invariance, PTL
        DEF Spec
=============================================================================
