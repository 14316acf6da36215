--------------------------- MODULE CommandsProofs ---------------------------
(***************************************************************************)
(* Theorems about Commands, for any number of concurrent calls, any        *)
(* operations among them, any plans, commands and bounds.                  *)
(***************************************************************************)
EXTENDS Commands, SequenceTheorems, TLAPS

(* the labels at which a call has a step, has its command, and owns a step: *)
(* nobody else may move it                                                  *)
Naming == {"load_step", "approve", "resume_task", "resume_step", "intent",
           "consume", "start", "wait", "update"}
Owning == {"turn", "save_pending", "park_step", "intent", "consume", "start",
           "wait", "update", "save_result", "attach", "verify_step",
           "complete_step", "fail_step"}
Unstarted == {"turn", "save_pending", "park_step", "intent", "consume", "start"}
HasStep == Naming \cup Owning \cup {"start_task", "ready_step", "claim_step"}

Unrun(s) == \A k \in DOMAIN runs : runs[k].step # s

(* what a step past its command has on record                               *)
Ran(s) ==
  pending[s] # NONE =>
    /\ ExitedZero(s)
    /\ intents[<<s, pending[s]>>] = "SUCCEEDED"
    /\ s \in results /\ attached[s] = "COMMAND_RESULT"

Placed(c) ==
  /\ pc[c] \in HasStep => step[c] \in Steps
  /\ pc[c] \in Naming \cup {"save_pending"} => command[c] \in CommandLines
  /\ pc[c] = "update" => result[c] # NONE

(* A call that owns a step has the status right; a proposal it has read is  *)
(* still the stored one; nothing has run before it runs it.                 *)
Owns(c) ==
  /\ pc[c] \in Owning =>
       steps[step[c]] = IF pc[c] = "complete_step" THEN "VERIFYING"
                                                   ELSE "RUNNING"
  /\ pc[c] \in {"turn", "save_pending"} => pending[step[c]] = NONE
  /\ pc[c] \in Naming => pending[step[c]] = command[c]
  /\ pc[c] \in Unstarted => Unrun(step[c])

(* where its run stands                                                     *)
Pays(c) ==
  /\ pc[c] \in {"consume", "start", "wait", "update"} =>
       Intent(c) \in DOMAIN intents
  /\ pc[c] = "start" =>
       /\ run[c] \in DOMAIN tickets
       /\ tickets[run[c]] =
            [step |-> step[c], command |-> command[c], state |-> "used"]
  /\ pc[c] = "wait" => run[c] \in DOMAIN runs /\ runs[run[c]].step = step[c]

(* what it is about to write down is true                                   *)
Tells(c) ==
  /\ pc[c] = "update" /\ result[c] = "SUCCEEDED" => ExitedZero(step[c])
  /\ pc[c] \in {"save_result", "attach"} =>
       /\ ExitedZero(step[c])
       /\ intents[<<step[c], pending[step[c]]>>] = "SUCCEEDED"
  /\ pc[c] = "attach" => step[c] \in results
  /\ pc[c] = "verify_step" => Ran(step[c])

Mine(c) == Placed(c) /\ Owns(c) /\ Pays(c) /\ Tells(c)

Apart(c, d) ==
  c # d /\ pc[c] \in Owning /\ pc[d] \in Owning => step[c] # step[d]

(* the runs and the records of one step                                     *)
Fresh(s) ==
  /\ steps[s] \in {"PENDING", "READY"} => pending[s] = NONE
  /\ steps[s] \in {"PENDING", "READY", "WAITING_APPROVAL"} => Unrun(s)

Paid(s) ==
  \A k \in DOMAIN runs : runs[k].step = s =>
    /\ \A j \in DOMAIN runs : runs[j].step = s => j = k
    /\ runs[k].ticket \in DOMAIN tickets
    /\ tickets[runs[k].ticket] =
         [step |-> s, command |-> runs[k].command, state |-> "used"]
    /\ pending[s] = runs[k].command
    /\ <<s, runs[k].command>> \in DOMAIN intents

Real(s) ==
  /\ \A k \in CommandLines : <<s, k>> \in DOMAIN intents =>
       (intents[<<s, k>>] = "SUCCEEDED" => ExitedZero(s))
  /\ s \in results => ExitedZero(s)
  /\ steps[s] \in {"VERIFYING", "COMPLETED"} => Ran(s)

Sound(s) == Fresh(s) /\ Paid(s) /\ Real(s)

IInv ==
  /\ TypeOK
  /\ \A c \in Callers : Mine(c)
  /\ \A c, d \in Callers : Apart(c, d)
  /\ \A s \in Steps : Sound(s)

(* The variables of call d stay; those of all calls but c.                  *)
Still(d) ==
  /\ pc'[d] = pc[d] /\ step'[d] = step[d] /\ command'[d] = command[d]
  /\ run'[d] = run[d] /\ result'[d] = result[d]

Others(c) == \A d \in Callers \ {c} : Still(d)

(* Tickets and processes are added; used tickets and processes stay.        *)
Grown ==
  /\ \A t \in DOMAIN tickets :
       /\ t \in DOMAIN tickets'
       /\ tickets[t].state = "used" => tickets'[t] = tickets[t]
  /\ \A k \in DOMAIN runs : k \in DOMAIN runs' /\ runs'[k] = runs[k]

(* The rows of step x stay, and none of its processes is new.               *)
Kept(x) ==
  /\ steps'[x] = steps[x] /\ pending'[x] = pending[x]
  /\ x \in results' <=> x \in results
  /\ attached'[x] = attached[x]
  /\ \A k \in CommandLines :
       /\ <<x, k>> \in DOMAIN intents' <=> <<x, k>> \in DOMAIN intents
       /\ <<x, k>> \in DOMAIN intents => intents'[<<x, k>>] = intents[<<x, k>>]
  /\ \A k \in DOMAIN runs' : runs'[k].step = x => k \in DOMAIN runs

----
LEMMA GotoMoves ==
  ASSUME CallTypes, NEW c \in Callers, NEW l \in Label, Goto(c, l)
  PROVE  /\ CallTypes' /\ Others(c)
         /\ pc'[c] = l /\ step'[c] = step[c] /\ command'[c] = command[c]
         /\ run'[c] = run[c] /\ result'[c] = result[c]
BY DEF CallTypes, Goto, To, Others, Still

LEMMA ProceedMoves ==
  ASSUME CallTypes, NEW c \in Callers, NEW l \in Label, Proceed(c, l)
  PROVE  /\ CallTypes' /\ Others(c)
         /\ pc'[c] = l /\ step'[c] = step[c] /\ command'[c] = NONE
         /\ run'[c] = 0 /\ result'[c] = NONE
BY DEF CallTypes, Proceed, To, Others, Still

LEMMA ReturnMoves ==
  ASSUME CallTypes, NEW c \in Callers, Return(c)
  PROVE  CallTypes' /\ Others(c) /\ pc'[c] = "idle"
BY PlansAreDisjoint DEF CallTypes, Return, To, Others, Still, Revisions, Label

LEMMA AnswerMoves ==
  ASSUME CallTypes, NEW c \in Callers, NEW v \in {"SUCCEEDED", "FAILED"},
         Answer(c, v)
  PROVE  /\ CallTypes' /\ Others(c)
         /\ pc'[c] = "update" /\ step'[c] = step[c] /\ command'[c] = command[c]
         /\ result'[c] = v
BY DEF CallTypes, Answer, To, Others, Still, Label

LEMMA TicketElement ==
  ASSUME StoreTypes, NEW t \in DOMAIN tickets
  PROVE  tickets[t] \in Ticket
BY ElementOfSeq DEF StoreTypes

LEMMA RunElement ==
  ASSUME StoreTypes, NEW k \in DOMAIN runs
  PROVE  runs[k] \in Process
BY ElementOfSeq DEF StoreTypes

(* Mine of a call whose variables stay                                      *)
LEMMA OtherCall ==
  ASSUME IInv, TypeOK', NEW d \in Callers, Still(d), Grown,
         pc[d] \in Owning => Kept(step[d]),
         pc[d] \in Naming => pending'[step[d]] = pending[step[d]]
  PROVE  Mine(d)'
<1>1. /\ pc'[d] = pc[d] /\ step'[d] = step[d] /\ command'[d] = command[d]
      /\ run'[d] = run[d] /\ result'[d] = result[d]
  BY DEF Still
<1>2. Placed(d)' BY <1>1 DEF IInv, Mine, Placed
<1>3. pc[d] \in Owning => step[d] \in Steps /\ Kept(step[d])
  BY DEF IInv, Mine, Placed, HasStep
<1>4. pc[d] \in Owning /\ ExitedZero(step[d]) => ExitedZero(step[d])'
  BY <1>1 DEF ExitedZero, Grown
<1>5. pc[d] \in Owning /\ Unrun(step[d]) => Unrun(step[d])'
  BY <1>1 DEF Unrun, Grown, Kept
<1>7. Owns(d)'
  BY <1>1, <1>3, <1>5 DEF IInv, Mine, Owns, Kept, Owning, Unstarted
<1>8. Pays(d)'
  <2>1. ASSUME pc[d] \in {"consume", "start", "wait", "update"}
        PROVE  Intent(d)' \in DOMAIN intents'
    <3>1. Kept(step[d]) BY <1>3, <2>1 DEF Owning
    <3>2. command[d] \in CommandLines /\ Intent(d) \in DOMAIN intents
      BY <2>1 DEF IInv, Mine, Placed, Pays, Naming
    <3>3. <<step[d], command[d]>> \in DOMAIN intents'
      BY <3>1, <3>2 DEF Kept, Intent
    <3> QED BY <1>1, <3>3 DEF Intent
  <2>2. ASSUME pc[d] = "start"
        PROVE  run[d] \in DOMAIN tickets' /\ tickets'[run[d]] = tickets[run[d]]
    <3>1. /\ run[d] \in DOMAIN tickets
          /\ tickets[run[d]] =
               [step |-> step[d], command |-> command[d], state |-> "used"]
      BY <2>2 DEF IInv, Mine, Pays
    <3>2. tickets[run[d]].state = "used" BY <3>1
    <3> QED BY <3>1, <3>2 DEF Grown
  <2>3. pc[d] = "wait" => run[d] \in DOMAIN runs' /\ runs'[run[d]] = runs[run[d]]
    BY DEF IInv, Mine, Pays, Grown
  <2> QED BY <1>1, <2>1, <2>2, <2>3 DEF IInv, Mine, Pays
<1>9. Tells(d)'
  <2>1. pc[d] = "update" /\ result[d] = "SUCCEEDED" => ExitedZero(step[d])'
    BY <1>4 DEF IInv, Mine, Tells, Owning
  <2>2. ASSUME pc[d] \in {"save_result", "attach", "verify_step"}, ExitedZero(step[d]),
               intents[<<step[d], pending[step[d]]>>] = "SUCCEEDED"
        PROVE  /\ ExitedZero(step[d])'
               /\ intents'[<<step[d], pending'[step[d]]>>] = "SUCCEEDED"
    <3>1. Kept(step[d]) /\ step[d] \in Steps /\ ExitedZero(step[d])'
      BY <1>3, <1>4, <2>2 DEF Owning
    <3>2. PICK k \in DOMAIN runs : runs[k].step = step[d]
      BY <2>2 DEF ExitedZero
    <3>3. Paid(step[d]) /\ runs[k] \in Process
      BY <3>1, RunElement DEF IInv, Sound, TypeOK
    <3>4. /\ pending[step[d]] \in CommandLines
          /\ <<step[d], pending[step[d]]>> \in DOMAIN intents
      BY <3>2, <3>3 DEF Paid, Process
    <3> QED BY <1>1, <2>2, <3>1, <3>4 DEF Kept
  <2>3. ASSUME pc[d] = "verify_step" PROVE Ran(step[d])'
    <3>1. Ran(step[d]) /\ Kept(step[d]) BY <1>3, <2>3 DEF IInv, Mine, Tells, Owning
    <3> QED BY <1>1, <2>2, <2>3, <3>1 DEF Ran, Kept
  <2>4. pc[d] = "attach" => step[d] \in results' BY <1>3 DEF IInv, Mine, Tells, Kept, Owning
  <2>5. pc[d] \in {"save_result", "attach"} =>
          /\ ExitedZero(step[d])
          /\ intents[<<step[d], pending[step[d]]>>] = "SUCCEEDED"
    BY DEF IInv, Mine, Tells
  <2> QED BY <1>1, <2>1, <2>2, <2>3, <2>4, <2>5 DEF Tells
<1> QED BY <1>2, <1>7, <1>8, <1>9 DEF Mine

(* Sound of the steps whose rows do not change                              *)
LEMMA OtherStep ==
  ASSUME IInv, TypeOK', NEW x \in Steps, Kept(x), Grown
  PROVE  Sound(x)'
<1>1. Kept(x) OBVIOUS
<1>2. \A k \in DOMAIN runs' : runs'[k].step = x =>
        k \in DOMAIN runs /\ runs'[k] = runs[k]
  BY DEF Kept, Grown
<1>3. \A k \in DOMAIN runs : k \in DOMAIN runs' /\ runs'[k] = runs[k]
  BY DEF Grown
<1>4. Unrun(x) => Unrun(x)' BY <1>2 DEF Unrun
<1>5. ExitedZero(x) <=> ExitedZero(x)' BY <1>2, <1>3 DEF ExitedZero
<1>6. Fresh(x)' BY <1>1, <1>4 DEF IInv, Sound, Fresh, Kept
<1>7. Paid(x)'
  <2> SUFFICES ASSUME NEW k \in DOMAIN runs', runs'[k].step = x
               PROVE  /\ \A j \in DOMAIN runs' : runs'[j].step = x => j = k
                      /\ runs'[k].ticket \in DOMAIN tickets'
                      /\ tickets'[runs'[k].ticket] =
                           [step |-> x, command |-> runs'[k].command,
                            state |-> "used"]
                      /\ pending'[x] = runs'[k].command
                      /\ <<x, runs'[k].command>> \in DOMAIN intents'
    BY DEF Paid
  <2>1. k \in DOMAIN runs /\ runs'[k] = runs[k] /\ runs[k].step = x BY <1>2
  <2>2. /\ \A j \in DOMAIN runs : runs[j].step = x => j = k
        /\ runs[k].ticket \in DOMAIN tickets
        /\ tickets[runs[k].ticket] =
             [step |-> x, command |-> runs[k].command, state |-> "used"]
        /\ pending[x] = runs[k].command
        /\ <<x, runs[k].command>> \in DOMAIN intents
    BY <2>1 DEF IInv, Sound, Paid
  <2>3. tickets[runs[k].ticket].state = "used" BY <2>2
  <2>4. /\ runs[k].ticket \in DOMAIN tickets'
        /\ tickets'[runs[k].ticket] = tickets[runs[k].ticket]
    BY <2>2, <2>3 DEF Grown
  <2>5. runs[k].command \in CommandLines
    BY <2>1, RunElement DEF IInv, TypeOK, Process
  <2> QED BY <1>1, <1>2, <2>1, <2>2, <2>4, <2>5 DEF Kept
<1>8. Real(x)'
  <2>1. \A k \in CommandLines : <<x, k>> \in DOMAIN intents' =>
          (intents'[<<x, k>>] = "SUCCEEDED" => ExitedZero(x)')
    BY <1>1, <1>5 DEF IInv, Sound, Real, Kept
  <2>2. Ran(x) => Ran(x)'
    <3> SUFFICES ASSUME Ran(x), pending'[x] # NONE PROVE Ran(x)' BY DEF Ran
    <3>1. pending[x] # NONE /\ pending'[x] = pending[x] BY <1>1 DEF Kept
    <3>2. ExitedZero(x) BY <3>1 DEF Ran
    <3>3. PICK k \in DOMAIN runs : runs[k].step = x BY <3>2 DEF ExitedZero
    <3>4. runs[k].command \in CommandLines
      BY RunElement DEF IInv, TypeOK, Process
    <3>5. <<x, pending[x]>> \in DOMAIN intents /\ pending[x] \in CommandLines
      BY <3>3, <3>4 DEF IInv, Sound, Paid
    <3> QED BY <1>1, <1>5, <3>1, <3>2, <3>5 DEF Ran, Kept
  <2> QED BY <1>1, <1>5, <2>1, <2>2 DEF IInv, Sound, Real, Kept
<1> QED BY <1>6, <1>7, <1>8 DEF Sound

(* What an action has to show: of a call that changes the rows of a step,   *)
LEMMA RowMoves ==
  ASSUME IInv, TypeOK', NEW c \in Callers, Others(c), Mine(c)', Grown,
         NEW s \in Steps, Sound(s)',
         \A x \in Steps : x # s => Kept(x),
         pending'[s] = pending[s] \/ pending[s] = NONE,
         \A d \in Callers : d # c /\ pc[d] \in Owning => step[d] # s,
         pc'[c] \in Owning => step'[c] = s
  PROVE  IInv'
<1>1. ASSUME NEW d \in Callers PROVE Mine(d)'
  <2>1. CASE d = c BY <2>1
  <2>2. CASE d # c
    <3>1. Still(d) /\ Mine(d) BY <2>2 DEF Others, IInv
    <3>2. pc[d] \in Owning => Kept(step[d])
      BY <2>2, <3>1 DEF Mine, Placed, HasStep
    <3>3. pc[d] \in Naming => pending'[step[d]] = pending[step[d]]
      BY <3>1, NoneIsNoCommand DEF Mine, Placed, Owns, HasStep, Kept
    <3> QED BY <3>1, <3>2, <3>3, OtherCall
  <2> QED BY <2>1, <2>2
<1>2. ASSUME NEW x \in Steps PROVE Sound(x)'
  <2>1. CASE x = s BY <2>1
  <2>2. CASE x # s BY <2>2, OtherStep
  <2> QED BY <2>1, <2>2
<1>3. \A d, e \in Callers : Apart(d, e)' BY DEF IInv, Apart, Others, Still
<1> QED BY <1>1, <1>2, <1>3 DEF IInv

(* of a call that changes no rows but tickets,                              *)
LEMMA LocalMoves ==
  ASSUME IInv, TypeOK', NEW c \in Callers, Others(c), Mine(c)', Grown,
         \A x \in Steps : Kept(x),
         pc'[c] \in Owning => pc[c] \in Owning /\ step'[c] = step[c]
  PROVE  IInv'
<1>1. ASSUME NEW d \in Callers PROVE Mine(d)'
  <2>1. CASE d = c BY <2>1
  <2>2. CASE d # c
    <3>1. Still(d) /\ Mine(d) BY <2>2 DEF Others, IInv
    <3>2. pc[d] \in Owning => Kept(step[d]) BY <3>1 DEF Mine, Placed, HasStep
    <3>3. pc[d] \in Naming => pending'[step[d]] = pending[step[d]]
      BY <3>1 DEF Mine, Placed, HasStep, Kept
    <3> QED BY <3>1, <3>2, <3>3, OtherCall
  <2> QED BY <2>1, <2>2
<1>2. ASSUME NEW x \in Steps PROVE Sound(x)' BY OtherStep
<1>3. \A d, e \in Callers : Apart(d, e)' BY DEF IInv, Apart, Others, Still
<1> QED BY <1>1, <1>2, <1>3 DEF IInv

(* and outside the calls.                                                   *)
LEMMA WorldMoves ==
  ASSUME IInv, TypeOK', Grown, UNCHANGED locals, \A x \in Steps : Kept(x)
  PROVE  IInv'
<1>1. ASSUME NEW d \in Callers PROVE Mine(d)'
  <2>1. Still(d) /\ Mine(d) BY DEF Still, locals, IInv
  <2>2. pc[d] \in Owning => Kept(step[d]) BY <2>1 DEF Mine, Placed, HasStep
  <2>3. pc[d] \in Naming => pending'[step[d]] = pending[step[d]]
    BY <2>1 DEF Mine, Placed, HasStep, Kept
  <2> QED BY <2>1, <2>2, <2>3, OtherCall
<1>2. ASSUME NEW x \in Steps PROVE Sound(x)' BY OtherStep
<1>3. \A d, e \in Callers : Apart(d, e)' BY DEF IInv, Apart, locals
<1> QED BY <1>1, <1>2, <1>3 DEF IInv

(* the store as it was                                                      *)
LEMMA StoreKept ==
  ASSUME UNCHANGED <<steps, records, runs>>
  PROVE  Grown /\ \A x \in Steps : Kept(x)
BY DEF Grown, Kept, records

----
LEMMA StatusesKnown ==
  /\ {"READY", "RUNNING", "WAITING_APPROVAL", "VERIFYING", "PAUSED", "FAILED"}
       \subseteq TaskStatus
  /\ {"PENDING", "READY", "RUNNING", "WAITING_APPROVAL", "VERIFYING",
      "COMPLETED", "FAILED"} \subseteq StepStatus
BY DEF TaskStatus, StepStatus

(* the calls' steps to labels at which they have nothing                    *)
Bare == Label \ (HasStep \cup {"save_pending"})

LEMMA BareMoves ==
  ASSUME IInv, TypeOK', NEW c \in Callers, Others(c), Grown,
         \A x \in Steps : Kept(x), pc'[c] \in Bare
  PROVE  IInv'
<1>1. Mine(c)'
  BY DEF Bare, HasStep, Naming, Owning, Unstarted, Mine, Placed, Owns, Pays, Tells
<1> QED BY <1>1, LocalMoves DEF Bare, HasStep

LEMMA TaskTypes ==
  ASSUME StoreTypes, UNCHANGED <<steps, records, runs>>, task' \in TaskStatus,
         latest' \in Revisions
  PROVE  StoreTypes'
BY DEF StoreTypes, records

(* The actions that leave a call at a bare label and the rows as they are   *)
LEMMA BareActions ==
  ASSUME IInv, NEW c \in Callers,
         \/ \E o \in Operations : Call(c, o)
         \/ Abort(c) \/ PauseTask(c) \/ LoadPaused(c) \/ StorePlan(c)
         \/ ReadyTask(c) \/ ParkTask(c) \/ LoadTask(c) \/ CheckSteps(c)
         \/ MoveToVerifying(c) \/ FailTask(c)
  PROVE  IInv'
<1>1. StoreTypes /\ CallTypes BY DEF IInv, TypeOK
<1>2. /\ UNCHANGED <<steps, records, runs>>
      /\ task' \in TaskStatus /\ latest' \in Revisions
  BY <1>1, StatusesKnown
  DEF StoreTypes, Call, Abort, PauseTask, LoadPaused, StorePlan, ReadyTask,
      ParkTask, LoadTask, CheckSteps, MoveToVerifying, FailTask, TaskCAS, plan
<1>3. \/ Return(c)
      \/ \E l \in Bare : Goto(c, l)
      \/ LoadPaused(c)
  BY OperationsKnown
  DEF Call, Abort, PauseTask, StorePlan, ReadyTask,
      ParkTask, LoadTask, CheckSteps, MoveToVerifying, FailTask, Bare, Label,
      HasStep, Naming, Owning, AllOperations
<1>4. LoadPaused(c) => CallTypes' /\ Others(c) /\ pc'[c] \in Bare
  BY <1>1
  DEF LoadPaused, To, CallTypes, StoreTypes, Others, Still, Bare, Label,
      HasStep, Naming, Owning
<1>5. (\E l \in Bare : Goto(c, l)) => CallTypes' /\ Others(c) /\ pc'[c] \in Bare
  BY <1>1, GotoMoves DEF Bare
<1>6. Return(c) => CallTypes' /\ Others(c) /\ pc'[c] \in Bare
  BY <1>1, ReturnMoves DEF Bare, Label, HasStep, Naming, Owning
<1>7. TypeOK' BY <1>1, <1>2, <1>3, <1>4, <1>5, <1>6, TaskTypes DEF TypeOK
<1> QED BY <1>2, <1>3, <1>4, <1>5, <1>6, <1>7, StoreKept, BareMoves

(* The actions that take a call on with its step and leave the rows         *)
LEMMA LocalActions ==
  ASSUME IInv, NEW c \in Callers,
         \/ PickStep(c) \/ StartTask(c)
         \/ LoadPending(c) \/ LoadStep(c) \/ ResumeTask(c) \/ TicketRefused(c)
         \/ StartFails(c) \/ Collect(c) \/ ExecuteFails(c)
  PROVE  IInv'
<1>1. StoreTypes /\ CallTypes /\ Mine(c) BY DEF IInv, TypeOK
<1>2. /\ UNCHANGED <<steps, records, runs>>
      /\ task' \in TaskStatus /\ latest' \in Revisions
  BY <1>1, StatusesKnown
  DEF StoreTypes, PickStep, StartTask, LoadPending,
      LoadStep, ResumeTask, TicketRefused, StartFails, Collect, ExecuteFails,
      TaskCAS, plan
<1>3. Grown /\ \A x \in Steps : Kept(x) BY <1>2, StoreKept
<1>4. StoreTypes' BY <1>1, <1>2, TaskTypes
<1>5. CASE PickStep(c)
  <2>1. /\ CallTypes' /\ Others(c)
        /\ pc'[c] \in {"start_task", "ready_step", "claim_step"}
        /\ step'[c] \in Steps
    BY <1>1, <1>5
    DEF PickStep, To, CallTypes, StoreTypes, Others, Still, Label, Steps
  <2>2. Mine(c)'
    BY <2>1 DEF Mine, Placed, Owns, Pays, Tells, Naming, Owning, Unstarted
  <2> QED BY <1>3, <1>4, <2>1, <2>2, LocalMoves DEF TypeOK, Owning
<1>6. CASE StartTask(c)
  <2>1. \E l \in {"ready_step", "claim_step"} : Goto(c, l) /\ l \in Label
    BY <1>6 DEF StartTask, Label
  <2>2. /\ CallTypes' /\ Others(c)
        /\ pc'[c] \in {"ready_step", "claim_step"} /\ step'[c] = step[c]
    BY <1>1, <2>1, GotoMoves
  <2>3. Mine(c)'
    BY <1>1, <1>6, <2>2
    DEF StartTask, Mine, Placed, Owns, Pays, Tells, Naming, Owning, Unstarted, HasStep
  <2> QED BY <1>3, <1>4, <2>2, <2>3, LocalMoves DEF TypeOK, Owning
<1>8. CASE LoadPending(c)
  <2>1. /\ CallTypes' /\ Others(c) /\ pc'[c] = "load_step"
        /\ step'[c] \in Steps /\ command'[c] \in CommandLines
        /\ pending[step'[c]] = command'[c]
    BY <1>1, <1>8
    DEF LoadPending, To, CallTypes, StoreTypes, Others, Still, Label
  <2>2. Mine(c)'
    BY <1>2, <2>1
    DEF Mine, Placed, Owns, Pays, Tells, Naming, Owning, Unstarted, records
  <2> QED BY <1>3, <1>4, <2>1, <2>2, LocalMoves DEF TypeOK, Owning
<1>9. CASE LoadStep(c)
  <2>1. /\ CallTypes' /\ Others(c) /\ pc[c] = "load_step" /\ pc'[c] = "approve"
        /\ step'[c] = step[c] /\ command'[c] = command[c]
    BY <1>1, <1>9
    DEF LoadStep, To, CallTypes, StoreTypes, Others, Still, Label
  <2>2. Mine(c)'
    BY <1>1, <1>2, <2>1
    DEF Mine, Placed, Owns, Pays, Tells, Naming, Owning, Unstarted, HasStep, records
  <2> QED BY <1>3, <1>4, <2>1, <2>2, LocalMoves DEF TypeOK, Owning
<1>10. CASE ResumeTask(c)
  <2>1. /\ CallTypes' /\ Others(c) /\ pc[c] = "resume_task" /\ pc'[c] = "resume_step"
        /\ step'[c] = step[c] /\ command'[c] = command[c]
    BY <1>1, <1>10, GotoMoves DEF ResumeTask, Label
  <2>2. Mine(c)'
    BY <1>1, <1>2, <2>1
    DEF Mine, Placed, Owns, Pays, Tells, Naming, Owning, Unstarted, HasStep, records
  <2> QED BY <1>3, <1>4, <2>1, <2>2, LocalMoves DEF TypeOK, Owning
<1>11. CASE TicketRefused(c) \/ ExecuteFails(c)
  <2>1. /\ CallTypes' /\ Others(c) /\ pc[c] \in {"consume", "intent", "update"}
        /\ pc'[c] = "fail_step" /\ step'[c] = step[c]
    BY <1>1, <1>11, ProceedMoves DEF TicketRefused, ExecuteFails, Label
  <2>2. Mine(c)'
    BY <1>1, <1>2, <2>1
    DEF Mine, Placed, Owns, Pays, Tells, Naming, Owning, Unstarted, HasStep
  <2> QED BY <1>3, <1>4, <2>1, <2>2, LocalMoves DEF TypeOK, Owning
<1>12. CASE StartFails(c)
  <2>1. /\ CallTypes' /\ Others(c) /\ pc[c] = "start" /\ pc'[c] = "update"
        /\ step'[c] = step[c] /\ command'[c] = command[c] /\ result'[c] = "FAILED"
    BY <1>1, <1>12, AnswerMoves DEF StartFails
  <2>2. Mine(c)'
    BY <1>1, <1>2, <2>1
    DEF Mine, Placed, Owns, Pays, Tells, Naming, Owning, Unstarted, HasStep,
        Intent, NONE, records
  <2> QED BY <1>3, <1>4, <2>1, <2>2, LocalMoves DEF TypeOK, Owning
<1>13. CASE Collect(c)
  <2>1. PICK v \in {"SUCCEEDED", "FAILED"} :
          /\ Answer(c, v)
          /\ v = "SUCCEEDED" => runs[run[c]].exit = "zero"
    BY <1>13 DEF Collect
  <2>2. /\ CallTypes' /\ Others(c) /\ pc[c] = "wait" /\ pc'[c] = "update"
        /\ step'[c] = step[c] /\ command'[c] = command[c] /\ result'[c] = v
    BY <1>1, <1>13, <2>1, AnswerMoves DEF Collect
  <2>3. v = "SUCCEEDED" => ExitedZero(step[c])'
    BY <1>1, <1>2, <2>1, <2>2 DEF Mine, Pays, ExitedZero
  <2>4. Mine(c)'
    BY <1>1, <1>2, <2>2, <2>3
    DEF Mine, Placed, Owns, Pays, Tells, Naming, Owning, Unstarted, HasStep,
        Intent, NONE, records
  <2> QED BY <1>3, <1>4, <2>2, <2>4, LocalMoves DEF TypeOK, Owning
<1> QED BY <1>5, <1>6, <1>8, <1>9, <1>10, <1>11, <1>12, <1>13


(* The actions that move the status of a call's step.  Nobody else owns it: *)
LEMMA Alone ==
  ASSUME IInv, NEW c \in Callers,
         pc[c] \in Owning \/ steps[step[c]] \notin {"RUNNING", "VERIFYING"}
  PROVE  \A d \in Callers : d # c /\ pc[d] \in Owning => step[d] # step[c]
BY DEF IInv, Mine, Owns, Apart

LEMMA StepGoes ==
  ASSUME StoreTypes, NEW s \in Steps, NEW from, NEW to \in StepStatus,
         StepCAS(s, from, to), UNCHANGED <<records, runs>>
  PROVE  /\ StoreTypes' /\ Grown /\ \A x \in Steps : x # s => Kept(x)
         /\ steps[s] = from /\ steps'[s] = to
         /\ Unrun(s)' <=> Unrun(s)
         /\ Paid(s) => Paid(s)'
         /\ ExitedZero(s)' <=> ExitedZero(s)
         /\ Ran(s)' <=> Ran(s)
<1>1. UNCHANGED <<task, latest, pending, tickets, intents, results, attached, runs>>
  BY DEF StepCAS, records
<1>2. steps' = [steps EXCEPT ![s] = to] /\ steps[s] = from BY DEF StepCAS
<1>3. StoreTypes' BY <1>1, <1>2 DEF StoreTypes
<1>4. Grown /\ \A x \in Steps : x # s => Kept(x)
  BY <1>1, <1>2 DEF Grown, Kept, StoreTypes
<1>5. steps'[s] = to BY <1>2 DEF StoreTypes
<1>6. Unrun(s)' <=> Unrun(s) BY <1>1 DEF Unrun
<1>7. Paid(s) => Paid(s)' BY <1>1 DEF Paid
<1>8. ExitedZero(s)' <=> ExitedZero(s) BY <1>1 DEF ExitedZero
<1>9. Ran(s)' <=> Ran(s) BY <1>1 DEF Ran, ExitedZero
<1> QED BY <1>2, <1>3, <1>4, <1>5, <1>6, <1>7, <1>8, <1>9

LEMMA StatusActions ==
  ASSUME IInv, NEW c \in Callers,
         \/ ReadyStep(c) \/ ClaimStep(c) \/ ParkStep(c) \/ ResumeStep(c)
         \/ VerifyStep(c) \/ CompleteStep(c) \/ FailStep(c)
  PROVE  IInv'
<1>1. StoreTypes /\ CallTypes /\ Mine(c) BY DEF IInv, TypeOK
<1>2. PICK s \in Steps : s = step[c]
  BY <1>1
  DEF ReadyStep, ClaimStep, ParkStep, ResumeStep, VerifyStep, CompleteStep,
      FailStep, Mine, Placed, HasStep, Naming, Owning
<1>3. Sound(s) BY <1>2 DEF IInv
<1>4. UNCHANGED <<records, runs>>
  BY DEF ReadyStep, ClaimStep, ParkStep, ResumeStep, VerifyStep, CompleteStep, FailStep
<1>5. pending' = pending /\ results' = results /\ intents' = intents BY <1>4 DEF records
<1>6. ASSUME NEW from, NEW to \in StepStatus, StepCAS(s, from, to),
             CallTypes', Others(c), Mine(c)', Sound(s)', step'[c] = s,
             pc[c] \in Owning \/ from \notin {"RUNNING", "VERIFYING"}
      PROVE  IInv'
  <2>1. /\ StoreTypes' /\ Grown /\ \A x \in Steps : x # s => Kept(x)
        /\ steps[s] = from
    BY <1>1, <1>2, <1>4, <1>6, StepGoes
  <2>2. \A d \in Callers : d # c /\ pc[d] \in Owning => step[d] # s
    BY <1>2, <1>6, <2>1, Alone
  <2> QED BY <1>2, <1>5, <1>6, <2>1, <2>2, RowMoves DEF TypeOK
<1>7. CASE ReadyStep(c)
  <2>1. /\ StepCAS(s, "PENDING", "READY") /\ pc[c] = "ready_step"
        /\ CallTypes' /\ Others(c) /\ pc'[c] = "claim_step" /\ step'[c] = s
    BY <1>1, <1>2, <1>7, ProceedMoves DEF ReadyStep, Label
  <2>2. /\ steps[s] = "PENDING" /\ steps'[s] = "READY"
        /\ Unrun(s)' <=> Unrun(s)
        /\ Paid(s) => Paid(s)'
        /\ ExitedZero(s)' <=> ExitedZero(s)
    BY <1>1, <1>2, <1>4, <2>1, StatusesKnown, StepGoes
  <2>3. Mine(c)'
    BY <1>2, <2>1
    DEF Mine, Placed, Owns, Pays, Tells, Naming, Owning, Unstarted
  <2>4. Sound(s)' BY <1>3, <1>5, <2>2 DEF Sound, Fresh, Real
  <2> QED BY <1>6, <2>1, <2>3, <2>4, StatusesKnown
<1>8. CASE ClaimStep(c)
  <2>1. /\ StepCAS(s, "READY", "RUNNING") /\ pc[c] = "claim_step"
        /\ CallTypes' /\ Others(c) /\ pc'[c] = "turn" /\ step'[c] = s
    BY <1>1, <1>2, <1>8, GotoMoves DEF ClaimStep, Label
  <2>2. /\ steps[s] = "READY" /\ steps'[s] = "RUNNING"
        /\ Unrun(s)' <=> Unrun(s)
        /\ Paid(s) => Paid(s)'
        /\ ExitedZero(s)' <=> ExitedZero(s)
    BY <1>1, <1>2, <1>4, <2>1, StatusesKnown, StepGoes
  <2>3. Unrun(s)' /\ pending'[s] = NONE BY <1>3, <1>5, <2>2 DEF Sound, Fresh
  <2>4. Mine(c)'
    <3>1. Unrun(step[c])' BY <2>1, <2>3 DEF Unrun
    <3> QED BY <1>2, <2>1, <2>2, <2>3, <3>1
        DEF Mine, Placed, Owns, Pays, Tells, Naming, Owning, Unstarted
  <2>5. Sound(s)' BY <1>3, <1>5, <2>2 DEF Sound, Fresh, Real
  <2> QED BY <1>6, <2>1, <2>4, <2>5, StatusesKnown
<1>9. CASE ParkStep(c)
  <2>1. /\ StepCAS(s, "RUNNING", "WAITING_APPROVAL") /\ pc[c] = "park_step"
        /\ CallTypes' /\ Others(c) /\ pc'[c] = "park_task" /\ step'[c] = s
    BY <1>1, <1>2, <1>9, GotoMoves DEF ParkStep, Label
  <2>2. /\ steps[s] = "RUNNING" /\ steps'[s] = "WAITING_APPROVAL"
        /\ Unrun(s)' <=> Unrun(s)
        /\ Paid(s) => Paid(s)'
        /\ ExitedZero(s)' <=> ExitedZero(s)
    BY <1>1, <1>2, <1>4, <2>1, StatusesKnown, StepGoes
  <2>3. Unrun(s) BY <1>1, <1>2, <2>1 DEF Mine, Owns, Unstarted
  <2>4. Mine(c)'
    BY <2>1 DEF Mine, Placed, Owns, Pays, Tells, Naming, Owning, Unstarted, HasStep
  <2>5. Sound(s)' BY <1>3, <1>5, <2>2, <2>3 DEF Sound, Fresh, Real
  <2> QED BY <1>6, <2>1, <2>4, <2>5, StatusesKnown DEF Owning
<1>10. CASE ResumeStep(c)
  <2>1. /\ StepCAS(s, "WAITING_APPROVAL", "RUNNING") /\ pc[c] = "resume_step"
        /\ CallTypes' /\ Others(c) /\ pc'[c] = "intent" /\ step'[c] = s
        /\ command'[c] = command[c]
    BY <1>1, <1>2, <1>10, GotoMoves DEF ResumeStep, Label
  <2>2. /\ steps[s] = "WAITING_APPROVAL" /\ steps'[s] = "RUNNING"
        /\ Unrun(s)' <=> Unrun(s)
        /\ Paid(s) => Paid(s)'
        /\ ExitedZero(s)' <=> ExitedZero(s)
    BY <1>1, <1>2, <1>4, <2>1, StatusesKnown, StepGoes
  <2>3. Unrun(s) BY <1>3, <2>2 DEF Sound, Fresh
  <2>4. command[c] \in CommandLines /\ pending[s] = command[c]
    BY <1>1, <1>2, <2>1 DEF Mine, Placed, Owns, Naming
  <2>5. Mine(c)'
    <3>1. Unrun(step[c])' BY <2>1, <2>2, <2>3 DEF Unrun
    <3> QED BY <1>2, <1>5, <2>1, <2>2, <2>4, <3>1
        DEF Mine, Placed, Owns, Pays, Tells, Naming, Owning, Unstarted
  <2>6. Sound(s)' BY <1>3, <1>5, <2>2, <2>3 DEF Sound, Fresh, Real
  <2> QED BY <1>6, <2>1, <2>5, <2>6, StatusesKnown
<1>11. CASE VerifyStep(c)
  <2>1. /\ StepCAS(s, "RUNNING", "VERIFYING") /\ pc[c] = "verify_step"
        /\ CallTypes' /\ Others(c) /\ pc'[c] = "complete_step" /\ step'[c] = s
    BY <1>1, <1>2, <1>11, GotoMoves DEF VerifyStep, Label
  <2>2. /\ steps'[s] = "VERIFYING"
        /\ Paid(s) => Paid(s)'
        /\ ExitedZero(s)' <=> ExitedZero(s)
        /\ Ran(s)' <=> Ran(s)
    BY <1>1, <1>2, <1>4, <2>1, StatusesKnown, StepGoes
  <2>3. Ran(s) BY <1>1, <1>2, <2>1 DEF Mine, Tells
  <2>4. Mine(c)'
    BY <1>2, <2>1, <2>2
    DEF Mine, Placed, Owns, Pays, Tells, Naming, Owning, Unstarted
  <2>5. Sound(s)' BY <1>3, <1>5, <2>2, <2>3 DEF Sound, Fresh, Real
  <2> QED BY <1>6, <2>1, <2>4, <2>5, StatusesKnown DEF Owning
<1>12. CASE CompleteStep(c)
  <2>1. /\ StepCAS(s, "VERIFYING", "COMPLETED") /\ pc[c] = "complete_step"
        /\ CallTypes' /\ Others(c) /\ pc'[c] = "check_steps" /\ step'[c] = s
    BY <1>1, <1>2, <1>12, GotoMoves DEF CompleteStep, Label
  <2>2. /\ steps[s] = "VERIFYING" /\ steps'[s] = "COMPLETED"
        /\ Paid(s) => Paid(s)'
        /\ ExitedZero(s)' <=> ExitedZero(s)
        /\ Ran(s)' <=> Ran(s)
    BY <1>1, <1>2, <1>4, <2>1, StatusesKnown, StepGoes
  <2>3. Mine(c)'
    BY <2>1 DEF Mine, Placed, Owns, Pays, Tells, Naming, Owning, Unstarted, HasStep
  <2>4. Sound(s)' BY <1>3, <1>5, <2>2 DEF Sound, Fresh, Real
  <2> QED BY <1>6, <2>1, <2>3, <2>4, StatusesKnown DEF Owning
<1>13. CASE FailStep(c)
  <2>1. /\ StepCAS(s, "RUNNING", "FAILED") \/ UNCHANGED plan
        /\ pc[c] = "fail_step"
        /\ CallTypes' /\ Others(c) /\ pc'[c] = "fail_task" /\ step'[c] = s
    BY <1>1, <1>2, <1>13, GotoMoves DEF FailStep, Label
  <2>2. CASE UNCHANGED plan
    <3>1. TypeOK' /\ Grown /\ \A x \in Steps : Kept(x)
      BY <1>1, <1>4, <2>1, <2>2, TaskTypes, StoreKept DEF plan, StoreTypes, TypeOK
    <3> QED BY <2>1, <3>1, BareMoves DEF Bare, Label, HasStep, Naming, Owning
  <2>3. CASE StepCAS(s, "RUNNING", "FAILED")
    <3>1. /\ steps'[s] = "FAILED"
          /\ Paid(s) => Paid(s)'
          /\ ExitedZero(s)' <=> ExitedZero(s)
      BY <1>1, <1>2, <1>4, <2>3, StatusesKnown, StepGoes
    <3>2. Mine(c)'
      BY <2>1 DEF Mine, Placed, Owns, Pays, Tells, Naming, Owning, Unstarted, HasStep
    <3>3. Sound(s)' BY <1>3, <1>5, <3>1 DEF Sound, Fresh, Real
    <3> QED BY <1>6, <2>1, <2>3, <3>2, <3>3, StatusesKnown DEF Owning
  <2> QED BY <2>1, <2>2, <2>3
<1> QED BY <1>7, <1>8, <1>9, <1>10, <1>11, <1>12, <1>13


LEMMA Appended ==
  ASSUME NEW S, NEW q \in Seq(S), NEW e \in S
  PROVE  /\ Append(q, e) \in Seq(S)
         /\ Len(Append(q, e)) = Len(q) + 1 /\ Len(q) \in Nat
         /\ DOMAIN Append(q, e) = DOMAIN q \cup {Len(q) + 1}
         /\ Len(q) + 1 \notin DOMAIN q
         /\ \A k \in DOMAIN q : Append(q, e)[k] = q[k]
         /\ Append(q, e)[Len(q) + 1] = e
BY AppendProperties, LenProperties

(* The actions that write records of a call's step                          *)
LEMMA RecordActions ==
  ASSUME IInv, NEW c \in Callers,
         \/ ProposeCommand(c) \/ TurnFails(c) \/ Report(c)
         \/ SavePending(c) \/ RecordIntent(c) \/ UpdateStatus(c)
         \/ SaveResult(c) \/ AttachResult(c)
  PROVE  IInv'
<1>1. StoreTypes /\ CallTypes /\ Mine(c) BY DEF IInv, TypeOK
<1>2. PICK s \in Steps : s = step[c]
  BY <1>1
  DEF ProposeCommand, TurnFails, Report, SavePending, RecordIntent,
      UpdateStatus, SaveResult, AttachResult, Attach, Mine, Placed, HasStep, Naming, Owning
<1>3. Sound(s) BY <1>2 DEF IInv
<1>4. UNCHANGED <<plan, tickets, runs>> /\ pc[c] \in Owning
  BY DEF ProposeCommand, TurnFails, Report, SavePending, RecordIntent,
         UpdateStatus, SaveResult, AttachResult, Attach, Owning
<1>5. /\ steps[s] = "RUNNING" /\ steps' = steps /\ runs' = runs
      /\ Unrun(s)' <=> Unrun(s)
      /\ ExitedZero(s)' <=> ExitedZero(s)
  BY <1>1, <1>2, <1>4
  DEF ProposeCommand, TurnFails, Report, SavePending, RecordIntent,
      UpdateStatus, SaveResult, AttachResult, Attach, Mine, Owns, Owning, plan, Unrun, ExitedZero
<1>6. Grown BY <1>4 DEF Grown
<1>7. ASSUME TypeOK', Others(c), Mine(c)', Sound(s)', step'[c] = s,
             \A x \in Steps : x # s => Kept(x),
             pending'[s] = pending[s] \/ pending[s] = NONE
      PROVE  IInv'
  <2>1. \A d \in Callers : d # c /\ pc[d] \in Owning => step[d] # s
    BY <1>2, <1>4, Alone
  <2> QED BY <1>2, <1>6, <1>7, <2>1, RowMoves
<1>8. CASE ProposeCommand(c) \/ TurnFails(c) \/ Report(c)
  <2>1. /\ pc[c] = "turn" /\ attached' = [attached EXCEPT ![s] = "AGENT_REPORT"]
        /\ CallTypes' /\ Others(c) /\ step'[c] = s
        /\ pc'[c] \in {"save_pending", "fail_step", "verify_step"}
        /\ pc'[c] = "save_pending" => command'[c] \in CommandLines
        /\ UNCHANGED <<plan, pending, tickets, intents, results, runs>>
    <3>1. CASE ProposeCommand(c)
      BY <1>1, <1>2, <3>1
      DEF ProposeCommand, Attach, To, CallTypes, Others, Still, Label
    <3>2. CASE TurnFails(c)
      BY <1>1, <1>2, <3>2, ProceedMoves DEF TurnFails, Attach, Label
    <3>3. CASE Report(c)
      BY <1>1, <1>2, <3>3, GotoMoves DEF Report, Attach, Label
    <3> QED BY <1>8, <3>1, <3>2, <3>3
  <2>2. pending[s] = NONE /\ Unrun(s)
    BY <1>1, <1>2, <2>1 DEF Mine, Owns, Unstarted
  <2>3. Unrun(step[c])' BY <1>5, <2>1, <2>2 DEF Unrun
  <2>4. Mine(c)'
    BY <1>2, <1>5, <2>1, <2>2, <2>3
    DEF Mine, Placed, Owns, Pays, Tells, Ran, Naming, Owning, Unstarted
  <2>5. Sound(s)' BY <1>3, <1>5, <2>1 DEF Sound, Fresh, Paid, Real
  <2>6. TypeOK' BY <1>1, <2>1 DEF TypeOK, StoreTypes, plan
  <2>7. \A x \in Steps : x # s => Kept(x)
    BY <1>1, <1>5, <2>1 DEF Kept, StoreTypes
  <2> QED BY <1>7, <2>1, <2>4, <2>5, <2>6, <2>7
<1>9. CASE SavePending(c)
  <2>1. /\ pc[c] = "save_pending" /\ pending' = [pending EXCEPT ![s] = command[c]]
        /\ CallTypes' /\ Others(c) /\ pc'[c] = "park_step" /\ step'[c] = s
        /\ UNCHANGED <<plan, tickets, intents, results, attached, runs>>
    BY <1>1, <1>2, <1>9, ProceedMoves DEF SavePending, Label
  <2>2. /\ pending[s] = NONE /\ Unrun(s) /\ command[c] \in CommandLines
    BY <1>1, <1>2, <2>1 DEF Mine, Owns, Placed, Unstarted
  <2>3. Unrun(step[c])' BY <1>5, <2>1, <2>2 DEF Unrun
  <2>4. Mine(c)'
    BY <1>2, <1>5, <2>1, <2>3
    DEF Mine, Placed, Owns, Pays, Tells, Naming, Owning, Unstarted
  <2>5. Sound(s)' BY <1>3, <1>5, <2>1, <2>2 DEF Sound, Fresh, Paid, Real, Unrun
  <2>6. TypeOK' BY <1>1, <2>1, <2>2 DEF TypeOK, StoreTypes, plan
  <2>7. \A x \in Steps : x # s => Kept(x)
    BY <1>1, <1>5, <2>1 DEF Kept, StoreTypes
  <2> QED BY <1>7, <2>1, <2>2, <2>4, <2>5, <2>6, <2>7
<1>10. CASE RecordIntent(c)
  <2>1. /\ pc[c] = "intent"
        /\ CallTypes' /\ Others(c) /\ pc'[c] = "consume" /\ step'[c] = s
        /\ command'[c] = command[c]
        /\ UNCHANGED <<plan, pending, tickets, results, attached, runs>>
        /\ intents' = [i \in DOMAIN intents \cup {<<s, command[c]>>} |->
                         IF i \in DOMAIN intents THEN intents[i]
                                                 ELSE "INTENT_RECORDED"]
    BY <1>1, <1>2, <1>10, GotoMoves DEF RecordIntent, Label, Intent
  <2>2. command[c] \in CommandLines /\ pending[s] = command[c] /\ Unrun(s)
    BY <1>1, <1>2, <2>1 DEF Mine, Owns, Placed, Naming, Unstarted
  <2>3. Unrun(step[c])' BY <1>5, <2>1, <2>2 DEF Unrun
  <2>4. /\ DOMAIN intents' = DOMAIN intents \cup {<<s, command[c]>>}
        /\ \A i \in DOMAIN intents : intents'[i] = intents[i]
        /\ \A i \in DOMAIN intents' \ DOMAIN intents : intents'[i] = "INTENT_RECORDED"
    BY <2>1
  <2>5. Intent(c)' \in DOMAIN intents' BY <2>1, <2>4 DEF Intent
  <2>6. Mine(c)'
    BY <1>2, <1>5, <2>1, <2>2, <2>3, <2>5
    DEF Mine, Placed, Owns, Pays, Tells, Naming, Owning, Unstarted
  <2>7. Sound(s)'
    BY <1>3, <1>5, <2>1, <2>2, <2>4 DEF Sound, Fresh, Paid, Real, Unrun
  <2>8. TypeOK' BY <1>1, <1>2, <2>1, <2>2, <2>4 DEF TypeOK, StoreTypes, plan
  <2>9. \A x \in Steps : x # s => Kept(x) BY <1>5, <2>1, <2>4 DEF Kept
  <2> QED BY <1>7, <2>1, <2>6, <2>7, <2>8, <2>9
<1>11. CASE UpdateStatus(c)
  <2>1. /\ pc[c] = "update" /\ result[c] \in {"SUCCEEDED", "FAILED"}
        /\ CallTypes' /\ Others(c) /\ step'[c] = s
        /\ pc'[c] = IF result[c] = "SUCCEEDED" THEN "save_result" ELSE "fail_step"
        /\ UNCHANGED <<plan, pending, tickets, results, attached, runs>>
        /\ intents' = [i \in DOMAIN intents |->
                         IF i = <<s, command[c]>> THEN result[c] ELSE intents[i]]
    <3>1. result[c] \in {"SUCCEEDED", "FAILED"}
      BY <1>1, <1>11 DEF UpdateStatus, Mine, Placed, CallTypes
    <3>2. \E l \in {"save_result", "fail_step"} : l \in Label /\ Proceed(c, l)
            /\ l = IF result[c] = "SUCCEEDED" THEN "save_result" ELSE "fail_step"
      BY <1>11, <3>1 DEF UpdateStatus, Label
    <3> QED BY <1>1, <1>2, <1>11, <3>1, <3>2, ProceedMoves
        DEF UpdateStatus, Mark, Intent
  <2>2. /\ command[c] \in CommandLines /\ pending[s] = command[c]
        /\ <<s, command[c]>> \in DOMAIN intents
        /\ result[c] = "SUCCEEDED" => ExitedZero(s)
    BY <1>1, <1>2, <2>1 DEF Mine, Owns, Placed, Pays, Tells, Naming, Intent
  <2>3. /\ DOMAIN intents' = DOMAIN intents
        /\ intents'[<<s, command[c]>>] = result[c]
        /\ \A i \in DOMAIN intents : i # <<s, command[c]>> => intents'[i] = intents[i]
    BY <2>1, <2>2
  <2>4. ExitedZero(step[c])' <=> ExitedZero(s)' BY <2>1 DEF ExitedZero
  <2>5. Mine(c)'
    BY <1>2, <1>5, <2>1, <2>2, <2>3, <2>4
    DEF Mine, Placed, Owns, Pays, Tells, Naming, Owning, Unstarted
  <2>6. Sound(s)' BY <1>3, <1>5, <2>1, <2>2, <2>3 DEF Sound, Fresh, Paid, Real
  <2>7. TypeOK' BY <1>1, <2>1, <2>2, <2>3 DEF TypeOK, StoreTypes, plan
  <2>8. \A x \in Steps : x # s => Kept(x) BY <1>5, <2>1, <2>3 DEF Kept
  <2> QED BY <1>7, <2>1, <2>5, <2>6, <2>7, <2>8
<1>12. CASE SaveResult(c)
  <2>1. /\ pc[c] = "save_result" /\ results' = results \cup {s}
        /\ CallTypes' /\ Others(c) /\ pc'[c] = "attach" /\ step'[c] = s
        /\ UNCHANGED <<plan, pending, tickets, intents, attached, runs>>
    BY <1>1, <1>2, <1>12, GotoMoves DEF SaveResult, Label
  <2>2. ExitedZero(s) /\ intents[<<s, pending[s]>>] = "SUCCEEDED"
    BY <1>1, <1>2, <2>1 DEF Mine, Tells
  <2>3. ExitedZero(step[c])' <=> ExitedZero(s)' BY <2>1 DEF ExitedZero
  <2>4. Mine(c)'
    BY <1>2, <1>5, <2>1, <2>2, <2>3
    DEF Mine, Placed, Owns, Pays, Tells, Naming, Owning, Unstarted
  <2>5. Sound(s)' BY <1>3, <1>5, <2>1, <2>2 DEF Sound, Fresh, Paid, Real
  <2>6. TypeOK' BY <1>1, <2>1 DEF TypeOK, StoreTypes, plan
  <2>7. \A x \in Steps : x # s => Kept(x) BY <1>5, <2>1 DEF Kept
  <2> QED BY <1>7, <2>1, <2>4, <2>5, <2>6, <2>7
<1>13. CASE AttachResult(c)
  <2>1. /\ pc[c] = "attach" /\ attached' = [attached EXCEPT ![s] = "COMMAND_RESULT"]
        /\ CallTypes' /\ Others(c) /\ pc'[c] = "verify_step" /\ step'[c] = s
        /\ UNCHANGED <<plan, pending, tickets, intents, results, runs>>
    BY <1>1, <1>2, <1>13, GotoMoves DEF AttachResult, Attach, Label
  <2>2. /\ ExitedZero(s) /\ intents[<<s, pending[s]>>] = "SUCCEEDED"
        /\ s \in results
    BY <1>1, <1>2, <2>1 DEF Mine, Tells
  <2>3. Ran(step[c])'
    <3>1. attached'[s] = "COMMAND_RESULT" BY <1>1, <2>1 DEF StoreTypes
    <3> QED BY <1>5, <2>1, <2>2, <3>1 DEF Ran, ExitedZero
  <2>4. Mine(c)'
    BY <1>2, <1>5, <2>1, <2>3
    DEF Mine, Placed, Owns, Pays, Tells, Naming, Owning, Unstarted
  <2>5. Sound(s)' BY <1>3, <1>5, <2>1, <2>2 DEF Sound, Fresh, Paid, Real
  <2>6. TypeOK' BY <1>1, <2>1 DEF TypeOK, StoreTypes, plan
  <2>7. \A x \in Steps : x # s => Kept(x)
    BY <1>1, <1>5, <2>1 DEF Kept, StoreTypes
  <2> QED BY <1>7, <2>1, <2>4, <2>5, <2>6, <2>7
<1> QED BY <1>8, <1>9, <1>10, <1>11, <1>12, <1>13


(* The actions on tickets and processes                                     *)
LEMMA TicketActions ==
  ASSUME IInv, NEW c \in Callers, IssueTicket(c) \/ ConsumeTicket(c)
  PROVE  IInv'
<1>1. StoreTypes /\ CallTypes /\ Mine(c) BY DEF IInv, TypeOK
<1>2. UNCHANGED <<plan, pending, intents, results, attached, runs>>
  BY DEF IssueTicket, ConsumeTicket
<1>3. \A x \in Steps : Kept(x) BY <1>2 DEF Kept, plan
<1>4. step[c] \in Steps /\ command[c] \in CommandLines /\ pending[step[c]] = command[c]
  BY <1>1 DEF IssueTicket, ConsumeTicket, Mine, Placed, Owns, HasStep, Naming
<1>5. CASE IssueTicket(c)
  <2> DEFINE e == [step |-> step[c], command |-> command[c], state |-> "usable"]
  <2>1. e \in Ticket /\ tickets \in Seq(Ticket) /\ tickets' = Append(tickets, e)
    BY <1>1, <1>4, <1>5 DEF IssueTicket, Ticket, StoreTypes
  <2>2. /\ tickets' \in Seq(Ticket)
        /\ \A t \in DOMAIN tickets : t \in DOMAIN tickets' /\ tickets'[t] = tickets[t]
    BY <2>1, Appended
  <2>3. /\ CallTypes' /\ Others(c) /\ pc[c] = "approve" /\ pc'[c] = "resume_task"
        /\ step'[c] = step[c] /\ command'[c] = command[c]
    BY <1>1, <1>5, GotoMoves DEF IssueTicket, Label
  <2>4. Mine(c)'
    BY <1>2, <1>4, <2>3
    DEF Mine, Placed, Owns, Pays, Tells, Naming, Owning, Unstarted
  <2>5. Grown BY <1>2, <2>2 DEF Grown
  <2>6. TypeOK' BY <1>1, <1>2, <2>2, <2>3 DEF TypeOK, StoreTypes, plan
  <2> QED BY <1>3, <2>3, <2>4, <2>5, <2>6, LocalMoves DEF Owning
<1>6. CASE ConsumeTicket(c)
  <2>1. PICK t \in Usable(c) :
          /\ tickets' = [tickets EXCEPT ![t].state = "used"]
          /\ run' = [run EXCEPT ![c] = t]
    BY <1>6 DEF ConsumeTicket
  <2>2. /\ t \in DOMAIN tickets /\ t \in Nat
        /\ tickets[t] =
             [step |-> step[c], command |-> command[c], state |-> "usable"]
    BY <1>1, <2>1, LenProperties DEF Usable, StoreTypes
  <2> DEFINE e == [step |-> step[c], command |-> command[c], state |-> "used"]
  <2>3. tickets' = [tickets EXCEPT ![t] = e] /\ e \in Ticket
    <3>1. [tickets[t] EXCEPT !.state = "used"] = e BY <2>2
    <3>2. tickets' = [tickets EXCEPT ![t] = [tickets[t] EXCEPT !.state = "used"]]
      BY <2>1
    <3>3. e \in Ticket BY <1>4 DEF Ticket
    <3> QED BY <3>1, <3>2, <3>3
  <2>4. /\ tickets' \in Seq(Ticket) /\ DOMAIN tickets' = DOMAIN tickets
        /\ tickets'[t] = e
        /\ \A u \in DOMAIN tickets : u # t => tickets'[u] = tickets[u]
    <3>1. tickets' \in Seq(Ticket)
      BY <1>1, <2>2, <2>3, LenProperties, ExceptSeq DEF StoreTypes
    <3> QED BY <2>2, <2>3, <3>1
  <2>5. /\ CallTypes' /\ Others(c) /\ pc[c] = "consume" /\ pc'[c] = "start"
        /\ step'[c] = step[c] /\ command'[c] = command[c] /\ run'[c] = t
    BY <1>1, <1>6, <2>1, <2>2
    DEF ConsumeTicket, To, CallTypes, Others, Still, Label
  <2>6. Unrun(step[c]) /\ Intent(c) \in DOMAIN intents /\ steps[step[c]] = "RUNNING"
    BY <1>1, <2>5 DEF Mine, Owns, Pays, Unstarted, Owning
  <2>7. Unrun(step[c])' /\ Intent(c)' \in DOMAIN intents' /\ steps'[step[c]] = "RUNNING"
    BY <1>2, <2>5, <2>6 DEF Unrun, Intent, plan
  <2>8. Mine(c)'
    BY <1>2, <1>4, <2>2, <2>4, <2>5, <2>7
    DEF Mine, Placed, Owns, Pays, Tells, Naming, Owning, Unstarted
  <2>9. Grown BY <1>2, <2>2, <2>4 DEF Grown
  <2>10. TypeOK' BY <1>1, <1>2, <2>4, <2>5 DEF TypeOK, StoreTypes, plan
  <2> QED BY <1>3, <2>5, <2>8, <2>9, <2>10, LocalMoves DEF Owning
<1> QED BY <1>5, <1>6

LEMMA ProcessStarts ==
  ASSUME IInv, NEW c \in Callers, StartProcess(c)
  PROVE  IInv'
<1>1. StoreTypes /\ CallTypes /\ Mine(c) BY DEF IInv, TypeOK
<1>2. PICK s \in Steps : s = step[c]
  BY <1>1 DEF StartProcess, Mine, Placed, HasStep, Naming
<1>3. Sound(s) BY <1>2 DEF IInv
<1>4. UNCHANGED <<plan, records>> /\ pc[c] = "start" BY DEF StartProcess
<1>5. /\ command[c] \in CommandLines /\ pending[s] = command[c]
      /\ steps[s] = "RUNNING" /\ Unrun(s)
      /\ <<s, command[c]>> \in DOMAIN intents
      /\ run[c] \in DOMAIN tickets
      /\ tickets[run[c]] = [step |-> s, command |-> command[c], state |-> "used"]
  BY <1>1, <1>2, <1>4
  DEF Mine, Placed, Owns, Pays, Naming, Owning, Unstarted, Intent
<1> DEFINE e == [step |-> s, command |-> command[c],
                 ticket |-> run[c], exit |-> "running"]
           n == Len(runs) + 1
<1>6. e \in Process /\ runs \in Seq(Process) /\ runs' = Append(runs, e)
  BY <1>1, <1>2, <1>5 DEF StartProcess, Process, StoreTypes, CallTypes
<1>7. /\ runs' \in Seq(Process) /\ Len(runs') = n /\ n \in Nat
      /\ DOMAIN runs' = DOMAIN runs \cup {n} /\ n \notin DOMAIN runs
      /\ \A k \in DOMAIN runs : runs'[k] = runs[k]
      /\ runs'[n].step = s /\ runs'[n].command = command[c]
      /\ runs'[n].ticket = run[c]
  BY <1>6, Appended
<1>8. /\ CallTypes' /\ Others(c) /\ pc'[c] = "wait"
      /\ step'[c] = s /\ command'[c] = command[c] /\ run'[c] = n
  BY <1>1, <1>2, <1>7 DEF StartProcess, To, CallTypes, Others, Still, Label
<1>9. TypeOK' BY <1>1, <1>4, <1>7, <1>8 DEF TypeOK, StoreTypes, plan, records
<1>10. Grown BY <1>4, <1>7 DEF Grown, records
<1>11. \A x \in Steps : x # s => Kept(x) BY <1>4, <1>7 DEF Kept, plan, records
<1>12. /\ pending' = pending /\ intents' = intents /\ tickets' = tickets
       /\ results' = results /\ steps' = steps
  BY <1>4 DEF plan, records
<1>13. Mine(c)'
  <2>1. Intent(c)' \in DOMAIN intents' BY <1>5, <1>8, <1>12 DEF Intent
  <2> QED BY <1>2, <1>5, <1>7, <1>8, <1>12, <2>1
      DEF Mine, Placed, Owns, Pays, Tells, Naming, Owning, Unstarted
<1>14. Paid(s)' BY <1>5, <1>7, <1>12 DEF Paid, Unrun
<1>15. ExitedZero(s) => ExitedZero(s)' BY <1>7 DEF ExitedZero
<1>16. Sound(s)' BY <1>3, <1>5, <1>12, <1>14, <1>15 DEF Sound, Fresh, Real
<1>17. \A d \in Callers : d # c /\ pc[d] \in Owning => step[d] # s
  BY <1>2, <1>4, Alone DEF Owning
<1> QED BY <1>8, <1>9, <1>10, <1>11, <1>12, <1>13, <1>16, <1>17, RowMoves

LEMMA ProcessEnds ==
  ASSUME IInv, NEW r \in DOMAIN runs, ProcessExits(r)
  PROVE  IInv'
<1>1. StoreTypes /\ CallTypes BY DEF IInv, TypeOK
<1>2. UNCHANGED <<plan, records, locals>> /\ runs[r].exit = "running"
  BY DEF ProcessExits
<1>3. PICK code \in {"zero", "nonzero"} : runs' = [runs EXCEPT ![r].exit = code]
  BY DEF ProcessExits
<1>4. runs[r] \in Process /\ [runs[r] EXCEPT !.exit = code] \in Process
  BY <1>1, RunElement DEF Process
<1>5. runs' = [runs EXCEPT ![r] = [runs[r] EXCEPT !.exit = code]] BY <1>3
<1>6. /\ runs' \in Seq(Process) /\ DOMAIN runs' = DOMAIN runs
      /\ \A k \in DOMAIN runs : k # r => runs'[k] = runs[k]
      /\ runs'[r].step = runs[r].step /\ runs'[r].command = runs[r].command
      /\ runs'[r].ticket = runs[r].ticket
  <2>1. runs' \in Seq(Process)
    BY <1>1, <1>4, <1>5, LenProperties, ExceptSeq DEF StoreTypes
  <2> QED BY <1>4, <1>5, <2>1 DEF Process
<1>7. /\ task' = task /\ latest' = latest /\ steps' = steps
      /\ pending' = pending /\ tickets' = tickets /\ intents' = intents
      /\ results' = results /\ attached' = attached
      /\ pc' = pc /\ rev' = rev /\ seen' = seen /\ step' = step
      /\ command' = command /\ run' = run /\ result' = result
  BY <1>2 DEF plan, records, locals
<1>8. TypeOK' BY <1>1, <1>6, <1>7 DEF TypeOK, StoreTypes, CallTypes
<1>9. ASSUME NEW x
      PROVE  /\ Unrun(x) => Unrun(x)'
             /\ ExitedZero(x) => ExitedZero(x)'
             /\ Ran(x) => Ran(x)'
             /\ Paid(x) => Paid(x)'
  <2>1. Unrun(x) => Unrun(x)' BY <1>6 DEF Unrun
  <2>2. ExitedZero(x) => ExitedZero(x)' BY <1>2, <1>6 DEF ExitedZero
  <2>3. Ran(x) => Ran(x)' BY <1>7, <2>2 DEF Ran
  <2>4. \A k \in DOMAIN runs : /\ runs'[k].step = runs[k].step
                               /\ runs'[k].command = runs[k].command
                               /\ runs'[k].ticket = runs[k].ticket
    BY <1>6
  <2>5. Paid(x) => Paid(x)' BY <1>6, <1>7, <2>4 DEF Paid
  <2> QED BY <2>1, <2>2, <2>3, <2>5
<1>10. ASSUME NEW d \in Callers PROVE Mine(d)'
  <2>1. Mine(d) BY DEF IInv
  <2>2. PICK x : x = step[d] BY <1>7
  <2>3. Placed(d)' BY <1>7, <2>1 DEF Mine, Placed
  <2>4. Owns(d)'
    <3>1. Unrun(step[d]) => Unrun(step[d])' BY <1>7, <1>9, <2>2 DEF Unrun
    <3> QED BY <1>7, <2>1, <3>1 DEF Mine, Owns
  <2>5. Pays(d)'
    <3>1. Intent(d)' = Intent(d) BY <1>7 DEF Intent
    <3>2. \A k \in DOMAIN runs : runs'[k].step = runs[k].step BY <1>6
    <3> QED BY <1>6, <1>7, <2>1, <3>1, <3>2 DEF Mine, Pays
  <2>6. Tells(d)'
    <3>1. ExitedZero(step[d]) => ExitedZero(step[d])'
      BY <1>7, <1>9, <2>2 DEF ExitedZero
    <3>2. Ran(step[d]) => Ran(step[d])' BY <1>7, <3>1 DEF Ran
    <3> QED BY <1>7, <2>1, <3>1, <3>2 DEF Mine, Tells
  <2> QED BY <2>3, <2>4, <2>5, <2>6 DEF Mine
<1>11. ASSUME NEW x \in Steps PROVE Sound(x)'
  BY <1>7, <1>9 DEF IInv, Sound, Fresh, Real
<1>12. \A d, e \in Callers : Apart(d, e)' BY <1>7 DEF IInv, Apart
<1> QED BY <1>8, <1>10, <1>11, <1>12 DEF IInv

LEMMA TicketExpires ==
  ASSUME IInv, NEW t \in DOMAIN tickets, ExpireTicket(t)
  PROVE  IInv'
<1>1. StoreTypes /\ CallTypes BY DEF IInv, TypeOK
<1>2. /\ tickets[t].state = "usable"
      /\ tickets' = [tickets EXCEPT ![t].state = "expired"]
      /\ UNCHANGED <<plan, pending, intents, results, attached, runs, locals>>
  BY DEF ExpireTicket
<1>3. tickets[t] \in Ticket /\ [tickets[t] EXCEPT !.state = "expired"] \in Ticket
  BY <1>1, TicketElement DEF Ticket
<1>4. tickets' = [tickets EXCEPT ![t] = [tickets[t] EXCEPT !.state = "expired"]]
  BY <1>2
<1>5. tickets' \in Seq(Ticket)
  BY <1>1, <1>3, <1>4, LenProperties, ExceptSeq DEF StoreTypes
<1>6. TypeOK' BY <1>1, <1>2, <1>5 DEF TypeOK, StoreTypes, CallTypes, plan, locals
<1>7. Grown BY <1>2 DEF Grown
<1>8. \A x \in Steps : Kept(x) BY <1>2 DEF Kept, plan
<1> QED BY <1>2, <1>6, <1>7, <1>8, WorldMoves

----
LEMMA InitSatisfies == Init => IInv
<1> SUFFICES ASSUME Init PROVE IInv OBVIOUS
<1>1. DOMAIN tickets = {} /\ DOMAIN runs = {} /\ DOMAIN intents = {}
  BY EmptySeq DEF Init
<1>2. StoreTypes
  <2>1. tickets \in Seq(Ticket) /\ runs \in Seq(Process) BY EmptySeq DEF Init
  <2>2. latest \in Revisions BY PlansAreDisjoint DEF Init, Revisions
  <2> QED BY <1>1, <2>1, <2>2 DEF Init, StoreTypes, TaskStatus, StepStatus
<1>3. CallTypes BY PlansAreDisjoint DEF Init, CallTypes, Label, Revisions
<1>4. \A c \in Callers : Mine(c)
  BY DEF Init, Mine, Placed, Owns, Pays, Tells, HasStep, Naming, Owning, Unstarted
<1>5. \A c, d \in Callers : Apart(c, d) BY DEF Init, Apart, Owning
<1>6. \A s \in Steps : Sound(s)
  BY <1>1 DEF Init, Sound, Fresh, Paid, Real, Unrun
<1> QED BY <1>2, <1>3, <1>4, <1>5, <1>6 DEF IInv, TypeOK

LEMMA NextKeeps == IInv /\ [Next]_vars => IInv'
<1> SUFFICES ASSUME IInv, [Next]_vars PROVE IInv' OBVIOUS
<1>1. CASE UNCHANGED vars
  <2>1. UNCHANGED <<steps, records, runs>> /\ UNCHANGED locals /\ UNCHANGED plan
    BY <1>1 DEF vars, plan
  <2>2. TypeOK'
    BY <2>1 DEF IInv, TypeOK, StoreTypes, CallTypes, plan, records, locals
  <2> QED BY <2>1, <2>2, StoreKept, WorldMoves
<1>2. ASSUME NEW c \in Callers,
             (\E o \in Operations : Call(c, o)) \/ Continue(c) \/ Abort(c)
      PROVE  IInv'
  BY <1>2, BareActions, LocalActions, StatusActions, RecordActions,
     TicketActions, ProcessStarts DEF Continue
<1>3. ASSUME NEW r \in DOMAIN runs, ProcessExits(r) PROVE IInv'
  BY <1>3, ProcessEnds
<1>4. ASSUME NEW t \in DOMAIN tickets, ExpireTicket(t) PROVE IInv'
  BY <1>4, TicketExpires
<1> QED BY <1>1, <1>2, <1>3, <1>4 DEF Next

(* Every reachable state satisfies the invariant of the calls and the       *)
(* steps: a call past a claim or a resume owns its step alone.              *)
THEOREM Invariance == Spec => []IInv
BY InitSatisfies, NextKeeps, PTL DEF Spec

(* The rows and the calls have the values the code can give them.           *)
THEOREM TypeCorrect == Spec => []TypeOK
<1>1. IInv => TypeOK BY DEF IInv
<1> QED BY <1>1, Invariance, PTL

LEMMA RunHasStep ==
  ASSUME IInv, NEW k \in DOMAIN runs
  PROVE  runs[k].step \in Steps /\ Paid(runs[k].step)
<1>1. runs[k].step \in Steps BY RunElement DEF IInv, TypeOK, Process
<1> QED BY <1>1 DEF IInv, Sound

(* No command of a step is ever started twice, however many calls run,      *)
(* recover, replan and approve at once and wherever they are cut off.       *)
THEOREM OneRun == Spec => []OneRunPerStep
<1>1. IInv => OneRunPerStep
  <2> SUFFICES ASSUME IInv, NEW j \in DOMAIN runs, NEW k \in DOMAIN runs,
                      runs[j].step = runs[k].step
               PROVE  j = k
    BY DEF OneRunPerStep
  <2>1. Paid(runs[k].step) BY RunHasStep
  <2> QED BY <2>1 DEF Paid
<1> QED BY <1>1, Invariance, PTL

(* Every process was paid for by a used ticket of its own, for the command  *)
(* the model proposed, with its intent on record.                           *)
THEOREM ApprovedRuns == Spec => []RunsAreApproved
<1>1. IInv => RunsAreApproved
  <2> SUFFICES ASSUME IInv, NEW k \in DOMAIN runs
               PROVE  /\ runs[k].ticket \in DOMAIN tickets
                      /\ tickets[runs[k].ticket] =
                           [step |-> runs[k].step, command |-> runs[k].command,
                            state |-> "used"]
                      /\ \A j \in DOMAIN runs :
                           runs[j].ticket = runs[k].ticket => j = k
                      /\ pending[runs[k].step] = runs[k].command
                      /\ <<runs[k].step, runs[k].command>> \in DOMAIN intents
    BY DEF RunsAreApproved
  <2>1. ASSUME NEW j \in DOMAIN runs
        PROVE  tickets[runs[j].ticket].step = runs[j].step
    <3>1. Paid(runs[j].step) BY RunHasStep
    <3>2. tickets[runs[j].ticket] =
            [step |-> runs[j].step, command |-> runs[j].command, state |-> "used"]
      BY <3>1 DEF Paid
    <3> QED BY <3>2
  <2>2. Paid(runs[k].step) BY RunHasStep
  <2>3. \A j \in DOMAIN runs : runs[j].ticket = runs[k].ticket => j = k
    BY <2>1, <2>2 DEF Paid
  <2> QED BY <2>2, <2>3 DEF Paid
<1> QED BY <1>1, Invariance, PTL

(* An intent on record as SUCCEEDED and a stored command result belong to a *)
(* process that exited zero.                                                *)
THEOREM SuccessTrue == Spec => []SuccessIsReal
<1>1. IInv => SuccessIsReal
  <2> SUFFICES ASSUME IInv PROVE SuccessIsReal OBVIOUS
  <2>1. ASSUME NEW i \in DOMAIN intents, intents[i] = "SUCCEEDED"
        PROVE  ExitedZero(i[1])
    <3>1. PICK s \in Steps, k \in CommandLines : i = <<s, k>>
      BY DEF IInv, TypeOK, StoreTypes
    <3>2. Real(s) /\ i[1] = s BY <3>1 DEF IInv, Sound
    <3> QED BY <2>1, <3>1, <3>2 DEF Real
  <2>2. ASSUME NEW s \in results PROVE ExitedZero(s)
    BY DEF IInv, TypeOK, StoreTypes, Sound, Real
  <2> QED BY <2>1, <2>2 DEF SuccessIsReal
<1> QED BY <1>1, Invariance, PTL

(* A step that proposed a command is verified and completed only over a run *)
(* of it that exited zero and whose evidence is attached.                   *)
THEOREM CompletedRan == Spec => []CompletedCommandRan
<1>1. IInv => CompletedCommandRan
  BY DEF IInv, Sound, Real, Ran, CompletedCommandRan
<1> QED BY <1>1, Invariance, PTL
=============================================================================
