# A TLA+ verification of SimplenessAgent

SimplenessAgent runs software-engineering tasks with a language model: a *task*
has a versioned *plan* of *steps*, a worker lets the model carry out one step at
a time, and everything the model wants to change waits for a user's approval.
All control state is in one SQLite file, which the desktop application and the
command line open side by side. This directory holds TLA+ models of that
control state, TLC runs that check them on small instances, and theorems about
them checked by TLAPS.

Paths below are relative to the repository (`src/`).

## 1. The system

### Components

| Component | Code | State it keeps | Operations |
|---|---|---|---|
| state machine | `internal/task/state.go`, `pkg/contracts/types.go` | none: a table of task transitions, terminal sets | `CanTransition`, `Terminal` |
| event store | `internal/storage/store.go`, `internal/eventstore` | rows of tasks, plans, steps; `events` with a number per task; `checkpoints` | `TransitionTask`, `TransitionStep`, `CreatePlan`, `NextSequence`, `SaveCheckpoint` |
| service runtime | `internal/app/service.go` | nothing between calls | `CreateTask`, `GeneratePlan`, `ReplanTask`, `RunTask`, `RunModelStep`, `RunModelPlan`, `ApprovePendingWrite`, `ApprovePendingCommand`, `VerifyTask`, `RecoverRunningTask` |
| long-horizon runtime | `internal/app/long_horizon.go`, `internal/storage/horizon.go` | one JSON row per task: stage, counters, checkpoint flag, status | `AdvanceLongHorizonTask`, `ResumeLongHorizonTask`, `CancelLongHorizonTask` |
| segment planner, stage verifier | `internal/horizon` | none | one model call each, repaired once |
| worker | `internal/worker/worker.go` | a conversation, token and call counters, for one step | `Run`: turns, retries, validation of tool calls |
| provider | `internal/provider/openai` | the answer under assembly | `Chat`, `ChatStream`, `ProbeCapabilities` |
| intents, approvals, writes | `internal/storage/intents.go`, `internal/tool/write.go`, `service.go` | intents, one-use tickets, the files | `ApproveWriteFile`, `WriteFile`, `executeProjectCommand` |
| agents | `internal/storage/agents.go`, `service.go` | assignments with a status | `AssignReadOnlyAgent`, `RunAssignedAgent`, `RunCoordinatorCycle`, `RecoverRunningAgentAssignments` |
| plan DAG, scheduler | `internal/plan/validate.go`, `internal/scheduler` | none | `Validate`, `ReadySteps`, `ComputeReadySet` |
| verifier, artifacts | `internal/verifier`, `internal/artifact` | evidence and artifact rows | `VerifyTask`, `Put` |
| desktop, CLI | `desktop/`, `cmd/simpleness` | the open conversation | bindings and commands that call the service |

The rest (context compiler, skills, memory, conversations, credentials,
diagnostics, evaluation fixtures) is I/O or text and keeps no protocol state;
`PROJECT.json` lists each with the reason it is left out.

### How they interact

A binding of the desktop or a command of the CLI calls a service method. The
method reads rows with separate queries, decides on its copies, calls a model
provider or a tool for seconds or minutes, and then writes one row per
statement. There is no lock across a method and no transaction around it. What
holds the system together is

* every status write is `UPDATE ... WHERE status = from`, in one transaction
  with its event, whose number is unique within the task;
* the transition table refuses moves that are not legal from `from`;
* a step, proposal, report or plan is written before the status that
  announces it.

So the hard behaviours are: two calls that overlap (desktop and CLI, or two
bindings); data read before a model call and used after it; a call cut off
between two of its statements by an error, a cancelled context or the end of
the process; budgets counted in one row and spent in another; and loops that
must end (`RunModelPlan`, the desktop's `runLongCycles`). The horizon row has no
compare: `SaveHorizon` is an upsert of a copy read when the call began.

### What makes each part correct

* event store: the numbers of a task's events have no gap, no event is
  replaced, the events replay to the status rows, a terminal status is final;
* single-plan runtime: no step is executed by two calls or twice, a task that
  waits for an approval has one to give, a completed step has its evidence, a
  completed task was verified, replans stay within the budget, calls return;
* long horizon: stages are passed in order, a checkpoint stage is left by the
  user only, completion follows the last stage, the horizon and the task
  agree, the driving loop stops;
* writes: every replacement of a file has a ticket of its own for exactly this
  path, content and expected content, its intent is on record before it, an
  intent marked `SUCCEEDED` tells the truth, a step is verified only after every
  file of its proposal was written;
* worker: every request is a conversation the provider accepts, an answer runs
  whole or not at all, no mutating action begins twice, output stays within the
  budget, a step is verified only with its duty done, the step settles;
* provider: a completed answer is what was streamed, and it comes last;
* plans and scheduler: an accepted plan never waits for itself, the scheduler
  starts ready steps that fit the slots and conflict with nothing that runs;
* agents: one call executes an assignment, and a succeeded one has handed over
  results of its own step;
* commands: the command of a step starts once at most, under a one-use ticket and
  an intent of its own, a recorded success exited zero, and a step that proposed
  a command is verified only after its command was.

`PROJECT.json` lists the hazards at their lines with the properties that would
catch them.

## 2. Modules

| Module | What it is |
|---|---|
| `TaskStates` | statuses, terminal sets, the transition table and the step moves the service makes |
| `Journal` | abstract promise of the event store: one history, moved and annotated atomically |
| `EventLog` | the store as written: number read first, transaction later, checkpoints in two reads |
| `MCEventLog` | instance for TLC |
| `EventLogProofs` | theorems about `EventLog`, for all constants |
| `TaskRuntime` | one single-plan task and the calls that drive it |
| `MCTaskRuntime` | plans for TLC |
| `TaskRuntimeProofs` | theorems about `TaskRuntime`, for all constants |
| `LongHorizon` | one `INCREMENTAL_HORIZON` task and the calls that drive it |
| `MCLongHorizon` | stages and segments for TLC |
| `LongHorizonProofs` | theorems about `LongHorizon`, for all constants |
| `ApprovedWrites` | abstract promise of the write path: an approval is spent on one recorded replacement, at one moment |
| `ToolIntents` | from a proposal to the replaced file: tickets, intents, the checks of the file, beside other programs that edit it |
| `MCToolIntents` | proposals and workspaces for TLC |
| `ToolIntentsProofs` | theorems about `ToolIntents`, for all constants |
| `Commands` | from a proposed command to its evidence: tickets, intents, child processes, over plan revisions |
| `MCCommands` | plans for TLC |
| `CommandsProofs` | theorems about `Commands`, for all constants |
| `Provider` | what a provider call may end with: statuses, broken connections, an ended context, calls that cannot be ordered |
| `ProviderStream` | one streamed answer, chunk by chunk, for the application or for the capability probe |
| `MCProviderStream` | pieces of names and arguments for TLC |
| `ProviderStreamProofs` | theorems about `ProviderStream`, for all constants |
| `WorkerLoop` | one run of the worker and what `RunModelStep` makes of its result |
| `MCWorkerLoop` | answers of a model for TLC |
| `WorkerLoopProofs` | theorems about `WorkerLoop`, for all constants |
| `PlanGraph` | what makes a plan acceptable, its ready steps, the scheduler's choice: operators |
| `Agents` | assignments of read-only agents beside other runs, recovery and replans of the task |
| `MCAgents` | plans for TLC |
| `AgentsProofs` | theorems about `Agents` and `PlanGraph`, for all constants |

`TaskRuntime`, `LongHorizon`, `ToolIntents` and `Commands` share `TaskStates` and look at the
same rows at different depth: a step's life is in full in `TaskRuntime`, the
stages above it in `LongHorizon`, the write inside an approval in
`ToolIntents`, the command inside an approval in `Commands`.
`WorkerLoop` is what `TaskRuntime` takes as one turn of the worker, over the
provider errors of `Provider`, which `ProviderStream` shares. `Agents` composes
`PlanGraph` with a short form of the runtime.

### EventLog and Journal

`state` is the status column of the task and its steps, `events` and
`checkpoints` are the tables, `call[c]` is what a call has read. A status move
is `BeginMove` (validate against the believed status, `NextSequence`) and
`CommitMove` (the compare, the update and the insert of one transaction, or
nothing); a plan's event is `BeginNote`, `CommitNote`; `Abandon` is a rollback
or a dead process. `CheckpointTask` is `ReadStatus`, `ReadEvents`,
`CompareCheckpoint`, `SaveCheckpoint`. In `Journal` a move is one step that
changes a subject's status and appends its row; the mapping takes `events` to a
sequence.

### TaskRuntime

The store is `status`, `plans` (revision n at position n), `steps`, `evidence`,
`attached`, `pending` (proposals) and `finals` (final reports). A call has a
label `pc[c]` for the statement it is about to execute and the locals the code
holds: the status it read (`seen`), the revision, the step, what to write
(`was`, `after`, `passed`). Each action is one statement, named for what it
does: `LoadTask`, `LoadPlan`, `PickReady`, `ClaimStep`, `Execute`,
`SaveReport`, `Attach`, `ParkStep`, `VerifyTask`, `Decide` and so on. `Abort`
ends a call after any of them. A turn of the worker is a choice of outcomes
(done, a proposal, a question, an error); `ExecutionFails` is the error of an approved
command, or of a reconnaissance, which fails its task with whichever statement
failed, those that save and attach its report included; what files and commands make of the
task's criterion is a choice too, while the evidence criterion reads the
model's evidence. Checkpoints read only and are not steps.

### LongHorizon

The store is the task's `status`, the `horizon` row, `plans` (stage, terminal
segment or not, steps) and `steps`; `late` says that the deadline has passed or
the tokens are spent. A call is one record: the statement it is at, its copies
of the task status (`item`) and of the horizon (`my`), the plan and step it
works on. Every call ends in `Save`, which writes the copy over whatever the
row holds. `AdvanceLongHorizonTask` is `AdvanceOver`, `AdvanceResolved`,
`AdvanceWaits` and `AdvanceWorks`, then `LoadPlan` with the budgets, then one of
`CreateSegment` (planner), `Run` ... `Record` (one step) and `CloseFailed`,
`CloseCompleted`, `Assess`, `Park`, `MoveToVerifying`, `Decide` (the end of a
segment, a stage, the task). `Fail` is `recordHorizonFailure` with its automatic
replan. Resume, cancel and the approvals are modelled the same way. `answered`
is a history variable: the stages that a user let begin.

The life of a step is shortened (`PENDING` stands for `PENDING` and `READY`,
`RUNNING` for `RUNNING` and `VERIFYING`) because `TaskRuntime` has it in full.
Counters are kept up to the values the code tells apart: `idle` up to 3,
`replans` up to one more than the budget. The stage index is not capped: two
loops that close one stage after the other, with a user who resumes in between,
push it past the last stage. `WAITING` is `WAITING_CHECKPOINT`.

### ToolIntents

One task and one `WRITE` step in `EDIT` mode. The store is `task`, `step`,
`pending` (stored proposals), `tickets` (approvals, oldest first) and `intents`
(the status of every recorded input); `files` is the workspace, which an editor
changes at any time (`EditFile`). A call is `pc`, `op`, the writes it works
through (`batch`), the one it is at (`at`) and the tool's answer (`result`); an
input stands for its hash. The path of a write is `WriteContext`, `RecordIntent`,
`CheckTarget`, `ConsumeTicket`, `Recheck`, `Rename`, `UpdateStatus`, and a file is
looked at three times on it: when the batch is validated, before the ticket is
consumed and after. `ToolFails` and `TurnFails` are the error returns, `Abort` a
call cut off anywhere, `ExpireTicket` the end of a ticket's life. `held` (the
ticket a call paid with), `effects` (the replacements, in order) and `past` (all
the workspace ever held) are history variables.

`ApprovedWrites` is what this is for, without calls, checks and crashes: approvals
are given, withdrawn or spent, and spending one replaces its file, at once, if the
intent is on record; a report of success needs the content to have been there. The
mapping reads a ticket as its input (`Approved`), as still to be spent while it is
usable or in the hand of a call that has not written yet (`InHand`), and the
replacements as the tickets that paid for them (`Spent`). `Rename` is `Replace`;
an expired ticket, or a call that ends with a ticket in hand, is `Withdraw`.

### Commands

One task in `EDIT` mode whose steps may propose a command, and the plan that
replaces its plan. The store is `task`, `latest`, `steps`, `pending` (the
`PENDING_COMMAND` artifact of a step), `tickets`, `intents`, `results` and
`attached` (the kind of artifact a step's ids name: `AttachStepResults` replaces
them). A child process is an element of `runs`, an actor of its own: it exits
when it likes (`ProcessExits`), and after `Abort` its exit code reaches nobody.
`RunModelStep` goes from `PickStep` to `ParkTask`, `ApprovePendingCommand` from
`LoadTask` to `ResumeStep` and on through `executeProjectCommand` (`RecordIntent`,
`ConsumeTicket`, `StartProcess`, `Collect`, `UpdateStatus`) and
`persistCommandResult` (`SaveResult`, `AttachResult`) to the verification of the
step. `RecoverRunningTask` and `ReplanTask` may come at any time. A call gives at
most one proposal, as the worker returns at the first result that waits for an
approval. The branch of `executeProjectCommand` without approval has no caller
and is left out.

### Provider and ProviderStream

`Provider` names the ways a call ends: the HTTP statuses the adapter tells apart
(`StatusError`), a connection that breaks (`TransportError`), an ended context
(`ContextError`), a body that is no answer (`ReadError`); `Orderable` and
`OrderedToolCalls` are `orderedToolCalls`, which wants consecutive indexes from 0,
a name and arguments that are JSON. `ProviderStream` reads `data:` lines one by one
(`ReadChunk`), may be refused by its sink (`SinkRefuses`), broken off
(`StreamBreaks`, `StreamEnds`, `MalformedEvent`) or completed (`ReadDone`, then
`Complete` or `Unordered`). `events` is what the sink got. The probe runs the same
stream between its other requests; a sink error is the application's only, as
the probe's sink accepts everything. A chunk carries a piece of text, of
reasoning or of a call; the line of the code that has text and a call gives two
chunks. In the program as it is only the probe calls `ChatStream`; the
application's sink is modelled from the interface and its tests. What the probe
claims (`snapshot`) is the outcome of each request written down by the statement
that follows it, and has its types only.

### WorkerLoop

`pc` is the place in `Run`: `prepare` (limits of the iteration), `chat` and
`backoff` (`chatWithRetry`), `answered` (the answer is judged), `batch` (its calls
run), `returned`, and `settled` after `RunModelStep`. An action is a tool with its
normalised arguments, so "the same action again" is equality; the arguments
themselves are classes: fine, refused by the tool's schema (`BadArguments`), no
JSON (`Malformed`, refused by the provider already). Token counts come from small
sets. `Invoke` and `Collect` are separate because the context can end between
them (`DropResult`: the result of a write that took place is lost, its intent
stays `INTENT_RECORDED`). `duty` is what the step must not end without: a
long-horizon write step owes a mutating call (`write`), a single plan for a goal
that asks for one owes a direct action (`action`). `Settle` is `RunModelStep` after
`Run`: the intents take the status of the last result of their action, and the
step moves on; a cancelled caller writes nothing. `effects` and `invoked` are
history variables.

### PlanGraph and Agents

`PlanGraph` has `Validate` with the depth-first `findCycle` as a recursive function
over its states (`Explored` is one turn of it), `ReadySteps`, `validateStepPolicy`, `validateReplan`,
`ComputeReadySet` and `WriteConflictChecker`. `Agents` keeps the rows of the task,
its plans, steps, assignments and handoffs. `FindStep`, `ListAssignments`,
`CheckAssignment`, `CreateAgentAssignment` are a coordinator's reads and insert,
`LoadAssignment`, `StartAssignment` and the rest an assignment's run,
`FindRunning`, `CloseRunning`, `PauseTask` the recovery. Several reads of one check
are one action, `RunModelStep` is three, `ReplanTask` one: `TaskRuntime` has them
statement by statement. The coordinator and the assignments are reached through
`task coordinate` of the command line (`cmd/simpleness/main.go:270-298`); recovery of
assignments is reached by tests and a task that is still `RUNNING`.

## 3. Runs

| Run | Instance | Shows |
|---|---|---|
| `event_log` | 2 writers, task and one step, 6 events, 1 checkpoint | replay, checkpoints not ahead of the log, refinement of `Journal`, append-only, terminal statuses final |
| `task_runtime_approvals` | 2 calls; creation, both runners, both approvals; two proposing steps, chained or independent | one executor per step, waiting is approvable, evidence, verification, no replay |
| `task_runtime_replan` | 2 calls; creation, plan, replan, run, recovery; 2 revisions | one executor per step although an old runner outlives the recovery and the replan of its task, the replan budget against rival replans, and that calls return |
| `long_horizon` | one driving loop and one user who resumes and cancels; a checkpoint stage and the last stage; failing steps; a deadline | order of stages, checkpoints, completion |
| `long_horizon_loop` | one caller doing everything; two stages, segments of one and two steps; failing model, steps and store | the loop stops |
| `tool_intents` | 2 calls; the model's proposal of one or two files, its approval, a direct write, recovery; 2 tickets, one edit | a ticket per write, intent before write, truthful intents, complete batches; refinement of `ApprovedWrites` |
| `commands` | 2 calls; runs, approvals, recovery, replans; a plan of one step and its successor; 2 tickets; processes that outlive their call | one run per step, paid and recorded, true successes, verification after the command |
| `provider_stream` | 3 lines of text, reasoning and pieces of two calls, every failure between any two | the answer is what was streamed, and comes last |
| `worker_loop` | 3 iterations; answers of no, one, two or too many calls, good and bad; every class of provider failure; failing tools, questions, proposals; a context that ends anywhere | well-formed requests, whole answers, mutations once, output budget, duties; under weak fairness of the call, that the step settles |
| `agents` | 2 calls that coordinate, run steps or recover; replans; plans of up to 3 steps with and without cycles, conflicting writes, plans refused for each reason | one call per assignment, backed successes, plans that keep going, the scheduler's choice |

Two runs exhibit a disagreement between the code and what the repository says
of it; each checks one property and fails:

| Run | What happens |
|---|---|
| `long_horizon_skipped_stage` | two overlapping `Advance` calls: one saves a stale stage, the other closes a first-stage segment as the last; the task completes with a stage never planned |
| `agents_write_step` | the assigned `READ` step is finished by another call between the coordinator's check and its run; `RunModelStep` chooses the next ready step, and the read-only agent executes a `WRITE` step |

### Bounds, and why they are enough

Two concurrent calls: the status rows are shared by compare-and-set and the
horizon row by overwriting, and each hazard listed is one call's stale read
against another's write. The theorems remove this bound, and those on data, from every
safety property of the passing runs (section 4). Six events are the four of `CreateTask` and two more, enough for
two writers to hold the same number, one to lose and a reader to see each
order; one checkpoint is enough, as it depends on no other.

`MaxRevisions = 2` (a plan and its successor) lets old runners meet a new plan;
`MaxRevisions = 1` keeps the approvals run to one plan with two steps of either
order. `MaxReplans = 1` reaches both sides of the replan budget.

`MaxPlans = 3` is the creation's plan and two segments; `MaxSteps` is small
enough to run out. Two stages reach first, middle (a checkpoint before another
stage) and last.

`MaxTickets = 2` covers a batch of two files, or an approval and its repetition;
`MaxEdits = 1` puts one foreign change between any two looks at a file. The
proposals overlap in one file, so that two calls contend for it. In `commands`
two tickets are two approvals of one step, or one each of a step and of the step
that replaces it; a plan and its successor let an old approval meet a new step.

`MaxLines = 3` is a call in two pieces with text before it, or two calls; the
properties relate lines pairwise. `MaxIterations` is a budget of the program:
three iterations hold a repair, a repetition of what ran before, and an end by
the last iteration. Two prompt
sizes are below and above the soft limit, the larger one compacts to either; two
output sizes keep and break the answer's limit, and the budget can be raised
once. `CallLimit = 2` is exceeded by an answer of three. The code's limits
(`maxToolCallsPerResponse` and the 8, 9 tenths of the window) are parameters or kept.

`MaxAssignments = 2` is an assignment and the next of the same step or of another;
`MaxPlans = 2` a plan and its successor; three steps hold a cycle longer than two,
and `MaxConcurrent = 2` a running step beside a candidate.

`MaxEvents`, `MaxCheckpoints`, `MaxRevisions`, `MaxPlans`, `MaxTickets`, `MaxEdits`,
`MaxLines` and `MaxAssignments` are bounds of the instances, not of the code; every
other constant is a parameter of the program.

Symmetry over callers is used where the callers are interchangeable and every
property of the run is a safety property. `CHECK_DEADLOCK FALSE` is set where
the bounds or a finished task let the system stop.

The type invariants are proved (section 4) and not run.

### Fairness

`WF(Continue(c) \/ Abort(c))`: a call in flight executes its next statement or
ends. Go runs every goroutine, provider calls have a timeout, and a statement
that fails returns an error. Nothing forces a call to be made, except
`SF(Call(c, "Advance"))` in `LongHorizon`: the loop of the desktop
(`desktop/frontend/src/stores/app.ts`, `runLongCycles`) and the user of
`task advance` call again as long as the task is active. `LoopStops` says that
such a loop comes to a horizon that is not `ACTIVE`, a task that is over, or an
error, again and again; it does not need a user to act.

`WF_vars(Run)` in `WorkerLoop`: the goroutine of the run goes on. Its one long wait
is a provider call, which the client's timeout and the step's deadline end, and a
tool has a timeout of its own. `ContextEnds` has no fairness: `StepSettles` holds
without a deadline or a cancellation ever coming.

## 4. Proofs

`EventLogProofs`, for any callers, steps and bounds:

* `Invariance`: the inductive invariant `TypeOK /\ Pending`. That the numbers of
  the log have no gap is not preserved by an insert under any free number, so
  `Pending` adds what a caller remembers: every number below the one it holds was
  taken when it read the counter. Inserting under a number that is still free
  can then only append (`InsertIsAppend`).
* `TypeCorrect`, `ReplayCorrect`, `Finality`, `LogIsAppendOnly` follow from it.
* `CheckpointsReached`: with `Reached`, that the status a caller of
  `CheckpointTask` has read was given by some task event no later than the number
  it files the checkpoint under. Events stay, so this stays true whatever is
  written before the checkpoint is.
* `Refinement`: `EventLog` implements `Journal`. `CommitMove` and `CommitNote` map
  to its steps, everything else to stuttering.

`TaskRuntimeProofs`, for any callers, operations, plans, budgets and bounds:

* `Invariance`: `TypeOK`, and for every call `StepKnown` (it writes only rows that
  exist) and `StepHeld` (the step it executes has the status it believes in),
  with `OneExecutorPerStep` and `OneVerifier`. `OneExecutorPerStep` alone is not
  inductive: `UPDATE ... WHERE status = from` protects a step only because the
  call that executes it knows its status.
* `TypeCorrect`, `OneExecutor`, `SingleVerifier`, and `NoReplay` from the fact that
  steps only move forward.
* `Evidenced`: with `EvidenceInv`, what each call has already put on record when
  it reaches the statement that completes a step.
* `Verified`: with `VerifiedInv`, what a call that is about to complete the task
  has read and stored.
* `BudgetKept`: with `BudgetInv`, the revision a replan compared with the budget
  when it was read and the unique revision number under which it stores.
* `WaitingIsFounded`: a task in `WAITING_APPROVAL` has a step in `WAITING_APPROVAL`
  with a stored proposal, whatever plans there are. The proposal is stored before
  the step is parked (`ProposalInv`). That there is such a step is not inductive, as
  two runners can each park one and two approvals resume them in the other order.
  `Covered` counts instead, by matching: a waiting task, a call that parked its step
  and not yet the task, and a call that resumed the task and not yet its step have
  each a waiting step to themselves, though not always the one they are about.
* `WaitingCanBeApproved`: `WaitingIsApprovable`, that this step is in the latest plan,
  where both approvals look. It assumes `NoNewPlans`, no `GeneratePlan` and no
  `ReplanTask` among the operations, as in the approvals run. Both are needed
  (section 6, stranded approval).

`LongHorizonProofs`, for any stages, segments, policies, budgets and faults. First for
any callers and any operations:

* `Invariant`: the types, `CheckpointRespected`, and that the row and every copy of it
  a call may still save are `Good`: completed only if the task is, awaiting only a
  stage behind the first, and at a stage behind a checkpoint only while awaiting or
  with the user's consent. `Sane` says at which statements a call has such a copy,
  and that one which plans, runs or closes a segment has one that awaits nothing.
  The row is overwritten by copies of any age, so nothing weaker than "every copy is
  good, and what made it good is never taken back" (`Grows`) is inductive.
* `TypeCorrect`, `CheckpointHolds` and `CompletedTogetherHolds` follow from it.

Then for at most one driving loop and one user (`OneOfEach`), who may overlap at every
statement, as in the run:

* `OrderInvariant`: with `SInv`, that the segments follow the stages (`InOrder`), that
  the row and all copies are `Abreast` of the segments (the stages before theirs have
  passed, and an open latest segment is not of an earlier stage), and that the
  driver's copy is `Led` (the row is never at a later stage than it, and the latest
  segment is the one it reads), a user's copy `Follows` (never at a later stage than
  the row).
* `StagesOrdered` follows, and `CompletionIsLast` if `ApproveWrite` is not among the
  operations. One loop is needed, as `long_horizon_skipped_stage` has two, and so is
  the absence of `ApproveWrite`, which completes the task whatever the stage (section
  6). One user is what the argument uses: another one could save an older copy
  over the row, and the first one's copy would then be ahead of it. TLC has not
  refuted the order of stages for two users.

`ToolIntentsProofs`, for any callers, operations, files, proposals and bounds:

* `Invariant`: `TypeOK`, and for every call `Placed` (it is at one of its writes),
  `Pays` (the ticket it holds is used, is for the write in hand and paid for
  nothing yet) and `OnRecord` (the intent of that write is stored), no two calls
  holding one ticket (`Apart`), with `OneTicketPerWrite` and
  `RecordedBeforeWritten`. `OneTicketPerWrite` speaks of replacements made; `Pays`
  and `Apart` carry it over the statements between consuming a ticket and the
  rename.
* `TypeCorrect`, `TicketsUsedOnce` and `IntentsComeFirst` follow from it.
* `CompletedIsWhole`: with `BInv`, that an approval works on the proposal that is still
  the newest, that each write before the one it is at was seen in the workspace, and
  that one call at a time has the step in hand, so that nobody stores another
  proposal meanwhile. It assumes what `SucceededIsTrue` does.
* `ImplementsApproved`: `ToolIntents` implements `ApprovedWrites`, action by action, from
  `Invariant` and `TInv`: a rename finds its ticket in hand and its intent on record
  (`Pays`, `OnRecord`), a success reported has been seen. The same assumption.
* `SucceededIsTrue`: with `TInv`, what an answering tool saw in the workspace. It
  assumes `EMPTY \notin Contents`: no proposal writes an empty file. Without the
  assumption it is false (section 6, the empty file).

`WorkerLoopProofs`, for any actions, answers, failures, token counts, budgets and
numbers of iterations:

* `Invariance`: the types, and `Shape`: what belongs to an answer is there only
  while it is worked through, its calls are then allowed, and each read it repeats
  has a result to be answered with. Without `Shape` a replay could look up a result
  that is not there, and `TypeOK` would not be inductive.
* `TypeCorrect` follows: in particular `Run` returns no error but the named ones.
* `ConversationHolds` with `Conversation`: the messages kept are well-formed, and the
  replies of a batch are tool messages, one for each of its calls that is neither
  queued nor to be replayed, so that they make the messages well-formed again when
  the batch is over. `ConversationValid` speaks of requests sent only.
* `EffectsOnce` and `WholeAnswers` with `Once`: what a step has begun it has seen,
  and the calls still queued are new, distinct and of one accepted answer, except
  the one whose result is awaited.
* `DutyHolds` with `Trace` (one result per mutating action, after its effect; a
  record only of what has begun) and `Duty` (what each way to end with success
  leaves behind: a result, a question or a proposal).
* `OutputBounded` with `Within`: what an iteration may still add to the tokens spent.
  This is arithmetic with products, which a small instance hardly tests.

`AgentsProofs`, for any callers, candidate plans, tools and bounds:

* `Invariance`: the types, what each call holds at each label, that no two calls
  execute one assignment, and what backs a stored success.
* `TypeCorrect`, `ExecutedOnce`, `SuccessBacked` follow from it.
* `SchedulerAgrees`: `ReadySetsAgree` for every plan that was accepted; it needs that
  an accepted plan has no id twice, as the code looks steps up by position in one
  place and by id in another.
* `CyclesAreFound`: `findCycle` is right, for plans of any size: it refuses a plan whose
  dependencies are within it exactly when there is a `Trap`, a set of steps each of
  which needs another of the set. The argument needs no induction over data. The
  equation of the recursive search has a solution, the least set of walks closed
  under it (`LeastIsClosed`, `SearchIs`). Every walk reached is `Faithful`: the trail is
  a path without repetition, what it has looked at is done or further along, and
  what is marked as being visited is on it. Every move shrinks `Size` (dependencies
  to look at, steps to visit, steps to finish), so a set of faithful walks that
  always go on is empty (`SearchEnds`). With a trap, the walks that have finished no
  step of it and raise no alarm would be such a set (`TrapIsFound`); without one, so
  would those that raise one later (`FoundIsTrap`).
* `PlanNeverStuck`: `PlanKeepsGoing`, as the plan in force was accepted (`Accepted`) and
  the unfinished steps of a plan with nothing ready would be a trap.

`CommandsProofs`, for any callers, operations, plans, commands and bounds:

* `Invariance`: the types; for every call `Mine`, that is `Placed` (it has a step and
  a command where it needs them), `Owns` (the step it works on has the status it
  believes in, and nothing has run for it before its own process), `Pays` (the
  used ticket it is about to start a process with) and `Tells` (what it is about
  to write down is true); `Apart`, no two calls own one step or hold one ticket;
  and for every step `Sound`, how its proposal, process, intent, result and
  status go together. `OneRunPerStep` is not inductive without them: nothing in
  the store forbids a second start, what forbids it is that only the owner of a
  `RUNNING` step starts one and a step is never `WAITING_APPROVAL` again.
* `TypeCorrect`, `OneRun`, `ApprovedRuns`, `SuccessTrue`, `CompletedRan` follow from it.

`ProviderStreamProofs`, for any pieces, indexes and windows and streams of any length:

* `Invariance`: the types; `Underway`, that until `ChatStream` returns the counter is
  the number of events the sink has and none of them is the last; with
  `CompletedIsLast`, which alone is not inductive: another chunk could follow the
  completed answer if it did not end the call.
* `TypeCorrect`, `CompletedEnds` follow from it.
* `AnswerWasStreamed` with `Following`: while the stream is under way the text deltas
  handed on, joined, are the text under assembly, and the last delta of each index
  is the call collected under it. The property is stated over positions of the
  events, not over a filtered sequence, so that it needs no induction.

Assumptions on the constants are the named `ASSUME`s of the modules: distinct
subjects and natural bounds, plans with at least one step and dependencies
inside the plan (what `plan.Validate` accepts), operations from the known list,
proposals that name at least one file, natural budgets. A negative `MaxReplans`, which `ReplanTask` reads as unlimited
(`service.go:461`), is not modelled.

### Only model-checked

* `CallsReturn`, `LoopStops`, `StepSettles`: liveness under fairness is out of
  the prover's reach, as are `ENABLED`, induction over recursively defined data,
  and modules that use `RECURSIVE` operators.
* Where a theorem has a hypothesis on operations, loops or contents, TLC shows that
  it is needed: `WaitingIsApprovable` is refuted with `GeneratePlan` among the operations, and with recovery and replans;
  `CompletedAfterAllStages` with two loops, and with an approved write;
  `SucceededMeansWritten` with an empty file. The passing runs name their operations
  and contents for this reason.

## 5. What is abstracted

* Data: goals, prompts, file contents, paths, times and token counts. A criterion
  other than evidence is one choice of the workspace.
* A model's answer is any answer the validation behind it lets through, or an
  error.
* Events appear in `EventLog` only; in the other modules an event is part of the
  status write whose transaction carries it.
* SQLite is taken to be serializable: one statement or transaction is one step.
* In `TaskRuntime` the tickets and intents of an approved write are inside
  `WriteFiles`; they are the subject of `ToolIntents`, which in turn leaves the
  task when it moves to `VERIFYING`.
* In `ToolIntents` the status check of `ApproveWriteFile` and the insert of the
  ticket are one step, and so are the temporary file and its rename.
* `Commands` leaves out questions to the user and proposed writes (`TaskRuntime`,
  `ToolIntents`). Output and time are one choice: a process that exited zero may
  still be recorded as failed, for its deadline or the length of its output. It
  also ends with the move to `VERIFYING`.
* `WorkerLoop` has no contents: compaction keeps every message, and the text of an
  answer, a tool result or an instruction is nothing. Usage counts output tokens
  only; prompts are drawn anew each iteration. That a tool's Go error ends the run
  is left out: `tool.Invoke` returns one for an unregistered tool only, and the
  validation before it refuses those.
* `ProviderStream` leaves out usage, message ids and finish reasons.
* `Agents` leaves out the contents of handoffs and what a replan was asked for.

## 6. Findings

Two are runs (section 3). Seven more disagreements are described here; the models
reproduce the first six, the seventh can be read off the code:

* *Stranded approval.* `GeneratePlan` adds a revision whatever the task's status
  (`service.go:435`). On a task in `WAITING_APPROVAL` the pending proposal belongs
  to the old plan, both approvals look in the new one and fail, and no other
  operation accepts the task; `service.go:387` says it "does not alter task state,
  so callers may review the plan before running". `WaitingIsApprovable` fails when
  `GeneratePlan` is among the operations of `TaskRuntimeApprovals.cfg`. It also fails
  with `ReplanTask` and `RecoverRunningTask` there, without `GeneratePlan`: a runner is
  held up between parking its step and parking the task (`service.go:1924`),
  recovery pauses the task, a replan stores a new plan, another runner starts it, and
  the first then parks the task on a step of the old plan.
* *Stuck in VERIFYING.* A call cut off after the move to `VERIFYING`
  (`service.go:2011`) leaves a task that no operation accepts, while
  `Docs/02-核心模块与功能规格.md:199` promises recovery from any legal state.
* *Approved long-horizon write.* `ApprovePendingWrite` verifies and completes the
  task without asking for its strategy (`service.go:793`), as `completeModelStep`
  does (`:2008`): the first approved write ends a long-horizon task in `IMPLEMENT`.
  `CompletedAfterAllStages` fails with `ApproveWrite` among the operations.
* *Stale batch.* `ApprovePendingWrite` compares all files once and then works for
  many statements before the first rename (`service.go:759`); a file edited in
  between leaves a batch half applied, where `tool/proposal.go:185` says that "no
  batch begins writing after one of its files has become stale".
* *Empty file.* `checkExpectedContent` hashes a missing file as an empty one
  (`tool/write.go:118`): a write of an empty new file is answered "already contains
  requested content", recorded `SUCCEEDED`, and no file exists.
  `SucceededMeansWritten` fails with `EMPTY` among the contents.
* *Late second approval.* An approval that has passed its checks for one step
  (`service.go:960-974`) and is held up while that step completes and the next one
  comes to wait moves the task from `WAITING_APPROVAL` to `RUNNING`
  (`service.go:992`) and then fails on its own step (`:995`): the next step waits
  under a running task and can be approved no more. No crash is needed.
  `Commands` reaches it with one plan of two steps; it runs nothing twice.
* *Plan order.* `RunModelPlan` selects steps "in their persisted plan order, including
  when a DAG has multiple independent ready nodes" (`service.go:2031`), but
  `RunModelStep` takes the first of `ReadySteps`, which sorts the ids as strings
  (`plan/validate.go:86`): two independent steps that the plan lists as `s2`, `s10` run
  in the order `s10`, `s2`. The modules take the steps in
  id order, as the code does, so no property compares the two orders. The scheduler
  (`ComputeReadySet`) does go in plan order.

Met while modelling, and not stated as a property: a read is answered from the
cache although a write came after it (`worker.go:320`); a last batch of only
replayed reads still finalises the step as new evidence (`worker.go:219`);
`cumulativeExceeded` cannot fire for a step with an output budget, as
`OutputBounded` shows (`worker.go:751`); two `DANGEROUS` steps never conflict for the
scheduler, and two steps it newly selects are not compared with each other
(`scheduler.go:102`); an assignment is `SUCCEEDED` although its step waits for the
user (`service.go:1524`); a crash leaves an assignment `RUNNING` that blocks its
step's coordinator until a recovery that no command calls. `FINALIZE`
reached with a task that is `READY` can never be closed
(`long_horizon.go:448`); a user's answer to a question costs a replan, as the
step that asked is failed (`long_horizon.go:205`); a cancel is overwritten in
the horizon row by a call that was in flight (`long_horizon.go:265`), though not
in the task row; a failed approval between `service.go:767` and `:770` leaves a
waiting step under a running task; a checkpoint reads the task, then the events,
so the status it stores can be older than the event it is filed under
(`service.go:2195`); approving the write of the first of two steps verifies and
completes the task, and the second step never runs (`service.go:793`); a stop
between storing a segment and saving the horizon leaves steps that run but are
not counted (`long_horizon.go:326`); an edit that lands between `writeChecked`'s
second look at the file and its rename is lost (`tool/write.go`); and a write that
passed `writeContext` lands after `RecoverRunningTask` has paused the task.

## 7. Plan

Done: `EventLog`, `Journal`, `TaskRuntime`, `LongHorizon`, `ToolIntents` with
`ApprovedWrites`, `Commands`, `WorkerLoop`, `Agents` with `PlanGraph`, `ProviderStream`
with `Provider`, and the proof of every safety property their passing runs check.

To come: an abstract specification of `Commands` in the manner of `ApprovedWrites`, in
which a ticket pays for one recorded run; the order of stages for several users
beside one loop, or the run that refutes it.

### Not modelled

* Patches behind an approval: file I/O under the same ticket as a write.
* Context compilation, token estimates, skills, memory: what a prompt contains.
* Conversations, deployments, credentials: single rows without a protocol.
* Diagnostics, prompts, evaluation fixtures, build files: no protocol state.
* A negative `MaxReplans`, and repair of text by the planners: see sections 4 and 2.
