----------------------------- MODULE ToolIntents -----------------------------
(***************************************************************************)
(* How a proposed change reaches the workspace in EDIT mode: the proposal  *)
(* and its approval (internal/app/service.go), the durable intents and the *)
(* one-use tickets (internal/storage/intents.go) and the checked replace   *)
(* of a file (internal/tool/write.go).  One task, one WRITE step.          *)
(*                                                                         *)
(* Files are outside the store: an editor changes them at any time, and a  *)
(* write looks at its file three times (proposal, CheckTarget, Recheck)    *)
(* before it replaces it.  A call ends after any statement: Abort.         *)
(***************************************************************************)
EXTENDS Naturals, Sequences, TaskStates

CONSTANTS
  Callers,     (* calls that may be in flight together                     *)
  Operations,  (* the service methods they call                            *)
  Paths,       (* files of the workspace                                   *)
  Contents,    (* what files and proposals hold                            *)
  ABSENT,      (* there is no such file                                    *)
  Original,    (* the workspace at the start                               *)
  Batches,     (* the sequences of writes a model may propose              *)
  MaxTickets,  (* bound: no ticket is issued beyond it                     *)
  MaxEdits     (* bound on edits by other programs                         *)

EMPTY == "EMPTY"

(* PendingWrite, WriteFileInput: the arguments the ticket and the intent    *)
(* are bound to through their hash.  A hash stands for what it is taken of. *)
Input == [path : Paths, content : Contents, expected : Contents \cup {EMPTY}]

ASSUME WorkspaceIsFiles ==
  ABSENT \notin Contents /\ Original \in [Paths -> Contents \cup {ABSENT}]

ASSUME BatchesAreInputs ==
  Batches \subseteq Seq(Input) /\ << >> \notin Batches

Inputs == UNION {{writes[k] : k \in DOMAIN writes} : writes \in Batches}

AllOperations ==
  {"RunModelStep", "ApprovePendingWrite", "ApproveWriteFile", "WriteFile",
   "RecoverRunningTask"}

ASSUME OperationsKnown == Operations \subseteq AllOperations

ASSUME BoundsNat == MaxTickets \in Nat /\ MaxEdits \in Nat

VARIABLES
  task, step,  (* tasks.status, and steps.status of the step               *)
  pending,     (* PENDING_WRITE artifacts, oldest first                    *)
  tickets,     (* approvals, oldest first                                  *)
  intents,     (* tool_calls: status of every input recorded               *)
  files,       (* the workspace                                            *)
  pc, op, batch, at, result,   (* the calls                                *)
  held,        (* history: the ticket a call consumed for its write        *)
  effects,     (* history: the replacements, each with its ticket          *)
  past,        (* history: every <<path, content>> the workspace had       *)
  edits        (* history: edits made, for the bound                       *)

store   == <<task, step, pending, tickets, intents>>
history == <<effects, past, edits>>
locals  == <<pc, op, batch, at, result, held>>
vars    == <<store, files, locals, history>>

NONE == "NONE"

(* hash(nil) = hash(""): ReadFile of a missing file gives no bytes.         *)
HashOfFile(path) == IF files[path] = ABSENT THEN EMPTY ELSE files[path]

Stale(input) == HashOfFile(input.path) # input.expected
Current(c) == batch[c][at[c]]

To(c, label) == pc' = [pc EXCEPT ![c] = label]

Goto(c, label) == To(c, label) /\ UNCHANGED <<op, batch, at, result, held>>

Begin(c, o, label, writes) ==
  /\ To(c, label)
  /\ op' = [op EXCEPT ![c] = o]
  /\ batch' = [batch EXCEPT ![c] = writes]
  /\ at' = [at EXCEPT ![c] = 1]
  /\ result' = [result EXCEPT ![c] = NONE]
  /\ held' = [held EXCEPT ![c] = 0]

Return(c) == Begin(c, NONE, "idle", << >>)

(* the same call goes on and has no more use for its writes                 *)
Proceed(c, label) == Begin(c, op[c], label, << >>)

(* on to the next write of the batch, or to the first                       *)
Write(c, k, label) ==
  /\ To(c, label)
  /\ at' = [at EXCEPT ![c] = k]
  /\ result' = [result EXCEPT ![c] = NONE]
  /\ UNCHANGED <<op, batch, held>>

(* TransitionTask, TransitionStep: UPDATE ... WHERE status = from           *)
TaskCAS(from, to) ==
  task = from /\ task' = to /\ UNCHANGED <<step, pending, tickets, intents>>
StepCAS(from, to) ==
  step = from /\ step' = to /\ UNCHANGED <<task, pending, tickets, intents>>

Outside == UNCHANGED <<files, history>>

Init ==
  /\ task = "RUNNING" /\ step = "READY"
  /\ pending = << >> /\ tickets = << >> /\ intents = << >>
  /\ files = Original
  /\ pc = [c \in Callers |-> "idle"]
  /\ op = [c \in Callers |-> NONE]
  /\ batch = [c \in Callers |-> << >>]
  /\ at = [c \in Callers |-> 1]
  /\ result = [c \in Callers |-> NONE]
  /\ held = [c \in Callers |-> 0]
  /\ effects = << >>
  /\ past = {<<p, Original[p]>> : p \in Paths}
  /\ edits = 0

----
Call(c, o) ==
  /\ pc[c] = "idle"
  /\ IF o \in {"ApproveWriteFile", "WriteFile"}
     THEN \E input \in Inputs :
            Begin(c, o, IF o = "WriteFile" THEN "context" ELSE "approve",
                  <<input>>)
     ELSE Begin(c, o, CASE o = "RunModelStep"        -> "claim"
                        [] o = "ApprovePendingWrite" -> "load_task"
                        [] o = "RecoverRunningTask"  -> "pause", << >>)
  /\ UNCHANGED store /\ Outside

(* return err, a cancelled context, a dead process                          *)
Abort(c) ==
  /\ pc[c] # "idle"
  /\ Return(c)
  /\ UNCHANGED store /\ Outside

(* RunModelStep claims the step; the model proposes a batch, whose files    *)
(* are compared with what it expects (propose_file_batch), ...              *)
ClaimStep(c) ==
  /\ pc[c] = "claim"
  /\ StepCAS("READY", "RUNNING")
  /\ Goto(c, "propose")
  /\ Outside

(* ValidateProposalRequest: no file twice, none stale                       *)
Valid(writes) ==
  /\ \A j, k \in DOMAIN writes : writes[j].path = writes[k].path => j = k
  /\ \A k \in DOMAIN writes : ~Stale(writes[k])

Propose(c) ==
  /\ pc[c] = "propose"
  /\ \E writes \in Batches :
       Valid(writes) /\ batch' = [batch EXCEPT ![c] = writes]
  /\ To(c, "save_pending")
  /\ UNCHANGED <<store, op, at, result, held>> /\ Outside

(* ... the proposal is stored, the step parked and then the task.           *)
SavePending(c) ==
  /\ pc[c] = "save_pending"
  /\ pending' = Append(pending, batch[c])
  /\ Proceed(c, "park_step")
  /\ UNCHANGED <<task, step, tickets, intents>> /\ Outside

ParkStep(c) ==
  /\ pc[c] = "park_step"
  /\ StepCAS("RUNNING", "WAITING_APPROVAL")
  /\ Goto(c, "park_task")
  /\ Outside

ParkTask(c) ==
  /\ pc[c] = "park_task"
  /\ TaskCAS("RUNNING", "WAITING_APPROVAL")
  /\ Return(c)
  /\ Outside

(* RecoverRunningTask                                                       *)
PauseTask(c) ==
  /\ pc[c] = "pause"
  /\ TaskCAS("RUNNING", "PAUSED")
  /\ Return(c)
  /\ Outside

----
(* ApprovePendingWrite: the task waits, the step waits and its proposal is  *)
(* stored; the newest one counts.                                           *)
LoadTask(c) ==
  /\ pc[c] = "load_task"
  /\ task = "WAITING_APPROVAL"
  /\ Goto(c, "load_pending")
  /\ UNCHANGED store /\ Outside

LoadPending(c) ==
  /\ pc[c] = "load_pending"
  /\ step = "WAITING_APPROVAL"
  /\ pending # << >>
  /\ batch' = [batch EXCEPT ![c] = pending[Len(pending)]]
  /\ To(c, "validate")
  /\ UNCHANGED <<store, op, at, result, held>> /\ Outside

ValidateBatch(c) ==
  /\ pc[c] = "validate"
  /\ Valid(batch[c])
  /\ Goto(c, "approve")
  /\ UNCHANGED store /\ Outside

(* ApproveWriteFile: a ticket with one use for exactly this input           *)
IssueTicket(c) ==
  /\ pc[c] = "approve"
  /\ task \notin TaskTerminal
  /\ Len(tickets) < MaxTickets
  /\ tickets' = Append(tickets, [input |-> Current(c), state |-> "usable"])
  /\ IF op[c] = "ApproveWriteFile" THEN Return(c)
     ELSE IF at[c] < Len(batch[c]) THEN Write(c, at[c] + 1, "approve")
     ELSE Write(c, 1, "resume_task")
  /\ UNCHANGED <<task, step, pending, intents>> /\ Outside

ResumeTask(c) ==
  /\ pc[c] = "resume_task"
  /\ TaskCAS("WAITING_APPROVAL", "RUNNING")
  /\ Goto(c, "resume_step")
  /\ Outside

ResumeStep(c) ==
  /\ pc[c] = "resume_step"
  /\ StepCAS("WAITING_APPROVAL", "RUNNING")
  /\ Goto(c, "context")
  /\ Outside

----
(* WriteFile.  writeContext: only while task and step are RUNNING.          *)
WriteContext(c) ==
  /\ pc[c] = "context"
  /\ task = "RUNNING" /\ step = "RUNNING"
  /\ Goto(c, "intent")
  /\ UNCHANGED store /\ Outside

\* Mutant: the intent is left to the status update.
IntentLater(c) ==
  /\ pc[c] = "intent"
  /\ Goto(c, "check")
  /\ UNCHANGED store /\ Outside

(* RecordToolIntentWithEvent: a recorded input keeps its row and status     *)
RecordIntent(c) ==
  /\ pc[c] = "intent"
  /\ intents' = [i \in DOMAIN intents \cup {Current(c)} |->
                   IF i \in DOMAIN intents THEN intents[i]
                                           ELSE "INTENT_RECORDED"]
  /\ Goto(c, "check")
  /\ UNCHANGED <<task, step, pending, tickets>> /\ Outside

Answer(c, status) ==
  /\ result' = [result EXCEPT ![c] = status]
  /\ held' = [held EXCEPT ![c] = 0]
  /\ To(c, "update")
  /\ UNCHANGED <<op, batch, at>>

(* checkExpectedContent: the file is what is asked for already, or what the *)
(* input expects, or neither                                                *)
CheckedOr(c, label) ==
  LET input == Current(c)
  IN  IF HashOfFile(input.path) = input.content THEN Answer(c, "SUCCEEDED")
      ELSE IF Stale(input) THEN Answer(c, "FAILED")
      ELSE Goto(c, label)

CheckTarget(c) ==
  /\ pc[c] = "check"
  /\ CheckedOr(c, "consume")
  /\ UNCHANGED store /\ Outside

\* Mutant: the UPDATE without AND uses_remaining > 0.
AnyTicket(input) == {t \in DOMAIN tickets : tickets[t].input = input}

(* ConsumeApproval: the oldest usable ticket of this input                  *)
Usable(input) ==
  {t \in DOMAIN tickets : tickets[t] = [input |-> input, state |-> "usable"]}

\* Mutant: the UPDATE without uses_remaining = uses_remaining - 1.
ReadTicket(c) ==
  /\ pc[c] = "consume"
  /\ \E t \in Usable(Current(c)) :
       /\ \A u \in Usable(Current(c)) : t <= u
       /\ held' = [held EXCEPT ![c] = t]
  /\ To(c, "recheck")
  /\ UNCHANGED <<op, batch, at, result>>
  /\ UNCHANGED store /\ Outside

ConsumeTicket(c) ==
  /\ pc[c] = "consume"
  /\ \E t \in Usable(Current(c)) :
       /\ \A u \in Usable(Current(c)) : t <= u
       /\ tickets' = [tickets EXCEPT ![t].state = "used"]
       /\ held' = [held EXCEPT ![c] = t]
  /\ To(c, "recheck")
  /\ UNCHANGED <<op, batch, at, result>>
  /\ UNCHANGED <<task, step, pending, intents>> /\ Outside

(* writeChecked: the check again, then a temporary file renamed over it     *)
Recheck(c) ==
  /\ pc[c] = "recheck"
  /\ CheckedOr(c, "rename")
  /\ UNCHANGED store /\ Outside

Rename(c) ==
  /\ pc[c] = "rename"
  /\ LET input == Current(c)
     IN  /\ files' = [files EXCEPT ![input.path] = input.content]
         /\ past' = past \cup {<<input.path, input.content>>}
         /\ effects' = Append(effects,
                        [input |-> input, ticket |-> held[c], by |-> op[c]])
  /\ Answer(c, "SUCCEEDED")
  /\ UNCHANGED <<store, edits>>

(* no usable ticket, a cancelled context, an error of the store or the disk *)
ToolFails(c) ==
  /\ pc[c] \in {"check", "consume", "recheck", "rename"}
  /\ Answer(c, "FAILED")
  /\ UNCHANGED store /\ Outside

Mark(input, status) ==
  intents' = [i \in DOMAIN intents |->
                IF i = input THEN status ELSE intents[i]]

\* Mutant: the intent is marked SUCCEEDED whatever the tool answered.
MarkSucceeded(c) ==
  /\ pc[c] = "update"
  /\ Mark(Current(c), "SUCCEEDED")
  /\ IF op[c] = "WriteFile" THEN Return(c)
     ELSE IF result[c] = "FAILED" THEN Proceed(c, "fail_step")
     ELSE IF at[c] < Len(batch[c]) THEN Write(c, at[c] + 1, "context")
     ELSE Proceed(c, "verify_step")
  /\ UNCHANGED <<task, step, pending, tickets>> /\ Outside

\* Mutant: the batch goes on after a FAILED result.
GoOnAnyway(c) ==
  /\ pc[c] = "update"
  /\ Mark(Current(c), result[c])
  /\ IF op[c] = "WriteFile" THEN Return(c)
     ELSE IF at[c] < Len(batch[c]) THEN Write(c, at[c] + 1, "context")
     ELSE Proceed(c, "verify_step")
  /\ UNCHANGED <<task, step, pending, tickets>> /\ Outside

(* UpdateToolIntentStatus; a batch goes on with its next write, or fails    *)
UpdateStatus(c) ==
  /\ pc[c] = "update"
  /\ Mark(Current(c), result[c])
  /\ IF op[c] = "WriteFile" THEN Return(c)
     ELSE IF result[c] = "FAILED" THEN Proceed(c, "fail_step")
     ELSE IF at[c] < Len(batch[c]) THEN Write(c, at[c] + 1, "context")
     ELSE Proceed(c, "verify_step")
  /\ UNCHANGED <<task, step, pending, tickets>> /\ Outside

----
(* The rest of ApprovePendingWrite up to VerifyTask (see TaskRuntime)       *)
VerifyStep(c) ==
  /\ pc[c] = "verify_step"
  /\ StepCAS("RUNNING", "VERIFYING")
  /\ Goto(c, "complete_step")
  /\ Outside

CompleteStep(c) ==
  /\ pc[c] = "complete_step"
  /\ StepCAS("VERIFYING", "COMPLETED")
  /\ Goto(c, "verify_task")
  /\ Outside

MoveToVerifying(c) ==
  /\ pc[c] = "verify_task"
  /\ TaskCAS("RUNNING", "VERIFYING")
  /\ Return(c)
  /\ Outside

(* The model's turn, or a WriteFile of a batch, returns an error: the step  *)
(* and the task fail, as after a FAILED result.                             *)
TurnFails(c) ==
  /\ \/ pc[c] = "propose"
     \/ op[c] = "ApprovePendingWrite" /\ pc[c] \in {"context", "intent", "update"}
  /\ Proceed(c, "fail_step")
  /\ UNCHANGED store /\ Outside

(* _ = transition...: whatever becomes of the write, the call goes on.      *)
FailStep(c) ==
  /\ pc[c] = "fail_step"
  /\ StepCAS("RUNNING", "FAILED") \/ UNCHANGED store
  /\ Goto(c, "fail_task")
  /\ Outside

FailTask(c) ==
  /\ pc[c] = "fail_task"
  /\ TaskCAS("RUNNING", "FAILED") \/ UNCHANGED store
  /\ Return(c)
  /\ Outside

----
(* other programs, and time                                                 *)
EditFile(path, content) ==
  /\ edits < MaxEdits
  /\ files[path] # content
  /\ files' = [files EXCEPT ![path] = content]
  /\ past' = past \cup {<<path, content>>}
  /\ edits' = edits + 1
  /\ UNCHANGED <<store, locals, effects>>

ExpireTicket(t) ==
  /\ tickets[t].state = "usable"
  /\ tickets' = [tickets EXCEPT ![t].state = "expired"]
  /\ UNCHANGED <<task, step, pending, intents, files, locals, history>>

Continue(c) ==
  \/ ClaimStep(c) \/ Propose(c) \/ SavePending(c) \/ ParkStep(c)
  \/ ParkTask(c) \/ PauseTask(c) \/ LoadTask(c) \/ LoadPending(c)
  \/ ValidateBatch(c) \/ IssueTicket(c) \/ ResumeTask(c) \/ ResumeStep(c)
  \/ WriteContext(c) \/ RecordIntent(c) \/ CheckTarget(c)
  \/ ConsumeTicket(c) \/ Recheck(c) \/ Rename(c) \/ ToolFails(c)
  \/ UpdateStatus(c) \/ TurnFails(c) \/ VerifyStep(c) \/ CompleteStep(c)
  \/ MoveToVerifying(c) \/ FailStep(c) \/ FailTask(c)

Next ==
  \/ \E c \in Callers :
       \/ \E o \in Operations : Call(c, o)
       \/ Continue(c)
       \/ Abort(c)
  \/ \E path \in Paths : \E content \in Contents \cup {ABSENT} :
       EditFile(path, content)
  \/ \E t \in DOMAIN tickets : ExpireTicket(t)

Spec == Init /\ [][Next]_vars

----
Label ==
  {"idle", "claim", "propose", "save_pending", "park_step", "park_task",
   "pause", "load_task", "load_pending", "validate", "approve",
   "resume_task", "resume_step", "context", "intent", "check", "consume",
   "recheck", "rename", "update", "verify_step", "complete_step",
   "verify_task", "fail_step", "fail_task"}

Ticket == [input : Inputs, state : {"usable", "used", "expired"}]
Effect == [input : Inputs, ticket : Nat, by : Operations \cup {NONE}]

StoreTypes ==
  /\ task \in TaskStatus /\ step \in StepStatus
  /\ pending \in Seq(Batches)
  /\ tickets \in Seq(Ticket) /\ Len(tickets) <= MaxTickets
  /\ DOMAIN intents \subseteq Inputs
  /\ \A i \in DOMAIN intents :
       intents[i] \in {"INTENT_RECORDED", "SUCCEEDED", "FAILED"}
  /\ files \in [Paths -> Contents \cup {ABSENT}]
  /\ effects \in Seq(Effect)

CallTypes ==
  /\ pc \in [Callers -> Label]
  /\ op \in [Callers -> Operations \cup {NONE}]
  /\ batch \in [Callers -> Seq(Inputs)]
  /\ at \in [Callers -> Nat] /\ held \in [Callers -> Nat]
  /\ result \in [Callers -> {NONE, "SUCCEEDED", "FAILED"}]

TypeOK == StoreTypes /\ CallTypes

(* Docs/11: tickets match task, step, tool and argument hash and have one   *)
(* use.  However approvals, repeats and interruptions interleave, every     *)
(* replacement of a file has a ticket of its own, issued for exactly that   *)
(* path, content and expected content.                                      *)
OneTicketPerWrite ==
  /\ \A k \in DOMAIN effects :
       /\ effects[k].ticket \in DOMAIN tickets
       /\ tickets[effects[k].ticket] =
            [input |-> effects[k].input, state |-> "used"]
  /\ \A j, k \in DOMAIN effects :
       effects[j].ticket = effects[k].ticket => j = k

(* "records a durable intent before executing": whatever write was done,    *)
(* its intent is in the store, even if the call was cut off right after.    *)
RecordedBeforeWritten ==
  \A k \in DOMAIN effects : effects[k].input \in DOMAIN intents

(* An intent marked SUCCEEDED tells the truth: its file did hold the        *)
(* content asked for.                                                       *)
SucceededMeansWritten ==
  \A i \in DOMAIN intents : intents[i] = "SUCCEEDED" =>
    <<i.path, i.content>> \in past

(* A step passes on to verification only after every file of the proposal   *)
(* the user approved had its content.                                       *)
CompletedBatchWritten ==
  step \in {"VERIFYING", "COMPLETED"} =>
    /\ pending # << >>
    /\ \A k \in DOMAIN pending[Len(pending)] :
         LET input == pending[Len(pending)][k]
         IN  <<input.path, input.content>> \in past

(* What all of this is for (ApprovedWrites): a ticket is an approval until  *)
(* it expires, or until the call that consumed it has replaced its file or  *)
(* has ended without.                                                       *)
Approved == [t \in DOMAIN tickets |-> tickets[t].input]
InHand ==
  {t \in DOMAIN tickets :
     tickets[t].state = "usable" \/ \E c \in Callers : held[c] = t}
Spent == [k \in DOMAIN effects |-> effects[k].ticket]

A == INSTANCE ApprovedWrites WITH
       Contents <- Contents \cup {ABSENT},
       approvals <- Approved, usable <- InHand, writes <- Spent

ImplementsApprovedWrites == A!Spec
=============================================================================
