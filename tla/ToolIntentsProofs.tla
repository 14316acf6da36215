------------------------- MODULE ToolIntentsProofs -------------------------
(***************************************************************************)
(* Theorems about ToolIntents, for any number of concurrent calls, any     *)
(* operations among them, any files, proposals and bounds.                 *)
(***************************************************************************)
EXTENDS ToolIntents, SequenceTheorems, TLAPS

(* before a call has its writes, and while it works through them *)
Early == {"claim", "propose", "save_pending", "load_task", "load_pending",
          "validate"}
Tooling == {"check", "consume", "recheck", "rename"}
Handling == {"approve", "resume_task", "resume_step", "context", "intent",
             "update"} \cup Tooling

(* A call that works through its writes is at one of them. *)
Placed(c) ==
  /\ pc[c] \in Early => at[c] = 1
  /\ pc[c] \in {"save_pending", "validate"} => batch[c] \in Batches
  /\ pc[c] \in Handling => at[c] \in DOMAIN batch[c]
  /\ pc[c] = "update" => result[c] # NONE

(* The ticket a call holds is used, is for its write, and paid for nothing  *)
(* yet.                                                                     *)
Pays(c) ==
  /\ pc[c] \in {"recheck", "rename"} => held[c] # 0
  /\ held[c] # 0 =>
       /\ pc[c] \in {"recheck", "rename"}
       /\ held[c] \in DOMAIN tickets
       /\ tickets[held[c]] = [input |-> Current(c), state |-> "used"]
       /\ \A k \in DOMAIN effects : effects[k].ticket # held[c]

(* No two calls hold one ticket. *)
Apart(c, d) == c # d /\ held[c] # 0 => held[c] # held[d]

(* The intent of the write a call carries out is on record. *)
OnRecord(c) ==
  pc[c] \in Tooling \cup {"update"} => Current(c) \in DOMAIN intents

Mine(c) == Placed(c) /\ Pays(c) /\ OnRecord(c)

IInv ==
  /\ TypeOK
  /\ \A c \in Callers : Mine(c)
  /\ \A c, d \in Callers : Apart(c, d)
  /\ OneTicketPerWrite
  /\ RecordedBeforeWritten

(* What the workspace holds is in its history, and so is what a call is     *)
(* about to mark SUCCEEDED.                                                 *)
Witnessed == \A p \in Paths : <<p, files[p]>> \in past
Told(c) ==
  pc[c] = "update" /\ result[c] = "SUCCEEDED" =>
    <<Current(c).path, Current(c).content>> \in past

TInv == Witnessed /\ (\A c \in Callers : Told(c)) /\ SucceededMeansWritten

----
LEMMA SeqElement ==
  ASSUME NEW S, NEW s \in Seq(S), NEW k \in DOMAIN s
  PROVE  s[k] \in S
BY ElementOfSeq

LEMMA BatchWrites ==
  ASSUME NEW writes \in Batches
  PROVE  writes \in Seq(Inputs) /\ 1 \in DOMAIN writes
<1>1. writes \in Seq(Input) /\ writes # << >> BY BatchesAreInputs
<1>2. \A k \in DOMAIN writes : writes[k] \in Inputs BY DEF Inputs
<1>3. Len(writes) \in Nat /\ DOMAIN writes = 1..Len(writes) BY <1>1
<1>4. writes = [k \in 1..Len(writes) |-> writes[k]] BY <1>1
<1>5. writes \in Seq(Inputs) BY <1>2, <1>3, <1>4, IsASeq
<1>6. Len(writes) # 0 BY <1>1, EmptySeq
<1> QED BY <1>3, <1>5, <1>6

LEMMA LastWrites ==
  ASSUME NEW q \in Seq(Batches), q # << >>
  PROVE  q[Len(q)] \in Batches
<1>1. Len(q) \in Nat /\ Len(q) # 0 /\ DOMAIN q = 1..Len(q) BY EmptySeq
<1> QED BY <1>1, SeqElement

LEMMA CurrentInput ==
  ASSUME CallTypes, NEW c \in Callers, at[c] \in DOMAIN batch[c]
  PROVE  Current(c) \in Inputs
BY SeqElement DEF CallTypes, Current

----
(* A step changes the locals of its caller by Goto, Begin, Write, Answer    *)
(* or by taking a batch, and leaves those of the other calls alone.         *)
Still(d) ==
  /\ pc'[d] = pc[d] /\ op'[d] = op[d] /\ batch'[d] = batch[d]
  /\ at'[d] = at[d] /\ result'[d] = result[d] /\ held'[d] = held[d]

Local(c) == CallTypes' /\ \A d \in Callers \ {c} : Still(d)

LEMMA GotoLocal ==
  ASSUME CallTypes, NEW c \in Callers, NEW l \in Label, Goto(c, l)
  PROVE  /\ Local(c) /\ pc'[c] = l /\ batch'[c] = batch[c] /\ at'[c] = at[c]
         /\ result'[c] = result[c] /\ held'[c] = held[c]
BY DEF CallTypes, Goto, To, Local, Still

LEMMA BeginLocal ==
  ASSUME CallTypes, NEW c \in Callers, NEW o \in Operations \cup {NONE},
         NEW l \in Label, NEW writes \in Seq(Inputs), Begin(c, o, l, writes)
  PROVE  /\ Local(c) /\ pc'[c] = l /\ batch'[c] = writes /\ at'[c] = 1
         /\ result'[c] = NONE /\ held'[c] = 0
BY DEF CallTypes, Begin, To, Local, Still

LEMMA WriteLocal ==
  ASSUME CallTypes, NEW c \in Callers, NEW k \in Nat, NEW l \in Label,
         Write(c, k, l)
  PROVE  /\ Local(c) /\ pc'[c] = l /\ batch'[c] = batch[c] /\ at'[c] = k
         /\ result'[c] = NONE /\ held'[c] = held[c]
BY DEF CallTypes, Write, To, Local, Still

LEMMA AnswerLocal ==
  ASSUME CallTypes, NEW c \in Callers, NEW s \in {"SUCCEEDED", "FAILED"},
         Answer(c, s)
  PROVE  /\ Local(c) /\ pc'[c] = "update" /\ batch'[c] = batch[c]
         /\ at'[c] = at[c] /\ result'[c] = s /\ held'[c] = 0
<1>1. "update" \in Label BY DEF Label
<1> QED BY <1>1 DEF CallTypes, Answer, To, Local, Still

LEMMA TakeLocal ==
  ASSUME CallTypes, NEW c \in Callers, NEW l \in Label,
         NEW writes \in Seq(Inputs), batch' = [batch EXCEPT ![c] = writes],
         To(c, l), UNCHANGED <<op, at, result, held>>
  PROVE  /\ Local(c) /\ pc'[c] = l /\ batch'[c] = writes /\ at'[c] = at[c]
         /\ result'[c] = result[c] /\ held'[c] = held[c]
BY DEF CallTypes, To, Local, Still

----
(* No step takes a used ticket or an intent out of the store. *)
Kept ==
  /\ \A t \in DOMAIN tickets :
       /\ t \in DOMAIN tickets'
       /\ tickets[t].state = "used" => tickets'[t] = tickets[t]
  /\ DOMAIN intents \subseteq DOMAIN intents'

Steady == StoreTypes' /\ Kept /\ effects' = effects

LEMMA EffectsKept ==
  ASSUME IInv, Steady
  PROVE  OneTicketPerWrite' /\ RecordedBeforeWritten'
<1>1. ASSUME NEW k \in DOMAIN effects
      PROVE  /\ effects[k].ticket \in DOMAIN tickets'
             /\ tickets'[effects[k].ticket] =
                  [input |-> effects[k].input, state |-> "used"]
             /\ effects[k].input \in DOMAIN intents'
  BY DEF IInv, Steady, Kept, OneTicketPerWrite, RecordedBeforeWritten
<1>2. OneTicketPerWrite'
  BY <1>1 DEF IInv, Steady, OneTicketPerWrite
<1>3. RecordedBeforeWritten' BY <1>1 DEF Steady, RecordedBeforeWritten
<1> QED BY <1>2, <1>3

LEMMA OtherKept ==
  ASSUME IInv, Steady, NEW d \in Callers, Still(d)
  PROVE  Mine(d)'
<1>1. Current(d)' = Current(d) BY DEF Still, Current
<1>2. Placed(d)' BY DEF IInv, Mine, Placed, Still
<1>3. Pays(d)' BY <1>1 DEF IInv, Mine, Pays, Still, Steady, Kept
<1>4. OnRecord(d)' BY <1>1 DEF IInv, Mine, OnRecord, Still, Steady, Kept
<1> QED BY <1>2, <1>3, <1>4 DEF Mine

(* A step that consumes no ticket and replaces no file: only its caller's   *)
(* own conditions are left to show.                                         *)
LEMMA LocalStep ==
  ASSUME IInv, Steady, NEW c \in Callers, Local(c), Mine(c)',
         held'[c] \in {0, held[c]}
  PROVE  IInv'
<1>1. TypeOK' BY DEF Steady, Local, TypeOK
<1>2. \A d \in Callers : Mine(d)' BY OtherKept DEF Local
<1>3. \A d, e \in Callers : Apart(d, e)'
  BY DEF IInv, Apart, Local, Still
<1> QED BY <1>1, <1>2, <1>3, EffectsKept DEF IInv

Free(c) == pc[c] \notin {"recheck", "rename"}

LEMMA FreeHoldsNone ==
  ASSUME IInv, NEW c \in Callers, Free(c)
  PROVE  held[c] = 0
BY DEF IInv, Mine, Pays, Free

(* A call that goes on, keeping its place in its writes. *)
LEMMA GotoKeeps ==
  ASSUME IInv, Steady, NEW c \in Callers, Free(c),
         NEW l \in Label \ (Tooling \cup {"update", "save_pending", "validate"}),
         Goto(c, l),
         l \in Early => pc[c] \in Early,
         l \in Handling => pc[c] \in Handling \cup {"validate"}
  PROVE  IInv'
<1>1. CallTypes BY DEF IInv, TypeOK
<1>2. /\ Local(c) /\ pc'[c] = l /\ batch'[c] = batch[c] /\ at'[c] = at[c]
      /\ held'[c] = 0
  BY <1>1, GotoLocal, FreeHoldsNone
<1>3. pc[c] = "validate" => at[c] \in DOMAIN batch[c]
  BY BatchWrites DEF IInv, Mine, Placed, Early
<1>4. Placed(c)' BY <1>2, <1>3 DEF IInv, Mine, Placed, Handling
<1>5. Pays(c)' /\ OnRecord(c)' BY <1>2 DEF Pays, OnRecord, Tooling
<1> QED BY <1>2, <1>4, <1>5, LocalStep DEF Mine

(* A call that starts, returns, or drops its writes. *)
LEMMA BeginKeeps ==
  ASSUME IInv, Steady, NEW c \in Callers, NEW o \in Operations \cup {NONE},
         NEW l \in Label \ (Tooling \cup {"update", "save_pending", "validate"}),
         NEW writes \in Seq(Inputs), l \in Handling => 1 \in DOMAIN writes,
         Begin(c, o, l, writes)
  PROVE  IInv'
<1>1. CallTypes BY DEF IInv, TypeOK
<1>2. /\ Local(c) /\ pc'[c] = l /\ batch'[c] = writes /\ at'[c] = 1
      /\ held'[c] = 0
  BY <1>1, BeginLocal
<1>3. Placed(c)' BY <1>2 DEF Placed
<1>4. Pays(c)' /\ OnRecord(c)' BY <1>2 DEF Pays, OnRecord, Tooling
<1> QED BY <1>2, <1>3, <1>4, LocalStep DEF Mine

(* A call that turns to one of its writes. *)
LEMMA WriteKeeps ==
  ASSUME IInv, Steady, NEW c \in Callers, Free(c),
         NEW l \in {"approve", "resume_task", "context"},
         NEW k \in DOMAIN batch[c], Write(c, k, l)
  PROVE  IInv'
<1>1. CallTypes /\ l \in Label BY DEF IInv, TypeOK, Label
<1>2. k \in Nat BY <1>1 DEF CallTypes
<1>3. /\ Local(c) /\ pc'[c] = l /\ batch'[c] = batch[c] /\ at'[c] = k
      /\ held'[c] = 0
  BY <1>1, <1>2, WriteLocal, FreeHoldsNone
<1>4. Placed(c)' BY <1>3 DEF Placed, Early
<1>5. Pays(c)' /\ OnRecord(c)' BY <1>3 DEF Pays, OnRecord, Tooling
<1> QED BY <1>3, <1>4, <1>5, LocalStep DEF Mine

(* A tool that answers, whichever way. *)
LEMMA AnswerKeeps ==
  ASSUME IInv, Steady, NEW c \in Callers, pc[c] \in Tooling,
         NEW s \in {"SUCCEEDED", "FAILED"}, Answer(c, s)
  PROVE  IInv'
<1>1. CallTypes BY DEF IInv, TypeOK
<1>2. /\ Local(c) /\ pc'[c] = "update" /\ batch'[c] = batch[c]
      /\ at'[c] = at[c] /\ result'[c] = s /\ held'[c] = 0
  BY <1>1, AnswerLocal
<1>3. Placed(c)'
  BY <1>2 DEF IInv, Mine, Placed, Early, Handling, NONE
<1>4. Pays(c)' BY <1>2 DEF Pays
<1>5. OnRecord(c)'
  BY <1>2 DEF IInv, Mine, OnRecord, Current, Steady, Kept
<1> QED BY <1>2, <1>3, <1>4, <1>5, LocalStep DEF Mine

----
(* What the statements on tasks and steps leave of the store. *)
LEMMA SameStore ==
  ASSUME StoreTypes, UNCHANGED store, Outside
  PROVE  Steady
BY DEF StoreTypes, store, Outside, history, Steady, Kept

LEMMA CASKept ==
  ASSUME StoreTypes, Outside, NEW from, NEW to,
         \/ to \in TaskStatus /\ TaskCAS(from, to)
         \/ to \in StepStatus /\ StepCAS(from, to)
  PROVE  Steady
BY DEF StoreTypes, TaskCAS, StepCAS, Outside, history, Steady, Kept

(* The actions that go on to the next statement and change no more of the   *)
(* store than a status.                                                     *)
Advance(c) ==
  \/ ClaimStep(c) \/ ParkStep(c) \/ LoadTask(c) \/ ValidateBatch(c)
  \/ ResumeTask(c) \/ ResumeStep(c) \/ WriteContext(c) \/ VerifyStep(c)
  \/ CompleteStep(c) \/ FailStep(c)

LEMMA AdvanceStep ==
  ASSUME IInv, NEW c \in Callers, Advance(c)
  PROVE  IInv'
<1>1. StoreTypes BY DEF IInv, TypeOK
<1>2. {"RUNNING", "VERIFYING", "COMPLETED", "FAILED", "WAITING_APPROVAL"}
        \subseteq TaskStatus \cap StepStatus
  BY DEF TaskStatus, TaskTerminal, StepStatus
<1>3. Steady
  BY <1>1, <1>2, SameStore, CASKept
  DEF Advance, ClaimStep, ParkStep, LoadTask, ValidateBatch, ResumeTask,
      ResumeStep, WriteContext, VerifyStep, CompleteStep, FailStep
<1>4. \E l \in Label \ (Tooling \cup {"update", "save_pending", "validate"}) :
        /\ Goto(c, l)
        /\ l \in Early => pc[c] \in Early
        /\ l \in Handling => pc[c] \in Handling \cup {"validate"}
  BY DEF Label, Tooling, Early, Handling, Advance, ClaimStep, ParkStep,
      LoadTask, ValidateBatch, ResumeTask, ResumeStep, WriteContext,
      VerifyStep, CompleteStep, FailStep
<1>5. Free(c)
  BY DEF Free, Advance, ClaimStep, ParkStep, LoadTask, ValidateBatch,
      ResumeTask, ResumeStep, WriteContext, VerifyStep, CompleteStep, FailStep
<1> QED BY <1>3, <1>4, <1>5, GotoKeeps

(* The actions that start a call, end it, or leave its writes behind. *)
Leave(c) ==
  \/ Abort(c) \/ ParkTask(c) \/ PauseTask(c) \/ MoveToVerifying(c)
  \/ TurnFails(c) \/ FailTask(c)

LEMMA CallStep ==
  ASSUME IInv, NEW c \in Callers, NEW o \in Operations, Call(c, o)
  PROVE  IInv'
<1>1. Steady BY SameStore DEF IInv, TypeOK, Call
<1>2. \A input \in Inputs : <<input>> \in Seq(Inputs) /\ 1 \in DOMAIN <<input>>
  OBVIOUS
<1>3. << >> \in Seq(Inputs) OBVIOUS
<1>4. {"context", "approve", "claim", "load_task", "pause"} \subseteq
        Label \ (Tooling \cup {"update", "save_pending", "validate"})
  BY DEF Label, Tooling
<1>5. CASE o \in {"ApproveWriteFile", "WriteFile"}
  BY <1>1, <1>2, <1>4, <1>5, BeginKeeps DEF Call
<1>6. CASE o \in {"RunModelStep", "ApprovePendingWrite", "RecoverRunningTask"}
  <2>1. PICK l \in {"claim", "load_task", "pause"} : Begin(c, o, l, << >>)
    BY <1>6 DEF Call
  <2> QED BY <1>1, <1>3, <1>4, <2>1, BeginKeeps DEF Handling, Tooling
<1> QED BY <1>5, <1>6, OperationsKnown DEF AllOperations

LEMMA LeaveStep ==
  ASSUME IInv, NEW c \in Callers, Leave(c)
  PROVE  IInv'
<1>1. StoreTypes /\ CallTypes BY DEF IInv, TypeOK
<1>2. {"WAITING_APPROVAL", "PAUSED", "VERIFYING", "FAILED"} \subseteq TaskStatus
  BY DEF TaskStatus
<1>3. Steady
  BY <1>1, <1>2, SameStore, CASKept
  DEF Leave, Abort, ParkTask, PauseTask, MoveToVerifying, TurnFails, FailTask
<1>4. op[c] \in Operations \cup {NONE} /\ NONE \in Operations \cup {NONE}
  BY <1>1 DEF CallTypes
<1>5. PICK o \in Operations \cup {NONE}, l \in {"idle", "fail_step"} :
        Begin(c, o, l, << >>)
  BY <1>4 DEF Leave, Abort, ParkTask, PauseTask, MoveToVerifying, TurnFails,
      FailTask, Return, Proceed
<1>6. /\ l \in Label \ (Tooling \cup {"update", "save_pending", "validate"})
      /\ l \notin Handling
  BY DEF Label, Tooling, Handling
<1>7. << >> \in Seq(Inputs) OBVIOUS
<1> QED BY <1>3, <1>5, <1>6, <1>7, BeginKeeps

----
(* The proposal is made, stored, and read back when it is approved. *)
LEMMA TakeKeeps ==
  ASSUME IInv, NEW c \in Callers, pc[c] \in {"propose", "load_pending"},
         NEW l \in {"save_pending", "validate"}, NEW writes \in Batches,
         batch' = [batch EXCEPT ![c] = writes], To(c, l),
         UNCHANGED <<store, op, at, result, held>>, Outside
  PROVE  IInv'
<1>1. CallTypes /\ StoreTypes /\ l \in Label BY DEF IInv, TypeOK, Label
<1>2. Steady BY <1>1, SameStore DEF store
<1>3. writes \in Seq(Inputs) BY BatchWrites
<1>4. /\ Local(c) /\ pc'[c] = l /\ batch'[c] = writes /\ at'[c] = at[c]
      /\ held'[c] = held[c]
  BY <1>1, <1>3, TakeLocal
<1>5. held[c] = 0 BY FreeHoldsNone DEF Free
<1>6. Placed(c)'
  BY <1>4 DEF IInv, Mine, Placed, Early, Handling, Tooling
<1>7. Pays(c)' /\ OnRecord(c)' BY <1>4, <1>5 DEF Pays, OnRecord, Tooling
<1> QED BY <1>2, <1>4, <1>6, <1>7, LocalStep DEF Mine

LEMMA ProposeStep ==
  ASSUME IInv, NEW c \in Callers, Propose(c)
  PROVE  IInv'
BY TakeKeeps DEF Propose

LEMMA LoadPendingStep ==
  ASSUME IInv, NEW c \in Callers, LoadPending(c)
  PROVE  IInv'
<1>1. pending[Len(pending)] \in Batches
  BY LastWrites DEF IInv, TypeOK, StoreTypes, LoadPending
<1> QED BY <1>1, TakeKeeps DEF LoadPending

LEMMA SavePendingStep ==
  ASSUME IInv, NEW c \in Callers, SavePending(c)
  PROVE  IInv'
<1>1. batch[c] \in Batches BY DEF IInv, Mine, Placed, SavePending
<1>2. pending' \in Seq(Batches)
  BY <1>1 DEF IInv, TypeOK, StoreTypes, SavePending
<1>3. Steady
  BY <1>2 DEF IInv, TypeOK, StoreTypes, SavePending, Outside, history, Steady,
      Kept
<1>4. op[c] \in Operations \cup {NONE} BY DEF IInv, TypeOK, CallTypes
<1>5. /\ "park_step" \in
           Label \ (Tooling \cup {"update", "save_pending", "validate"})
      /\ "park_step" \notin Handling
  BY DEF Label, Tooling, Handling
<1>6. << >> \in Seq(Inputs) /\ Begin(c, op[c], "park_step", << >>)
  BY DEF SavePending, Proceed
<1> QED BY <1>3, <1>4, <1>5, <1>6, BeginKeeps

LEMMA IssueTicketStep ==
  ASSUME IInv, NEW c \in Callers, IssueTicket(c)
  PROVE  IInv'
<1>1. StoreTypes /\ CallTypes BY DEF IInv, TypeOK
<1>2. at[c] \in DOMAIN batch[c]
  BY DEF IInv, Mine, Placed, Handling, IssueTicket
<1>3. [input |-> Current(c), state |-> "usable"] \in Ticket
  BY <1>1, <1>2, CurrentInput DEF Ticket
<1>4. /\ tickets \in Seq(Ticket) /\ Len(tickets) \in Nat
      /\ Len(tickets) < MaxTickets /\ MaxTickets \in Nat
  BY <1>1, BoundsNat DEF StoreTypes, IssueTicket
<1>5. /\ tickets' \in Seq(Ticket) /\ Len(tickets') = Len(tickets) + 1
      /\ \A t \in DOMAIN tickets : t \in DOMAIN tickets' /\ tickets'[t] = tickets[t]
  BY <1>3, <1>4 DEF IssueTicket
<1>6. Steady
  BY <1>1, <1>4, <1>5
  DEF StoreTypes, IssueTicket, Outside, history, Steady, Kept
<1>7. batch[c] \in Seq(Inputs) /\ Len(batch[c]) \in Nat
  BY <1>1 DEF CallTypes
<1>8. Free(c) BY DEF Free, IssueTicket
<1>9. CASE op[c] = "ApproveWriteFile"
  <2>1. Begin(c, NONE, "idle", << >>) BY <1>9 DEF IssueTicket, Return
  <2>2. /\ "idle" \in Label \ (Tooling \cup {"update", "save_pending", "validate"})
        /\ "idle" \notin Handling
    BY DEF Label, Tooling, Handling
  <2>3. << >> \in Seq(Inputs) /\ NONE \in Operations \cup {NONE} OBVIOUS
  <2> QED BY <1>6, <2>1, <2>2, <2>3, BeginKeeps
<1>10. CASE op[c] # "ApproveWriteFile" /\ at[c] < Len(batch[c])
  <2>1. at[c] + 1 \in DOMAIN batch[c] BY <1>2, <1>7, <1>10
  <2> QED BY <1>6, <1>8, <1>10, <2>1, WriteKeeps DEF IssueTicket
<1>11. CASE op[c] # "ApproveWriteFile" /\ ~(at[c] < Len(batch[c]))
  <2>1. 1 \in DOMAIN batch[c] BY <1>2, <1>7
  <2> QED BY <1>6, <1>8, <1>11, <2>1, WriteKeeps DEF IssueTicket
<1> QED BY <1>9, <1>10, <1>11

----
(* The tool. *)
LEMMA RecordIntentStep ==
  ASSUME IInv, NEW c \in Callers, RecordIntent(c)
  PROVE  IInv'
<1>1. StoreTypes /\ CallTypes BY DEF IInv, TypeOK
<1>2. at[c] \in DOMAIN batch[c]
  BY DEF IInv, Mine, Placed, Handling, RecordIntent
<1>3. Current(c) \in Inputs BY <1>1, <1>2, CurrentInput
<1>4. /\ DOMAIN intents' = DOMAIN intents \cup {Current(c)}
      /\ \A i \in DOMAIN intents' :
           intents'[i] \in {"INTENT_RECORDED", "SUCCEEDED", "FAILED"}
  BY <1>1 DEF StoreTypes, RecordIntent
<1>5. Steady
  BY <1>1, <1>3, <1>4
  DEF StoreTypes, RecordIntent, Outside, history, Steady, Kept
<1>6. held[c] = 0 BY FreeHoldsNone DEF Free, RecordIntent
<1>7. "check" \in Label BY DEF Label
<1>8. /\ Local(c) /\ pc'[c] = "check" /\ batch'[c] = batch[c]
      /\ at'[c] = at[c] /\ held'[c] = 0
  BY <1>1, <1>6, <1>7, GotoLocal DEF RecordIntent
<1>9. Placed(c)' BY <1>2, <1>8 DEF Placed, Early
<1>10. Pays(c)' BY <1>8 DEF Pays
<1>11. OnRecord(c)' BY <1>4, <1>8 DEF OnRecord, Current
<1> QED BY <1>5, <1>8, <1>9, <1>10, <1>11, LocalStep DEF Mine

LEMMA CheckedStep ==
  ASSUME IInv, NEW c \in Callers, CheckTarget(c) \/ Recheck(c) \/ ToolFails(c)
  PROVE  IInv'
<1>1. StoreTypes /\ CallTypes BY DEF IInv, TypeOK
<1>2. Steady BY <1>1, SameStore DEF CheckTarget, Recheck, ToolFails
<1>3. pc[c] \in Tooling BY DEF Tooling, CheckTarget, Recheck, ToolFails
<1>4. CASE \E s \in {"SUCCEEDED", "FAILED"} : Answer(c, s)
  BY <1>2, <1>3, <1>4, AnswerKeeps
<1>5. CASE \/ pc[c] = "check" /\ Goto(c, "consume")
           \/ pc[c] = "recheck" /\ Goto(c, "rename")
  <2>1. {"consume", "rename"} \subseteq Label BY DEF Label
  <2>2. /\ Local(c) /\ batch'[c] = batch[c] /\ at'[c] = at[c]
        /\ result'[c] = result[c] /\ held'[c] = held[c]
        /\ \/ pc[c] = "check" /\ pc'[c] = "consume"
           \/ pc[c] = "recheck" /\ pc'[c] = "rename"
    BY <1>1, <1>5, <2>1, GotoLocal
  <2>3. Current(c)' = Current(c) BY <2>2 DEF Current
  <2>4. tickets' = tickets
    BY DEF CheckTarget, Recheck, ToolFails, store
  <2>5. Placed(c)'
    BY <2>2 DEF IInv, Mine, Placed, Early, Handling, Tooling
  <2>6. Pays(c)' BY <1>2, <2>2, <2>3, <2>4 DEF IInv, Mine, Pays, Steady
  <2>7. OnRecord(c)'
    BY <1>2, <2>2, <2>3 DEF IInv, Mine, OnRecord, Tooling, Steady, Kept
  <2> QED BY <1>2, <2>2, <2>5, <2>6, <2>7, LocalStep DEF Mine
<1> QED BY <1>4, <1>5 DEF CheckTarget, Recheck, ToolFails, CheckedOr

(* The ticket taken was usable, so no call held it and nothing was paid     *)
(* with it.                                                                 *)
LEMMA ConsumeTicketStep ==
  ASSUME IInv, NEW c \in Callers, ConsumeTicket(c)
  PROVE  IInv'
<1>1. StoreTypes /\ CallTypes BY DEF IInv, TypeOK
<1>2. PICK t \in Usable(Current(c)) :
        /\ tickets' = [tickets EXCEPT ![t].state = "used"]
        /\ held' = [held EXCEPT ![c] = t]
  BY DEF ConsumeTicket
<1>3. /\ t \in DOMAIN tickets
      /\ tickets[t] = [input |-> Current(c), state |-> "usable"]
  BY DEF Usable
<1>4. /\ tickets \in Seq(Ticket) /\ Len(tickets) \in Nat
      /\ DOMAIN tickets = 1..Len(tickets) /\ t \in Nat /\ t # 0
  BY <1>1, <1>3 DEF StoreTypes
<1>5. Current(c) \in Inputs
  BY <1>1, CurrentInput
  DEF IInv, Mine, Placed, Handling, Tooling, ConsumeTicket
<1>6. /\ tickets' \in Seq(Ticket) /\ Len(tickets') = Len(tickets)
      /\ tickets'[t] = [input |-> Current(c), state |-> "used"]
      /\ \A u \in DOMAIN tickets \ {t} : tickets'[u] = tickets[u]
  BY <1>2, <1>3, <1>4, <1>5 DEF Ticket
<1>7. Steady
  BY <1>1, <1>3, <1>4, <1>6
  DEF StoreTypes, ConsumeTicket, Outside, history, Steady, Kept
<1>8. /\ Local(c) /\ pc'[c] = "recheck" /\ batch'[c] = batch[c]
      /\ at'[c] = at[c] /\ result'[c] = result[c] /\ held'[c] = t
  <2>1. "recheck" \in Label BY DEF Label
  <2> QED BY <1>1, <1>2, <1>4, <2>1
          DEF CallTypes, ConsumeTicket, To, Local, Still
<1>9. Placed(c)'
  BY <1>8 DEF IInv, Mine, Placed, Early, Handling, Tooling, ConsumeTicket
<1>10. Pays(c)'
  <2>1. \A k \in DOMAIN effects : tickets[effects[k].ticket].state = "used"
    <3>1. \A i : [input |-> i, state |-> "used"].state = "used" OBVIOUS
    <3> QED BY <3>1 DEF IInv, OneTicketPerWrite
  <2>2. \A k \in DOMAIN effects : effects[k].ticket # t BY <1>3, <2>1
  <2> QED BY <1>3, <1>4, <1>6, <1>7, <1>8, <2>2 DEF Pays, Current, Steady
<1>11. OnRecord(c)'
  BY <1>7, <1>8
  DEF IInv, Mine, OnRecord, Tooling, ConsumeTicket, Current, Steady, Kept
<1>12. \A d \in Callers : Mine(d)'
  BY <1>7, <1>8, <1>9, <1>10, <1>11, OtherKept DEF Mine, Local
<1>13. \A d \in Callers : held[d] # t
  <2>1. \A d \in Callers : held[d] # 0 => tickets[held[d]].state = "used"
    <3>1. \A i : [input |-> i, state |-> "used"].state = "used" OBVIOUS
    <3> QED BY <3>1 DEF IInv, Mine, Pays
  <2> QED BY <1>3, <1>4, <2>1
<1>14. \A d, e \in Callers : Apart(d, e)'
  BY <1>8, <1>13 DEF IInv, Apart, Local, Still
<1>15. TypeOK' BY <1>7, <1>8 DEF Steady, Local, TypeOK
<1> QED BY <1>7, <1>12, <1>14, <1>15, EffectsKept DEF IInv

LEMMA InputsTyped == Inputs \subseteq Input
BY SeqElement, BatchesAreInputs DEF Inputs

(* The replacement is paid for with the ticket its call holds. *)
LEMMA RenameStep ==
  ASSUME IInv, NEW c \in Callers, Rename(c)
  PROVE  IInv'
<1> DEFINE effect == [input |-> Current(c), ticket |-> held[c], by |-> op[c]]
<1>1. StoreTypes /\ CallTypes BY DEF IInv, TypeOK
<1>2. Current(c) \in Inputs
  BY <1>1, CurrentInput DEF IInv, Mine, Placed, Handling, Tooling, Rename
<1>3. /\ held[c] # 0 /\ held[c] \in DOMAIN tickets
      /\ tickets[held[c]] = [input |-> Current(c), state |-> "used"]
      /\ \A k \in DOMAIN effects : effects[k].ticket # held[c]
  BY DEF IInv, Mine, Pays, Rename
<1>4. Current(c) \in DOMAIN intents
  BY DEF IInv, Mine, OnRecord, Tooling, Rename
<1>5. effect \in Effect BY <1>1, <1>2 DEF CallTypes, Effect
<1>6. /\ effects \in Seq(Effect) /\ Len(effects) \in Nat
      /\ DOMAIN effects = 1..Len(effects)
      /\ effects' = Append(effects, effect)
  BY <1>1 DEF StoreTypes, Rename
<1>7. /\ effects' \in Seq(Effect)
      /\ DOMAIN effects' = DOMAIN effects \cup {Len(effects) + 1}
      /\ \A k \in DOMAIN effects : effects'[k] = effects[k]
      /\ effects'[Len(effects) + 1] = effect
      /\ Len(effects) + 1 \notin DOMAIN effects
  BY <1>5, <1>6
<1>8. /\ Local(c) /\ pc'[c] = "update" /\ batch'[c] = batch[c]
      /\ at'[c] = at[c] /\ result'[c] = "SUCCEEDED" /\ held'[c] = 0
  BY <1>1, AnswerLocal DEF Rename
<1>9. /\ tickets' = tickets /\ intents' = intents /\ task' = task
      /\ step' = step /\ pending' = pending
  BY DEF Rename, store
<1>10. files' \in [Paths -> Contents \cup {ABSENT}]
  BY <1>1, <1>2, InputsTyped DEF StoreTypes, Rename, Input
<1>11. StoreTypes' BY <1>1, <1>7, <1>9, <1>10 DEF StoreTypes
<1>12. ASSUME NEW d \in Callers \ {c} PROVE Mine(d)'
  <2>1. Still(d) BY <1>8 DEF Local
  <2>2. Current(d)' = Current(d) BY <2>1 DEF Still, Current
  <2>3. Placed(d)' BY <2>1 DEF IInv, Mine, Placed, Still
  <2>4. held[d] # 0 => held[c] # held[d] BY DEF IInv, Apart
  <2>5. Pays(d)'
    BY <1>7, <1>9, <2>1, <2>2, <2>4 DEF IInv, Mine, Pays, Still
  <2>6. OnRecord(d)' BY <1>9, <2>1, <2>2 DEF IInv, Mine, OnRecord, Still
  <2> QED BY <2>3, <2>5, <2>6 DEF Mine
<1>13. Mine(c)'
  <2>1. Placed(c)'
    BY <1>8 DEF IInv, Mine, Placed, Early, Handling, Tooling, Rename, NONE
  <2> QED BY <1>4, <1>8, <1>9, <2>1 DEF Mine, Pays, OnRecord, Current
<1>14. \A d, e \in Callers : Apart(d, e)'
  BY <1>8 DEF IInv, Apart, Local, Still
<1>15. OneTicketPerWrite'
  <2>1. ASSUME NEW k \in DOMAIN effects'
        PROVE  /\ effects'[k].ticket \in DOMAIN tickets
               /\ tickets[effects'[k].ticket] =
                    [input |-> effects'[k].input, state |-> "used"]
    BY <1>3, <1>7 DEF IInv, OneTicketPerWrite
  <2>2. ASSUME NEW j \in DOMAIN effects', NEW k \in DOMAIN effects',
               effects'[j].ticket = effects'[k].ticket
        PROVE  j = k
    BY <1>3, <1>7, <2>2 DEF IInv, OneTicketPerWrite
  <2> QED BY <1>9, <2>1, <2>2 DEF OneTicketPerWrite
<1>16. RecordedBeforeWritten'
  BY <1>4, <1>7, <1>9 DEF IInv, RecordedBeforeWritten
<1> QED BY <1>8, <1>11, <1>12, <1>13, <1>14, <1>15, <1>16
        DEF IInv, TypeOK, Local

LEMMA UpdateStatusStep ==
  ASSUME IInv, NEW c \in Callers, UpdateStatus(c)
  PROVE  IInv'
<1>1. StoreTypes /\ CallTypes BY DEF IInv, TypeOK
<1>2. /\ at[c] \in DOMAIN batch[c]
      /\ result[c] \in {"SUCCEEDED", "FAILED"}
  BY <1>1 DEF CallTypes, IInv, Mine, Placed, Handling, UpdateStatus
<1>3. /\ DOMAIN intents' = DOMAIN intents
      /\ \A i \in DOMAIN intents' :
           intents'[i] \in {"INTENT_RECORDED", "SUCCEEDED", "FAILED"}
  BY <1>1, <1>2 DEF StoreTypes, UpdateStatus, Mark
<1>4. Steady
  BY <1>1, <1>3 DEF StoreTypes, UpdateStatus, Outside, history, Steady, Kept
<1>5. batch[c] \in Seq(Inputs) /\ Len(batch[c]) \in Nat
  BY <1>1 DEF CallTypes
<1>6. Free(c) BY DEF Free, UpdateStatus
<1>7. CASE at[c] < Len(batch[c]) /\ Write(c, at[c] + 1, "context")
  <2>1. at[c] + 1 \in DOMAIN batch[c] BY <1>2, <1>5, <1>7
  <2> QED BY <1>4, <1>6, <1>7, <2>1, WriteKeeps
<1>8. CASE \E o \in {op[c], NONE}, l \in {"idle", "fail_step", "verify_step"} :
             Begin(c, o, l, << >>)
  <2>1. {"idle", "fail_step", "verify_step"} \subseteq
          (Label \ (Tooling \cup {"update", "save_pending", "validate"}))
            \ Handling
    BY DEF Label, Tooling, Handling
  <2>2. {op[c], NONE} \subseteq Operations \cup {NONE}
    BY <1>1 DEF CallTypes
  <2>3. << >> \in Seq(Inputs) OBVIOUS
  <2> QED BY <1>4, <1>8, <2>1, <2>2, <2>3, BeginKeeps
<1> QED BY <1>7, <1>8 DEF UpdateStatus, Return, Proceed

----
(* Steps of nobody's call leave every call as it is. *)
LEMMA OutsideKeeps ==
  ASSUME IInv, Steady, UNCHANGED locals
  PROVE  IInv'
<1>1. \A d \in Callers : Still(d) BY DEF locals, Still
<1>2. CallTypes' BY DEF IInv, TypeOK, CallTypes, locals
<1>3. \A d, e \in Callers : Apart(d, e)' BY <1>1 DEF IInv, Apart, Still
<1> QED BY <1>1, <1>2, <1>3, OtherKept, EffectsKept DEF IInv, TypeOK, Steady

LEMMA EditFileStep ==
  ASSUME IInv, NEW path \in Paths, NEW content \in Contents \cup {ABSENT},
         EditFile(path, content)
  PROVE  IInv'
<1>1. Steady
  BY DEF IInv, TypeOK, StoreTypes, EditFile, store, Steady, Kept
<1> QED BY <1>1, OutsideKeeps DEF EditFile

LEMMA ExpireTicketStep ==
  ASSUME IInv, NEW t \in DOMAIN tickets, ExpireTicket(t)
  PROVE  IInv'
<1>1. StoreTypes BY DEF IInv, TypeOK
<1>2. /\ tickets \in Seq(Ticket) /\ Len(tickets) \in Nat
      /\ DOMAIN tickets = 1..Len(tickets)
  BY <1>1 DEF StoreTypes
<1>3. /\ tickets' \in Seq(Ticket) /\ Len(tickets') = Len(tickets)
      /\ \A u \in DOMAIN tickets \ {t} : tickets'[u] = tickets[u]
  <2>1. tickets[t] \in Ticket BY <1>2, SeqElement
  <2>2. [tickets[t] EXCEPT !.state = "expired"] \in Ticket
    BY <2>1 DEF Ticket
  <2>3. tickets' = [tickets EXCEPT ![t] = [tickets[t] EXCEPT !.state = "expired"]]
    BY DEF ExpireTicket
  <2> QED BY <1>2, <2>2, <2>3
<1>4. tickets[t].state # "used" BY DEF ExpireTicket
<1>5. Steady
  BY <1>1, <1>2, <1>3, <1>4
  DEF StoreTypes, ExpireTicket, history, Steady, Kept
<1> QED BY <1>5, OutsideKeeps DEF ExpireTicket

----
LEMMA Initial == ASSUME Init PROVE IInv
<1>1. files \in [Paths -> Contents \cup {ABSENT}]
  BY WorkspaceIsFiles DEF Init
<1>2. StoreTypes
  BY <1>1, BoundsNat DEF Init, StoreTypes, TaskStatus, StepStatus
<1>3. CallTypes BY DEF Init, CallTypes, Label
<1>4. \A c \in Callers : Mine(c)
  BY DEF Init, Mine, Placed, Pays, OnRecord, Early, Handling, Tooling
<1>5. \A c, d \in Callers : Apart(c, d) BY DEF Init, Apart
<1>6. OneTicketPerWrite /\ RecordedBeforeWritten
  BY DEF Init, OneTicketPerWrite, RecordedBeforeWritten
<1> QED BY <1>2, <1>3, <1>4, <1>5, <1>6 DEF IInv, TypeOK

LEMMA ContinueStep ==
  ASSUME IInv, NEW c \in Callers, Continue(c)
  PROVE  IInv'
<1>1. CASE Advance(c) BY <1>1, AdvanceStep
<1>2. CASE Leave(c) BY <1>2, LeaveStep
<1>3. CASE Propose(c) \/ SavePending(c) \/ LoadPending(c)
  BY <1>3, ProposeStep, SavePendingStep, LoadPendingStep
<1>4. CASE IssueTicket(c) \/ RecordIntent(c) \/ UpdateStatus(c)
  BY <1>4, IssueTicketStep, RecordIntentStep, UpdateStatusStep
<1>5. CASE CheckTarget(c) \/ Recheck(c) \/ ToolFails(c)
  BY <1>5, CheckedStep
<1>6. CASE ConsumeTicket(c) \/ Rename(c)
  BY <1>6, ConsumeTicketStep, RenameStep
<1> QED BY <1>1, <1>2, <1>3, <1>4, <1>5, <1>6 DEF Continue, Advance, Leave

LEMMA NextStep == ASSUME IInv, [Next]_vars PROVE IInv'
<1>1. CASE UNCHANGED vars
  <2>1. Steady
    BY <1>1, SameStore DEF IInv, TypeOK, StoreTypes, vars, store, history,
      Steady, Kept
  <2> QED BY <1>1, <2>1, OutsideKeeps DEF vars
<1>2. ASSUME NEW c \in Callers, NEW o \in Operations, Call(c, o)
      PROVE  IInv'
  BY <1>2, CallStep
<1>3. ASSUME NEW c \in Callers, Continue(c) PROVE IInv'
  BY <1>3, ContinueStep
<1>4. ASSUME NEW c \in Callers, Abort(c) PROVE IInv'
  BY <1>4, LeaveStep DEF Leave
<1>5. ASSUME NEW path \in Paths, NEW content \in Contents \cup {ABSENT},
             EditFile(path, content)
      PROVE  IInv'
  BY <1>5, EditFileStep
<1>6. ASSUME NEW t \in DOMAIN tickets, ExpireTicket(t) PROVE IInv'
  BY <1>6, ExpireTicketStep
<1> QED BY <1>1, <1>2, <1>3, <1>4, <1>5, <1>6 DEF Next

LEMMA Invariant == Spec => []IInv
<1>1. Init => IInv BY Initial
<1>2. IInv /\ [Next]_vars => IInv' BY NextStep
<1> QED BY <1>1, <1>2, PTL DEF Spec

(* Every variable keeps its type.  The write in hand of a call that works   *)
(* through its writes is one of them.                                       *)
THEOREM TypeCorrect == Spec => []TypeOK
<1>1. IInv => TypeOK BY DEF IInv
<1> QED BY <1>1, Invariant, PTL

(* One-use tickets (ConsumeApproval and writeChecked): whatever calls run   *)
(* together, are repeated or are cut off, no two replacements of a file are *)
(* paid for with one ticket, and each is the one its ticket was issued for. *)
THEOREM TicketsUsedOnce == Spec => []OneTicketPerWrite
<1>1. IInv => OneTicketPerWrite BY DEF IInv
<1> QED BY <1>1, Invariant, PTL

(* RecordToolIntentWithEvent comes first: no replacement of a file is ever  *)
(* in the workspace without its intent in the store.                        *)
THEOREM IntentsComeFirst == Spec => []RecordedBeforeWritten
<1>1. IInv => RecordedBeforeWritten BY DEF IInv
<1> QED BY <1>1, Invariant, PTL

----
(* A file found to hold the content asked for does hold it; only a missing  *)
(* file could be taken for an empty one.                                    *)
LEMMA FoundContent ==
  ASSUME IInv, Witnessed, EMPTY \notin Contents, NEW input \in Inputs,
         HashOfFile(input.path) = input.content
  PROVE  <<input.path, input.content>> \in past
<1>1. input.path \in Paths /\ input.content \in Contents
  BY InputsTyped DEF Input
<1>2. files[input.path] = input.content BY <1>1 DEF HashOfFile
<1> QED BY <1>1, <1>2 DEF Witnessed

(* A step that neither answers for a tool nor marks an intent SUCCEEDED. *)
Quiet(c) == pc'[c] # "update" /\ \A d \in Callers \ {c} : Still(d)

Unmarked ==
  /\ files' = files /\ past' = past
  /\ \A i \in DOMAIN intents' : intents'[i] = "SUCCEEDED" =>
       i \in DOMAIN intents /\ intents[i] = "SUCCEEDED"

LEMMA QuietKeeps ==
  ASSUME TInv, NEW c \in Callers, Quiet(c), Unmarked
  PROVE  TInv'
<1>1. Witnessed' BY DEF TInv, Witnessed, Unmarked
<1>2. \A d \in Callers : Told(d)'
  BY DEF TInv, Told, Still, Current, Quiet, Unmarked
<1>3. SucceededMeansWritten'
  BY DEF TInv, SucceededMeansWritten, Unmarked
<1> QED BY <1>1, <1>2, <1>3 DEF TInv

LEMMA QuietBlocks ==
  ASSUME CallTypes, NEW c \in Callers, NEW l, l # "update",
         \/ Goto(c, l)
         \/ \E o, writes : Begin(c, o, l, writes)
         \/ \E k : Write(c, k, l)
  PROVE  Quiet(c)
BY DEF CallTypes, Goto, Begin, Write, To, Quiet, Still

LEMMA AdvanceQuiet ==
  ASSUME CallTypes, NEW c \in Callers, Advance(c)
  PROVE  Quiet(c) /\ Unmarked
<1>1. PICK l : l # "update" /\ Goto(c, l)
  BY DEF Advance, ClaimStep, ParkStep, LoadTask, ValidateBatch, ResumeTask,
      ResumeStep, WriteContext, VerifyStep, CompleteStep, FailStep
<1>2. Unmarked
  BY DEF Advance, ClaimStep, ParkStep, LoadTask, ValidateBatch, ResumeTask,
      ResumeStep, WriteContext, VerifyStep, CompleteStep, FailStep, TaskCAS,
      StepCAS, Outside, history, store, Unmarked
<1> QED BY <1>1, <1>2, QuietBlocks

LEMMA LeaveQuiet ==
  ASSUME CallTypes, NEW c \in Callers, Leave(c)
  PROVE  Quiet(c) /\ Unmarked
<1>1. PICK l, o, writes : l # "update" /\ Begin(c, o, l, writes)
  BY DEF Leave, Abort, ParkTask, PauseTask, MoveToVerifying, TurnFails,
      FailTask, Return, Proceed
<1>2. Unmarked
  BY DEF Leave, Abort, ParkTask, PauseTask, MoveToVerifying, TurnFails,
      FailTask, TaskCAS, StepCAS, Outside, history, store, Unmarked
<1> QED BY <1>1, <1>2, QuietBlocks

LEMMA CallQuiet ==
  ASSUME CallTypes, NEW c \in Callers, NEW o \in Operations, Call(c, o)
  PROVE  Quiet(c) /\ Unmarked
<1>1. PICK l, writes : l # "update" /\ Begin(c, o, l, writes)
  <2>1. CASE o \in {"ApproveWriteFile", "WriteFile"}
    BY <2>1 DEF Call
  <2>2. CASE o \in {"RunModelStep", "ApprovePendingWrite", "RecoverRunningTask"}
    BY <2>2 DEF Call
  <2> QED BY <2>1, <2>2, OperationsKnown DEF AllOperations
<1>2. Unmarked BY DEF Call, Outside, history, store, Unmarked
<1> QED BY <1>1, <1>2, QuietBlocks

LEMMA TakeQuiet ==
  ASSUME CallTypes, NEW c \in Callers,
         Propose(c) \/ LoadPending(c) \/ ConsumeTicket(c)
  PROVE  Quiet(c) /\ Unmarked
BY DEF CallTypes, Propose, LoadPending, ConsumeTicket, To, Outside, history,
       store, Quiet, Still, Unmarked

LEMMA StoreQuiet ==
  ASSUME CallTypes, NEW c \in Callers,
         SavePending(c) \/ IssueTicket(c) \/ RecordIntent(c)
  PROVE  Quiet(c) /\ Unmarked
<1>1. PICK l : /\ l # "update"
               /\ \/ Goto(c, l)
                  \/ \E o, writes : Begin(c, o, l, writes)
                  \/ \E k : Write(c, k, l)
  BY DEF SavePending, IssueTicket, RecordIntent, Return, Proceed
<1>2. Unmarked
  BY DEF SavePending, IssueTicket, RecordIntent, Outside, history, Unmarked
<1> QED BY <1>1, <1>2, QuietBlocks

LEMMA CheckedTold ==
  ASSUME IInv, TInv, EMPTY \notin Contents, NEW c \in Callers,
         CheckTarget(c) \/ Recheck(c) \/ ToolFails(c)
  PROVE  TInv'
<1>1. CallTypes BY DEF IInv, TypeOK
<1>2. Unmarked
  BY DEF CheckTarget, Recheck, ToolFails, Outside, history, store, Unmarked
<1>3. CASE \E l \in {"consume", "rename"} : Goto(c, l)
  BY <1>1, <1>2, <1>3, QuietBlocks, QuietKeeps
<1>4. CASE \E s \in {"SUCCEEDED", "FAILED"} :
             /\ Answer(c, s)
             /\ s = "SUCCEEDED" =>
                  HashOfFile(Current(c).path) = Current(c).content
  <2>1. PICK s \in {"SUCCEEDED", "FAILED"} :
          /\ Answer(c, s)
          /\ s = "SUCCEEDED" =>
               HashOfFile(Current(c).path) = Current(c).content
    BY <1>4
  <2>2. /\ Local(c) /\ batch'[c] = batch[c] /\ at'[c] = at[c]
        /\ result'[c] = s
    BY <1>1, <2>1, AnswerLocal
  <2>3. Current(c) \in Inputs
    BY <1>1, CurrentInput
    DEF IInv, Mine, Placed, Handling, Tooling, CheckTarget, Recheck, ToolFails
  <2>4. Told(c)'
    BY <1>2, <2>1, <2>2, <2>3, FoundContent DEF TInv, Told, Current, Unmarked
  <2>5. \A d \in Callers : Told(d)'
    BY <1>2, <2>2, <2>4 DEF TInv, Told, Local, Still, Current, Unmarked
  <2>6. Witnessed' /\ SucceededMeansWritten'
    BY <1>2 DEF TInv, Witnessed, SucceededMeansWritten, Unmarked
  <2> QED BY <2>5, <2>6 DEF TInv
<1> QED BY <1>3, <1>4 DEF CheckTarget, Recheck, ToolFails, CheckedOr

LEMMA RenameTold ==
  ASSUME IInv, TInv, NEW c \in Callers, Rename(c)
  PROVE  TInv'
<1>1. StoreTypes /\ CallTypes BY DEF IInv, TypeOK
<1>2. Current(c) \in Inputs
  BY <1>1, CurrentInput DEF IInv, Mine, Placed, Handling, Tooling, Rename
<1>3. Local(c) /\ batch'[c] = batch[c] /\ at'[c] = at[c]
  BY <1>1, AnswerLocal DEF Rename
<1>4. /\ past' = past \cup {<<Current(c).path, Current(c).content>>}
      /\ files' = [files EXCEPT ![Current(c).path] = Current(c).content]
      /\ intents' = intents
  BY DEF Rename, store
<1>5. Witnessed' BY <1>1, <1>4 DEF TInv, Witnessed, StoreTypes
<1>6. \A d \in Callers : Told(d)'
  BY <1>3, <1>4 DEF TInv, Told, Local, Still, Current
<1>7. SucceededMeansWritten' BY <1>4 DEF TInv, SucceededMeansWritten
<1> QED BY <1>5, <1>6, <1>7 DEF TInv

LEMMA UpdateStatusTold ==
  ASSUME IInv, TInv, NEW c \in Callers, UpdateStatus(c)
  PROVE  TInv'
<1>1. CallTypes BY DEF IInv, TypeOK
<1>2. PICK l : /\ l # "update"
               /\ \/ \E o, writes : Begin(c, o, l, writes)
                  \/ \E k : Write(c, k, l)
  BY DEF UpdateStatus, Return, Proceed
<1>3. Quiet(c) BY <1>1, <1>2, QuietBlocks
<1>4. files' = files /\ past' = past BY DEF UpdateStatus, Outside, history
<1>5. Witnessed' BY <1>4 DEF TInv, Witnessed
<1>6. \A d \in Callers : Told(d)'
  BY <1>3, <1>4 DEF TInv, Told, Still, Current, Quiet
<1>7. SucceededMeansWritten'
  BY <1>4 DEF TInv, Told, SucceededMeansWritten, UpdateStatus, Mark
<1> QED BY <1>5, <1>6, <1>7 DEF TInv

LEMMA OutsideTold ==
  ASSUME TInv, UNCHANGED locals, past \subseteq past', intents' = intents,
         \A p \in Paths : files'[p] = files[p] \/ <<p, files'[p]>> \in past'
  PROVE  TInv'
<1>1. \A d \in Callers : Told(d)' BY DEF TInv, Told, locals, Current
<1>2. Witnessed' /\ SucceededMeansWritten'
  BY DEF TInv, Witnessed, SucceededMeansWritten
<1> QED BY <1>1, <1>2 DEF TInv

LEMMA NextTold ==
  ASSUME IInv, TInv, EMPTY \notin Contents, [Next]_vars
  PROVE  TInv'
<1>1. CallTypes /\ StoreTypes BY DEF IInv, TypeOK
<1>2. CASE UNCHANGED vars
  BY <1>2, OutsideTold DEF vars, store, history
<1>3. ASSUME NEW c \in Callers, NEW o \in Operations, Call(c, o)
      PROVE  TInv'
  BY <1>1, <1>3, CallQuiet, QuietKeeps
<1>4. ASSUME NEW c \in Callers, Abort(c) PROVE TInv'
  BY <1>1, <1>4, LeaveQuiet, QuietKeeps DEF Leave
<1>5. ASSUME NEW c \in Callers, Continue(c) PROVE TInv'
  <2>1. CASE Advance(c) BY <1>1, <2>1, AdvanceQuiet, QuietKeeps
  <2>2. CASE Leave(c) BY <1>1, <2>2, LeaveQuiet, QuietKeeps
  <2>3. CASE Propose(c) \/ LoadPending(c) \/ ConsumeTicket(c)
    BY <1>1, <2>3, TakeQuiet, QuietKeeps
  <2>4. CASE SavePending(c) \/ IssueTicket(c) \/ RecordIntent(c)
    BY <1>1, <2>4, StoreQuiet, QuietKeeps
  <2>5. CASE CheckTarget(c) \/ Recheck(c) \/ ToolFails(c)
    BY <2>5, CheckedTold
  <2>6. CASE Rename(c) \/ UpdateStatus(c)
    BY <2>6, RenameTold, UpdateStatusTold
  <2> QED BY <1>5, <2>1, <2>2, <2>3, <2>4, <2>5, <2>6
          DEF Continue, Advance, Leave
<1>6. ASSUME NEW path \in Paths, NEW content \in Contents \cup {ABSENT},
             EditFile(path, content)
      PROVE  TInv'
  BY <1>1, <1>6, OutsideTold DEF EditFile, store, StoreTypes
<1>7. ASSUME NEW t \in DOMAIN tickets, ExpireTicket(t) PROVE TInv'
  BY <1>7, OutsideTold DEF ExpireTicket, history
<1> QED BY <1>2, <1>3, <1>4, <1>5, <1>6, <1>7 DEF Next

(* UpdateToolIntentStatus tells the truth, provided no proposal writes an   *)
(* empty file (hash("") is what checkExpectedContent takes a missing file   *)
(* for): an intent marked SUCCEEDED is of a content its file did hold.      *)
THEOREM SucceededIsTrue ==
  ASSUME EMPTY \notin Contents
  PROVE  Spec => []SucceededMeansWritten
<1>1. Init => TInv
  BY DEF Init, TInv, Witnessed, Told, SucceededMeansWritten
<1>2. IInv /\ TInv /\ [Next]_vars => TInv' BY NextTold
<1>3. TInv => SucceededMeansWritten BY DEF TInv
<1> QED BY <1>1, <1>2, <1>3, Invariant, PTL DEF Spec

----
(* One call at a time has the step in hand: the one that claimed it, until  *)
(* it parks it, and then the one that resumed it, until it passes it on.    *)
Drafting == {"propose", "save_pending", "park_step"}
Resuming == {"resume_task", "resume_step"}
Working == {"context", "intent", "update"} \cup Tooling
Open == {"READY", "WAITING_APPROVAL"}

Approving(c) == op[c] = "ApprovePendingWrite"
Owns(c) ==
  \/ pc[c] \in Drafting
  \/ Approving(c) /\ pc[c] \in Working \cup {"verify_step"}

Was(input) == <<input.path, input.content>> \in past
Whole(writes) == \A k \in DOMAIN writes : Was(writes[k])
Passed == pending # << >> /\ Whole(pending[Len(pending)])

(* which operation a call is, as far as its label tells *)
Named(c) ==
  /\ pc[c] \in {"load_task", "load_pending", "validate", "verify_step"}
                 \cup Resuming => Approving(c)
  /\ pc[c] = "approve" => op[c] \in {"ApprovePendingWrite", "ApproveWriteFile"}
  /\ pc[c] \in Working => op[c] \in {"ApprovePendingWrite", "WriteFile"}

(* an approval works through the proposal that is still the newest, ...     *)
Reads(c) ==
  Approving(c) /\ pc[c] \in {"validate", "approve"} \cup Resuming \cup Working =>
    pending # << >> /\ batch[c] = pending[Len(pending)]

(* ... for a call that has still to store one claimed the step before       *)
(* anything was proposed, ...                                               *)
Drafts(c) == pc[c] \in {"propose", "save_pending"} => pending = << >>

(* ... the writes before the one in hand were done, ...                     *)
Wrote(c) ==
  /\ Approving(c) /\ pc[c] \in Resuming \cup Working =>
       \A k \in DOMAIN batch[c] : k < at[c] => Was(batch[c][k])
  /\ pc[c] = "verify_step" => Passed

(* ... and no other call can take the step meanwhile.                       *)
Turn(c) == Owns(c) => step \notin Open

Each(c) == Named(c) /\ Reads(c) /\ Drafts(c) /\ Wrote(c) /\ Turn(c)
Sole(c, d) == Owns(c) /\ Owns(d) => c = d

BInv ==
  /\ \A c \in Callers : Each(c)
  /\ \A c, d \in Callers : Sole(c, d)
  /\ step = "READY" => pending = << >>
  /\ CompletedBatchWritten

LEMMA CompletedMeansPassed ==
  CompletedBatchWritten <=> (step \in {"VERIFYING", "COMPLETED"} => Passed)
BY DEF CompletedBatchWritten, Passed, Whole, Was

LEMMA PassedStays ==
  ASSUME Passed, pending' = pending, past \subseteq past'
  PROVE  Passed'
BY DEF Passed, Whole, Was

LEMMA OtherSame ==
  ASSUME NEW d \in Callers, Each(d), Still(d), pending' = pending,
         past \subseteq past', Owns(d) => step' \notin Open
  PROVE  Each(d)' /\ (Owns(d)' <=> Owns(d))
<1>1. Owns(d)' <=> Owns(d) BY DEF Owns, Approving, Still
<1>2. Named(d)' BY DEF Each, Named, Approving, Still
<1>3. Reads(d)' /\ Drafts(d)' BY DEF Each, Reads, Drafts, Approving, Still
<1>4. Wrote(d)' BY PassedStays DEF Each, Wrote, Approving, Was, Still
<1>5. Turn(d)' BY <1>1 DEF Turn
<1> QED BY <1>1, <1>2, <1>3, <1>4, <1>5 DEF Each

(* A step that stores no proposal: only its caller's own conditions and the *)
(* step are left to show.                                                   *)
LEMMA BatchStep ==
  ASSUME BInv, NEW c \in Callers, \A d \in Callers \ {c} : Still(d),
         pending' = pending, past \subseteq past', Each(c)',
         Owns(c)' => Owns(c) \/ \A d \in Callers : ~Owns(d),
         \A d \in Callers \ {c} : Owns(d) => step' \notin Open,
         step' = "READY" => step = "READY",
         step' \in {"VERIFYING", "COMPLETED"} =>
           step \in {"VERIFYING", "COMPLETED"} \/ Passed
  PROVE  BInv'
<1>1. \A d \in Callers \ {c} : Each(d)' /\ (Owns(d)' <=> Owns(d))
  BY OtherSame DEF BInv
<1>2. \A d \in Callers : Each(d)' BY <1>1
<1>3. \A d, e \in Callers : Sole(d, e)' BY <1>1 DEF BInv, Sole
<1>4. step' = "READY" => pending' = << >> BY DEF BInv
<1>5. step' \in {"VERIFYING", "COMPLETED"} => Passed'
  BY CompletedMeansPassed, PassedStays DEF BInv
<1>6. CompletedBatchWritten'
  BY <1>5 DEF CompletedBatchWritten, Passed, Whole, Was
<1> QED BY <1>2, <1>3, <1>4, <1>6 DEF BInv

(* The step of a call whose place says nothing of a proposal afterwards. *)
LEMMA AwayBatch ==
  ASSUME BInv, NEW c \in Callers, \A d \in Callers \ {c} : Still(d),
         pending' = pending, past \subseteq past', Each(c)', ~Owns(c)',
         \/ step' = step
         \/ step' = "FAILED"
         \/ step' = "WAITING_APPROVAL" /\ Owns(c)
         \/ step' = "VERIFYING" /\ Passed
         \/ step' = "COMPLETED" /\ step = "VERIFYING"
  PROVE  BInv'
<1>1. \A d \in Callers \ {c} : Owns(d) => step' \notin Open
  BY DEF BInv, Each, Turn, Sole, Open
<1> QED BY <1>1, BatchStep

Away == {"idle", "claim", "pause", "park_task", "fail_step", "fail_task",
         "complete_step", "verify_task"}

LEMMA AwayFree ==
  ASSUME NEW c \in Callers, pc[c]' \in Away
  PROVE  Each(c)' /\ ~Owns(c)'
BY DEF Away, Each, Named, Reads, Drafts, Wrote, Turn, Owns, Drafting, Resuming,
       Working, Tooling

(* A call that keeps its place in the writes of its proposal. *)
Onward(a, b) ==
  \/ a = "load_task" /\ b = "load_pending"
  \/ a = "validate" /\ b = "approve"
  \/ a = "resume_task" /\ b = "resume_step"
  \/ a \in Working /\ b \in Working

LEMMA OnwardBatch ==
  ASSUME BInv, NEW c \in Callers, \A d \in Callers \ {c} : Still(d),
         pending' = pending, step' = step, past \subseteq past',
         Onward(pc[c], pc'[c]),
         op'[c] = op[c], batch'[c] = batch[c], at'[c] = at[c]
  PROVE  BInv'
<1>1. Each(c) BY DEF BInv
<1>2. Named(c)'
  BY <1>1 DEF Each, Named, Approving, Onward, Working, Tooling, Resuming
<1>3. Reads(c)'
  BY <1>1 DEF Each, Reads, Approving, Onward, Working, Tooling, Resuming
<1>4. Drafts(c)' BY DEF Drafts, Onward, Working, Tooling
<1>5. Wrote(c)'
  BY <1>1
  DEF Each, Wrote, Approving, Was, Onward, Working, Tooling, Resuming
<1>6. Owns(c)' <=> Owns(c)
  BY DEF Owns, Approving, Drafting, Onward, Working, Tooling
<1>7. Turn(c)' BY <1>1, <1>6 DEF Each, Turn
<1>8. Each(c)' BY <1>2, <1>3, <1>4, <1>5, <1>7 DEF Each
<1>9. \A d \in Callers \ {c} : Owns(d) => step' \notin Open
  BY DEF BInv, Each, Turn
<1> QED BY <1>6, <1>8, <1>9, BatchStep

----
(* What the blocks leave of the calls, the operation included. *)
Alone(c) == \A d \in Callers \ {c} : Still(d)
Place(c) == op'[c] = op[c] /\ batch'[c] = batch[c] /\ at'[c] = at[c]

LEMMA BlockFrame ==
  ASSUME CallTypes, NEW c \in Callers, NEW l
  PROVE  /\ Goto(c, l) => Alone(c) /\ Place(c) /\ pc'[c] = l
         /\ \A s : Answer(c, s) => Alone(c) /\ Place(c) /\ pc'[c] = "update"
         /\ \A o, writes : Begin(c, o, l, writes) =>
              Alone(c) /\ pc'[c] = l /\ op'[c] = o /\ batch'[c] = writes
         /\ \A k : Write(c, k, l) =>
              /\ Alone(c) /\ pc'[c] = l /\ op'[c] = op[c]
              /\ batch'[c] = batch[c] /\ at'[c] = k
<1>1. Goto(c, l) => Alone(c) /\ Place(c) /\ pc'[c] = l
  BY DEF CallTypes, Goto, To, Alone, Still, Place
<1>2. ASSUME NEW s, Answer(c, s)
      PROVE  Alone(c) /\ Place(c) /\ pc'[c] = "update"
  BY <1>2 DEF CallTypes, Answer, To, Alone, Still, Place
<1>3. ASSUME NEW o, NEW writes, Begin(c, o, l, writes)
      PROVE  Alone(c) /\ pc'[c] = l /\ op'[c] = o /\ batch'[c] = writes
  BY <1>3 DEF CallTypes, Begin, To, Alone, Still
<1>4. ASSUME NEW k, Write(c, k, l)
      PROVE  /\ Alone(c) /\ pc'[c] = l /\ op'[c] = op[c]
             /\ batch'[c] = batch[c] /\ at'[c] = k
  BY <1>4 DEF CallTypes, Write, To, Alone, Still
<1> QED BY <1>1, <1>2, <1>3, <1>4

(* The statements that keep the call at its write. *)
LEMMA WorkBatch ==
  ASSUME IInv, BInv, NEW c \in Callers,
         \/ LoadTask(c) \/ ValidateBatch(c) \/ ResumeTask(c)
         \/ WriteContext(c) \/ RecordIntent(c) \/ CheckTarget(c)
         \/ ConsumeTicket(c) \/ Recheck(c) \/ Rename(c) \/ ToolFails(c)
  PROVE  BInv'
<1>1. CallTypes BY DEF IInv, TypeOK
<1>2. pending' = pending /\ step' = step /\ past \subseteq past'
  BY DEF LoadTask, ValidateBatch, ResumeTask, TaskCAS, WriteContext,
      RecordIntent, CheckTarget, ConsumeTicket, Recheck, Rename, ToolFails,
      store, Outside, history
<1>3. CASE \E l : Goto(c, l) /\ Onward(pc[c], l)
  BY <1>1, <1>2, <1>3, BlockFrame, OnwardBatch DEF Alone, Place
<1>4. CASE \E s : Answer(c, s) /\ pc[c] \in Tooling
  <2>1. Onward(pc[c], "update") BY <1>4 DEF Onward, Working
  <2> QED BY <1>1, <1>2, <1>4, <2>1, BlockFrame, OnwardBatch DEF Alone, Place
<1>5. CASE ConsumeTicket(c)
  <2>1. Alone(c) /\ Place(c) /\ pc'[c] = "recheck"
    BY <1>1, <1>5 DEF CallTypes, ConsumeTicket, To, Alone, Still, Place
  <2>2. Onward(pc[c], "recheck")
    BY <1>5 DEF ConsumeTicket, Onward, Working, Tooling
  <2> QED BY <1>2, <2>1, <2>2, OnwardBatch DEF Alone, Place
<1>6. CASE LoadTask(c) \/ ValidateBatch(c) \/ ResumeTask(c)
             \/ WriteContext(c) \/ RecordIntent(c)
  BY <1>3, <1>6 DEF LoadTask, ValidateBatch, ResumeTask, WriteContext,
      RecordIntent, Onward, Working, Tooling
<1>7. CASE CheckTarget(c) \/ Recheck(c) \/ ToolFails(c) \/ Rename(c)
  <2>1. pc[c] \in Tooling
    BY <1>7 DEF Tooling, CheckTarget, Recheck, ToolFails, Rename
  <2>2. \/ \E s : Answer(c, s)
        \/ pc[c] = "check" /\ Goto(c, "consume")
        \/ pc[c] = "recheck" /\ Goto(c, "rename")
    BY <1>7 DEF CheckTarget, Recheck, ToolFails, Rename, CheckedOr
  <2>3. Onward("check", "consume") /\ Onward("recheck", "rename")
    BY DEF Onward, Working, Tooling
  <2> QED BY <1>3, <1>4, <2>1, <2>2, <2>3
<1> QED BY <1>5, <1>6, <1>7

(* The call that claims the step, and the one that resumes it: no other has *)
(* it in hand.                                                              *)
LEMMA TakeStepBatch ==
  ASSUME IInv, BInv, NEW c \in Callers, ClaimStep(c) \/ ResumeStep(c)
  PROVE  BInv'
<1>1. CallTypes BY DEF IInv, TypeOK
<1>2. /\ Alone(c) /\ Place(c) /\ pending' = pending /\ past' = past
      /\ step \in Open /\ step' = "RUNNING"
  BY <1>1, BlockFrame
  DEF ClaimStep, ResumeStep, StepCAS, Outside, history, Open
<1>3. \A d \in Callers : ~Owns(d) BY <1>2 DEF BInv, Each, Turn
<1>4. Each(c) BY DEF BInv
<1>5. step' \notin Open BY <1>2 DEF Open
<1>6. Each(c)'
  <2>1. CASE ClaimStep(c)
    <3>1. pc'[c] = "propose" BY <1>1, <2>1, BlockFrame DEF ClaimStep
    <3>2. pending' = << >> BY <1>2, <2>1 DEF BInv, ClaimStep, StepCAS
    <3> QED BY <1>5, <3>1, <3>2
            DEF Each, Named, Reads, Drafts, Wrote, Turn, Resuming, Working,
                Tooling
  <2>2. CASE ResumeStep(c)
    <3>1. pc[c] = "resume_step" /\ pc'[c] = "context"
      BY <1>1, <2>2, BlockFrame DEF ResumeStep
    <3>2. Named(c)' /\ Reads(c)' /\ Drafts(c)'
      BY <1>2, <1>4, <3>1
      DEF Place, Each, Named, Reads, Drafts, Approving, Resuming, Working,
          Tooling
    <3>3. Wrote(c)'
      BY <1>2, <1>4, <3>1
      DEF Place, Each, Named, Wrote, Was, Approving, Resuming, Working, Tooling
    <3> QED BY <1>5, <3>2, <3>3 DEF Each, Turn
  <2> QED BY <2>1, <2>2
<1> QED BY <1>2, <1>3, <1>5, <1>6, BatchStep DEF Alone

(* The statements that end a call or leave its writes behind, and those     *)
(* that pass the step on.                                                   *)
LEMMA LeaveBatch ==
  ASSUME IInv, BInv, NEW c \in Callers,
         \/ Leave(c) \/ ParkStep(c) \/ VerifyStep(c) \/ CompleteStep(c)
         \/ FailStep(c)
  PROVE  BInv'
<1>1. CallTypes BY DEF IInv, TypeOK
<1>2. \E l \in Away : Goto(c, l) \/ \E o : Begin(c, o, l, << >>)
  BY DEF Leave, Abort, ParkTask, PauseTask, MoveToVerifying, TurnFails,
      FailTask, ParkStep, VerifyStep, CompleteStep, FailStep, Return, Proceed,
      Away
<1>3. Alone(c) /\ pc'[c] \in Away BY <1>1, <1>2, BlockFrame
<1>4. Each(c)' /\ ~Owns(c)' BY <1>3, AwayFree
<1>5. pending' = pending /\ past' = past
  BY DEF Leave, Abort, ParkTask, PauseTask, MoveToVerifying, TurnFails,
      FailTask, ParkStep, VerifyStep, CompleteStep, FailStep, TaskCAS,
      StepCAS, Outside, history, store
<1>6. \/ step' = step
      \/ step' = "FAILED"
      \/ step' = "WAITING_APPROVAL" /\ Owns(c)
      \/ step' = "VERIFYING" /\ Passed
      \/ step' = "COMPLETED" /\ step = "VERIFYING"
  <2>1. CASE ParkStep(c)
    BY <2>1 DEF ParkStep, StepCAS, Owns, Drafting
  <2>2. CASE VerifyStep(c)
    BY <2>2 DEF VerifyStep, StepCAS, BInv, Each, Wrote
  <2>3. CASE CompleteStep(c) \/ FailStep(c)
    BY <2>3 DEF CompleteStep, FailStep, StepCAS, store
  <2>4. CASE Leave(c)
    BY <2>4 DEF Leave, Abort, ParkTask, PauseTask, MoveToVerifying, TurnFails,
        FailTask, TaskCAS, store
  <2> QED BY <2>1, <2>2, <2>3, <2>4
<1> QED BY <1>3, <1>4, <1>5, <1>6, AwayBatch DEF Alone

LEMMA CallBatch ==
  ASSUME IInv, BInv, NEW c \in Callers, NEW o \in Operations, Call(c, o)
  PROVE  BInv'
<1>1. CallTypes BY DEF IInv, TypeOK
<1>2. pending' = pending /\ step' = step /\ past' = past
  BY DEF Call, store, Outside, history
<1>3. \/ o = "WriteFile" /\ \E w : Begin(c, o, "context", w)
      \/ o = "ApproveWriteFile" /\ \E w : Begin(c, o, "approve", w)
      \/ o = "ApprovePendingWrite" /\ Begin(c, o, "load_task", << >>)
      \/ \E l \in Away : Begin(c, o, l, << >>)
  <2>1. CASE o \in {"ApproveWriteFile", "WriteFile"} BY <2>1 DEF Call
  <2>2. CASE o \in {"RunModelStep", "ApprovePendingWrite", "RecoverRunningTask"}
    BY <2>2 DEF Call, Away
  <2> QED BY <2>1, <2>2, OperationsKnown DEF AllOperations
<1>4. /\ Alone(c)
      /\ \/ op'[c] = "WriteFile" /\ pc'[c] = "context"
         \/ op'[c] = "ApproveWriteFile" /\ pc'[c] = "approve"
         \/ op'[c] = "ApprovePendingWrite" /\ pc'[c] = "load_task"
         \/ pc'[c] \in Away
  BY <1>1, <1>3, BlockFrame
<1>5. CASE pc'[c] \in Away
  BY <1>2, <1>4, <1>5, AwayFree, AwayBatch DEF Alone
<1>6. CASE pc'[c] \notin Away
  <2>1. Each(c)' /\ ~Owns(c)'
    BY <1>4, <1>6
    DEF Each, Named, Reads, Drafts, Wrote, Turn, Owns, Approving, Drafting,
        Resuming, Working, Tooling
  <2> QED BY <1>2, <1>4, <2>1, AwayBatch DEF Alone
<1> QED BY <1>5, <1>6

(* The proposal is made, stored and read back. *)
LEMMA ProposeBatch ==
  ASSUME IInv, BInv, NEW c \in Callers, Propose(c) \/ LoadPending(c)
  PROVE  BInv'
<1>1. CallTypes BY DEF IInv, TypeOK
<1>2. Each(c) BY DEF BInv
<1>3. pending' = pending /\ step' = step /\ past' = past /\ op' = op
  BY DEF Propose, LoadPending, store, Outside, history
<1>4. Alone(c)
  BY <1>1 DEF CallTypes, Propose, LoadPending, To, Alone, Still
<1>5. Each(c)' /\ (Owns(c)' <=> Owns(c))
  <2>1. CASE Propose(c)
    <3>1. pc[c] = "propose" /\ pc'[c] = "save_pending"
      BY <1>1, <2>1 DEF CallTypes, Propose, To
    <3> QED BY <1>2, <1>3, <3>1
            DEF Each, Named, Reads, Drafts, Wrote, Turn, Owns, Approving,
                Drafting, Resuming, Working, Tooling
  <2>2. CASE LoadPending(c)
    <3>1. /\ pc[c] = "load_pending" /\ pc'[c] = "validate"
          /\ pending # << >> /\ batch'[c] = pending[Len(pending)]
      BY <1>1, <2>2 DEF CallTypes, LoadPending, To
    <3> QED BY <1>2, <1>3, <3>1
            DEF Each, Named, Reads, Drafts, Wrote, Turn, Owns, Approving,
                Drafting, Resuming, Working, Tooling
  <2> QED BY <2>1, <2>2
<1>6. \A d \in Callers \ {c} : Owns(d) => step' \notin Open
  BY <1>3 DEF BInv, Each, Turn
<1> QED BY <1>3, <1>4, <1>5, <1>6, BatchStep DEF Alone

(* It is stored while nothing has been proposed yet and no other call has   *)
(* the step, so no approval is under way that could miss it.                *)
LEMMA SavePendingBatch ==
  ASSUME IInv, BInv, NEW c \in Callers, SavePending(c)
  PROVE  BInv'
<1>1. CallTypes BY DEF IInv, TypeOK
<1>2. Each(c) /\ Owns(c) BY DEF BInv, Owns, Drafting, SavePending
<1>3. pending = << >> /\ step \notin Open
  BY <1>2 DEF Each, Drafts, Turn, SavePending
<1>4. /\ Alone(c) /\ pc'[c] = "park_step" /\ op'[c] = op[c]
      /\ step' = step /\ past' = past
  BY <1>1, BlockFrame DEF SavePending, Proceed, Outside, history
<1>5. Each(c)' /\ Owns(c)'
  BY <1>2, <1>3, <1>4
  DEF Each, Named, Reads, Drafts, Wrote, Turn, Owns, Drafting, Resuming,
      Working, Tooling
<1>6. ~Passed BY <1>3 DEF Passed
<1>7. ASSUME NEW d \in Callers \ {c} PROVE Each(d)' /\ ~Owns(d)'
  <2>1. Still(d) BY <1>4 DEF Alone
  <2>2. Each(d) /\ ~Owns(d) BY <1>2 DEF BInv, Sole
  <2>3. ~Owns(d)' BY <2>1, <2>2 DEF Owns, Approving, Still
  <2>4. Named(d)' BY <2>1, <2>2 DEF Each, Named, Approving, Still
  <2>5. pc[d] \notin {"propose", "save_pending", "verify_step"}
    BY <1>6, <2>2 DEF Each, Wrote, Owns, Drafting
  <2>6. ~(Approving(d) /\ pc[d] \in
            {"validate", "approve"} \cup Resuming \cup Working)
    BY <1>3, <2>2 DEF Each, Reads
  <2>7. Reads(d)' /\ Drafts(d)' /\ Wrote(d)'
    BY <2>1, <2>5, <2>6 DEF Reads, Drafts, Wrote, Approving, Still
  <2> QED BY <2>3, <2>4, <2>7 DEF Each, Turn
<1>8. \A d, e \in Callers : Sole(d, e)' BY <1>7 DEF Sole
<1>9. step \notin {"VERIFYING", "COMPLETED"}
  BY <1>6, CompletedMeansPassed DEF BInv
<1>10. CompletedBatchWritten' BY <1>4, <1>9 DEF CompletedBatchWritten
<1> QED BY <1>3, <1>4, <1>5, <1>7, <1>8, <1>10 DEF BInv, Open

LEMMA IssueTicketBatch ==
  ASSUME IInv, BInv, NEW c \in Callers, IssueTicket(c)
  PROVE  BInv'
<1>1. CallTypes BY DEF IInv, TypeOK
<1>2. Each(c) /\ pc[c] = "approve" BY DEF BInv, IssueTicket
<1>3. pending' = pending /\ step' = step /\ past' = past
  BY DEF IssueTicket, Outside, history
<1>4. CASE op[c] = "ApproveWriteFile"
  <2>1. Begin(c, NONE, "idle", << >>) BY <1>4 DEF IssueTicket, Return
  <2>2. Alone(c) /\ pc'[c] = "idle" BY <1>1, <2>1, BlockFrame
  <2>3. Each(c)' /\ ~Owns(c)' BY <2>2, AwayFree DEF Away
  <2> QED BY <1>3, <2>2, <2>3, AwayBatch DEF Alone
<1>5. CASE op[c] # "ApproveWriteFile" /\ Write(c, at[c] + 1, "approve")
  <2>1. Alone(c) /\ pc'[c] = "approve" /\ op'[c] = op[c] /\ batch'[c] = batch[c]
    BY <1>1, <1>5, BlockFrame
  <2>2. Each(c)' /\ ~Owns(c)'
    BY <1>2, <1>3, <1>5, <2>1
    DEF Each, Named, Reads, Drafts, Wrote, Turn, Owns, Approving, Drafting,
        Resuming, Working, Tooling
  <2> QED BY <1>3, <2>1, <2>2, AwayBatch DEF Alone
<1>6. CASE op[c] # "ApproveWriteFile" /\ Write(c, 1, "resume_task")
  <2>1. /\ Alone(c) /\ pc'[c] = "resume_task" /\ op'[c] = op[c]
        /\ batch'[c] = batch[c] /\ at'[c] = 1
    BY <1>1, <1>6, BlockFrame
  <2>2. \A j \in DOMAIN batch[c] : ~(j < 1) BY <1>1 DEF CallTypes
  <2>3. Named(c)' /\ Reads(c)' /\ Drafts(c)' /\ ~Owns(c)'
    BY <1>2, <1>3, <1>6, <2>1
    DEF Each, Named, Reads, Drafts, Owns, Approving, Drafting, Resuming,
        Working, Tooling
  <2>4. Wrote(c)' BY <2>1, <2>2 DEF Wrote
  <2>5. Each(c)' BY <2>3, <2>4 DEF Each, Turn
  <2> QED BY <1>3, <2>1, <2>3, <2>5, AwayBatch DEF Alone
<1> QED BY <1>4, <1>5, <1>6 DEF IssueTicket

(* A write that succeeded is the next of the proposal that was done, and    *)
(* the last of them makes it whole.                                         *)
LEMMA UpdateStatusBatch ==
  ASSUME IInv, TInv, BInv, NEW c \in Callers, UpdateStatus(c)
  PROVE  BInv'
<1>1. CallTypes BY DEF IInv, TypeOK
<1>2. Each(c) /\ pc[c] = "update" BY DEF BInv, UpdateStatus
<1>3. pending' = pending /\ step' = step /\ past' = past
  BY DEF UpdateStatus, Outside, history
<1>4. CASE \E o, l : l \in Away /\ Begin(c, o, l, << >>)
  <2>1. Alone(c) /\ pc'[c] \in Away BY <1>1, <1>4, BlockFrame
  <2>2. Each(c)' /\ ~Owns(c)' BY <2>1, AwayFree
  <2> QED BY <1>3, <2>1, <2>2, AwayBatch DEF Alone
<1>5. CASE op[c] # "WriteFile" /\ result[c] # "FAILED"
  <2>1. Approving(c) /\ Owns(c)
    BY <1>2, <1>5 DEF Each, Named, Approving, Owns, Working
  <2>2. result[c] = "SUCCEEDED" /\ at[c] \in DOMAIN batch[c]
    BY <1>1, <1>2, <1>5 DEF CallTypes, IInv, Mine, Placed, Handling
  <2>3. Was(batch[c][at[c]])
    BY <1>2, <2>2 DEF TInv, Told, Current, Was
  <2>4. /\ batch[c] \in Seq(Inputs) /\ Len(batch[c]) \in Nat /\ at[c] \in Nat
        /\ DOMAIN batch[c] = 1..Len(batch[c])
    BY <1>1 DEF CallTypes
  <2>5. \A k \in DOMAIN batch[c] : k < at[c] + 1 => Was(batch[c][k])
    <3>1. \A k \in DOMAIN batch[c] : k < at[c] => Was(batch[c][k])
      BY <1>2, <2>1 DEF Each, Wrote, Working
    <3>2. \A k \in DOMAIN batch[c] : k < at[c] + 1 => k < at[c] \/ k = at[c]
      BY <2>4
    <3> QED BY <2>3, <3>1, <3>2
  <2>6. pending # << >> /\ batch[c] = pending[Len(pending)]
    BY <1>2, <2>1 DEF Each, Reads, Working
  <2>7. CASE Write(c, at[c] + 1, "context")
    <3>1. /\ Alone(c) /\ pc'[c] = "context" /\ op'[c] = op[c]
          /\ batch'[c] = batch[c] /\ at'[c] = at[c] + 1
      BY <1>1, <2>7, BlockFrame
    <3>2. Named(c)' /\ Reads(c)' /\ Drafts(c)' /\ Owns(c)'
      BY <1>3, <2>1, <2>6, <3>1
      DEF Named, Reads, Drafts, Owns, Approving, Resuming, Working, Tooling
    <3>3. Wrote(c)' BY <1>3, <2>5, <3>1 DEF Wrote, Was
    <3>4. Turn(c)' BY <1>2, <1>3, <2>1 DEF Each, Turn
    <3>5. \A d \in Callers \ {c} : Owns(d) => step' \notin Open
      BY <1>3 DEF BInv, Each, Turn
    <3>6. Each(c)' BY <3>2, <3>3, <3>4 DEF Each
    <3> QED BY <1>3, <2>1, <3>1, <3>5, <3>6, BatchStep DEF Alone
  <2>8. CASE Begin(c, op[c], "verify_step", << >>) /\ ~(at[c] < Len(batch[c]))
    <3>1. /\ Alone(c) /\ pc'[c] = "verify_step" /\ op'[c] = op[c]
      BY <1>1, <2>8, BlockFrame
    <3>2. Passed
      <4>1. \A k \in DOMAIN batch[c] : k < at[c] + 1 BY <2>4, <2>8
      <4> QED BY <2>5, <2>6, <4>1 DEF Passed, Whole
    <3>3. Passed' BY <1>3, <3>2, PassedStays
    <3>4. Named(c)' /\ Reads(c)' /\ Drafts(c)' /\ Wrote(c)' /\ Owns(c)'
      BY <2>1, <3>1, <3>3
      DEF Named, Reads, Drafts, Wrote, Owns, Approving, Resuming, Working,
          Tooling
    <3>5. Turn(c)' BY <1>2, <1>3, <2>1 DEF Each, Turn
    <3>6. \A d \in Callers \ {c} : Owns(d) => step' \notin Open
      BY <1>3 DEF BInv, Each, Turn
    <3>7. Each(c)' BY <3>4, <3>5 DEF Each
    <3> QED BY <1>3, <2>1, <3>1, <3>6, <3>7, BatchStep DEF Alone
  <2> QED BY <1>5, <2>7, <2>8 DEF UpdateStatus, Proceed
<1> QED BY <1>4, <1>5 DEF UpdateStatus, Return, Proceed, Away

----
LEMMA OutsideBatch ==
  ASSUME BInv, UNCHANGED locals, pending' = pending, step' = step,
         past \subseteq past'
  PROVE  BInv'
<1>1. ASSUME NEW d \in Callers PROVE Each(d)' /\ (Owns(d)' <=> Owns(d))
  <2>1. Still(d) BY DEF locals, Still
  <2> QED BY <2>1, OtherSame DEF BInv, Each, Turn
<1>2. \A d, e \in Callers : Sole(d, e)' BY <1>1 DEF BInv, Sole
<1>3. CompletedBatchWritten' BY DEF BInv, CompletedBatchWritten
<1> QED BY <1>1, <1>2, <1>3 DEF BInv

LEMMA InitialBatch == ASSUME Init PROVE BInv
<1>1. \A c \in Callers : Each(c) /\ ~Owns(c)
  BY DEF Init, Each, Named, Reads, Drafts, Wrote, Turn, Owns, Drafting,
      Resuming, Working, Tooling
<1>2. CompletedBatchWritten BY DEF Init, CompletedBatchWritten
<1> QED BY <1>1, <1>2 DEF Init, BInv, Sole

LEMMA NextBatch ==
  ASSUME IInv, TInv, BInv, [Next]_vars
  PROVE  BInv'
<1>1. CASE UNCHANGED vars
  BY <1>1, OutsideBatch DEF vars, store, history
<1>2. ASSUME NEW c \in Callers, NEW o \in Operations, Call(c, o)
      PROVE  BInv'
  BY <1>2, CallBatch
<1>3. ASSUME NEW c \in Callers, Abort(c) PROVE BInv'
  BY <1>3, LeaveBatch DEF Leave
<1>4. ASSUME NEW c \in Callers, Continue(c) PROVE BInv'
  <2>1. CASE \/ LoadTask(c) \/ ValidateBatch(c) \/ ResumeTask(c)
             \/ WriteContext(c) \/ RecordIntent(c) \/ CheckTarget(c)
             \/ ConsumeTicket(c) \/ Recheck(c) \/ Rename(c) \/ ToolFails(c)
    BY <2>1, WorkBatch
  <2>2. CASE ClaimStep(c) \/ ResumeStep(c) BY <2>2, TakeStepBatch
  <2>3. CASE \/ Leave(c) \/ ParkStep(c) \/ VerifyStep(c) \/ CompleteStep(c)
             \/ FailStep(c)
    BY <2>3, LeaveBatch
  <2>4. CASE Propose(c) \/ LoadPending(c) BY <2>4, ProposeBatch
  <2>5. CASE SavePending(c) BY <2>5, SavePendingBatch
  <2>6. CASE IssueTicket(c) BY <2>6, IssueTicketBatch
  <2>7. CASE UpdateStatus(c) BY <2>7, UpdateStatusBatch
  <2> QED BY <1>4, <2>1, <2>2, <2>3, <2>4, <2>5, <2>6, <2>7
          DEF Continue, Leave
<1>5. ASSUME NEW path \in Paths, NEW content \in Contents \cup {ABSENT},
             EditFile(path, content)
      PROVE  BInv'
  BY <1>5, OutsideBatch DEF EditFile, store
<1>6. ASSUME NEW t \in DOMAIN tickets, ExpireTicket(t) PROVE BInv'
  BY <1>6, OutsideBatch DEF ExpireTicket, history
<1> QED BY <1>1, <1>2, <1>3, <1>4, <1>5, <1>6 DEF Next

(* ApprovePendingWrite (its loop over the files of the proposal): whatever  *)
(* calls run together, are repeated or are cut off, the step is VERIFYING   *)
(* or COMPLETED only after every write of the newest proposal had its       *)
(* content in its file.  As for SucceededIsTrue, no proposal writes an      *)
(* empty file.                                                              *)
THEOREM CompletedIsWhole ==
  ASSUME EMPTY \notin Contents
  PROVE  Spec => []CompletedBatchWritten
<1>1. Init => TInv /\ BInv
  BY InitialBatch DEF Init, TInv, Witnessed, Told, SucceededMeansWritten
<1>2. IInv /\ TInv /\ BInv /\ [Next]_vars => TInv' /\ BInv'
  BY NextTold, NextBatch
<1>3. BInv => CompletedBatchWritten BY DEF BInv
<1> QED BY <1>1, <1>2, <1>3, Invariant, PTL DEF Spec
----
(* ToolIntents implements ApprovedWrites.  The projection of a sequence of  *)
(* records to one of their fields goes with Append.                         *)
LEMMA InputsAppend ==
  ASSUME NEW s \in Seq(Ticket), NEW t \in Ticket
  PROVE  [k \in DOMAIN Append(s, t) |-> Append(s, t)[k].input] =
           Append([k \in DOMAIN s |-> s[k].input], t.input)
<1>1. \A k \in DOMAIN s : s[k].input \in Inputs
  <2>1. \A k \in DOMAIN s : s[k] \in Ticket BY SeqElement
  <2> QED BY <2>1 DEF Ticket
<1>2. Len(s) \in Nat /\ DOMAIN s = 1..Len(s) OBVIOUS
<1>3. [k \in 1..Len(s) |-> s[k].input] \in Seq(Inputs) BY <1>1, <1>2, IsASeq
<1> QED BY <1>2, <1>3 DEF Ticket

LEMMA TicketsAppend ==
  ASSUME NEW s \in Seq(Effect), NEW e \in Effect
  PROVE  [k \in DOMAIN Append(s, e) |-> Append(s, e)[k].ticket] =
           Append([k \in DOMAIN s |-> s[k].ticket], e.ticket)
<1>1. \A k \in DOMAIN s : s[k].ticket \in Nat
  <2>1. \A k \in DOMAIN s : s[k] \in Effect BY SeqElement
  <2> QED BY <2>1 DEF Effect
<1>2. Len(s) \in Nat /\ DOMAIN s = 1..Len(s) OBVIOUS
<1>3. [k \in 1..Len(s) |-> s[k].ticket] \in Seq(Nat) BY <1>1, <1>2, IsASeq
<1> QED BY <1>2, <1>3 DEF Effect

(* A step that touches neither the workspace nor what is on record of it;   *)
(* its call may let go of a ticket.                                         *)
Hands(c) ==
  /\ held'[c] \in {0, held[c]}
  /\ \A d \in Callers \ {c} : held'[d] = held[d]

Untouched == UNCHANGED <<tickets, intents, files, past, effects>>

LEMMA SameHands ==
  ASSUME tickets' = tickets, \A d \in Callers : held'[d] = held[d]
  PROVE  Approved' = Approved /\ InHand' = InHand
BY DEF Approved, InHand

(* A ticket let go of before its write is withdrawn. *)
LEMMA HandsStep ==
  ASSUME IInv, NEW c \in Callers, Hands(c), Untouched
  PROVE  A!Next \/ UNCHANGED A!promise
<1>1. Spent' = Spent BY DEF Untouched, Spent
<1>2. CASE held'[c] = held[c]
  <2>1. \A d \in Callers : held'[d] = held[d] BY <1>2 DEF Hands
  <2>2. Approved' = Approved /\ InHand' = InHand
    BY <2>1, SameHands DEF Untouched
  <2> QED BY <1>1, <2>2
          DEF Untouched, A!promise, A!gate, A!workspace
<1>3. CASE held[c] # 0 /\ held'[c] = 0
  <2>1. /\ held[c] \in DOMAIN tickets
        /\ tickets[held[c]].state = "used"
        /\ \A d \in Callers \ {c} : held[d] # held[c]
    <3>1. \A i : [input |-> i, state |-> "used"].state = "used" OBVIOUS
    <3> QED BY <1>3, <3>1 DEF IInv, Mine, Pays, Apart
  <2>2. 0 \notin DOMAIN tickets BY DEF IInv, TypeOK, StoreTypes
  <2>3. held[c] \in InHand BY <2>1 DEF InHand
  <2>4. InHand' = InHand \ {held[c]}
    BY <1>3, <2>1, <2>2 DEF InHand, Hands, Untouched
  <2>5. Approved' = Approved BY DEF Approved, Untouched
  <2>6. A!Withdraw(held[c])
    BY <1>1, <2>4, <2>5 DEF Untouched, A!Withdraw, A!workspace
  <2> QED BY <2>3, <2>6 DEF A!Next
<1> QED BY <1>2, <1>3 DEF Hands

LEMMA HandsBlocks ==
  ASSUME CallTypes, NEW c \in Callers,
         \/ \E l : Goto(c, l)
         \/ \E o, l, writes : Begin(c, o, l, writes)
         \/ \E k, l : Write(c, k, l)
         \/ \E s : Answer(c, s)
         \/ UNCHANGED held
  PROVE  Hands(c)
BY DEF CallTypes, Goto, Begin, Write, Answer, Hands

LEMMA PlainStep ==
  ASSUME IInv, NEW c \in Callers,
         \/ Advance(c) \/ Leave(c) \/ Propose(c) \/ SavePending(c)
         \/ LoadPending(c) \/ CheckTarget(c) \/ Recheck(c) \/ ToolFails(c)
         \/ \E o \in Operations : Call(c, o)
  PROVE  A!Next \/ UNCHANGED A!promise
<1>1. CallTypes BY DEF IInv, TypeOK
<1>2. CASE Advance(c)
  <2>1. \E l : Goto(c, l)
    BY <1>2 DEF Advance, ClaimStep, ParkStep, LoadTask, ValidateBatch,
      ResumeTask, ResumeStep, WriteContext, VerifyStep, CompleteStep, FailStep
  <2>2. Untouched
    BY <1>2 DEF Advance, ClaimStep, ParkStep, LoadTask, ValidateBatch,
      ResumeTask, ResumeStep, WriteContext, VerifyStep, CompleteStep, FailStep,
      TaskCAS, StepCAS, Outside, history, store, Untouched
  <2> QED BY <1>1, <2>1, <2>2, HandsBlocks, HandsStep
<1>3. CASE Leave(c)
  <2>1. \E o, l, writes : Begin(c, o, l, writes)
    BY <1>3 DEF Leave, Abort, ParkTask, PauseTask, MoveToVerifying, TurnFails,
      FailTask, Return, Proceed
  <2>2. Untouched
    BY <1>3 DEF Leave, Abort, ParkTask, PauseTask, MoveToVerifying, TurnFails,
      FailTask, TaskCAS, StepCAS, Outside, history, store, Untouched
  <2> QED BY <1>1, <2>1, <2>2, HandsBlocks, HandsStep
<1>4. CASE Propose(c) \/ LoadPending(c) \/ SavePending(c)
  <2>1. UNCHANGED held \/ \E o, l, writes : Begin(c, o, l, writes)
    BY <1>4 DEF Propose, LoadPending, SavePending, Proceed
  <2>2. Untouched
    BY <1>4 DEF Propose, LoadPending, SavePending, Outside, history, store,
      Untouched
  <2> QED BY <1>1, <2>1, <2>2, HandsBlocks, HandsStep
<1>5. CASE CheckTarget(c) \/ Recheck(c) \/ ToolFails(c)
  <2>1. (\E l : Goto(c, l)) \/ \E s : Answer(c, s)
    BY <1>5 DEF CheckTarget, Recheck, ToolFails, CheckedOr
  <2>2. Untouched
    BY <1>5 DEF CheckTarget, Recheck, ToolFails, Outside, history, store,
      Untouched
  <2> QED BY <1>1, <2>1, <2>2, HandsBlocks, HandsStep
<1>6. CASE \E o \in Operations : Call(c, o)
  <2>1. PICK o \in Operations : Call(c, o) BY <1>6
  <2>2. \E l, writes : Begin(c, o, l, writes)
    <3>1. CASE o \in {"ApproveWriteFile", "WriteFile"} BY <2>1, <3>1 DEF Call
    <3>2. CASE o \in {"RunModelStep", "ApprovePendingWrite", "RecoverRunningTask"}
      BY <2>1, <3>2 DEF Call
    <3> QED BY <3>1, <3>2, OperationsKnown DEF AllOperations
  <2>3. Untouched BY <2>1 DEF Call, Outside, history, store, Untouched
  <2> QED BY <1>1, <2>2, <2>3, HandsBlocks, HandsStep
<1> QED BY <1>2, <1>3, <1>4, <1>5, <1>6

(* A new ticket is a new approval, for a write that may be proposed. *)
LEMMA IssueImplements ==
  ASSUME IInv, NEW c \in Callers, IssueTicket(c)
  PROVE  A!Next
<1> DEFINE ticket == [input |-> Current(c), state |-> "usable"]
<1>1. StoreTypes /\ CallTypes BY DEF IInv, TypeOK
<1>2. Current(c) \in Inputs
  BY <1>1, CurrentInput DEF IInv, Mine, Placed, Handling, IssueTicket
<1>3. ticket \in Ticket BY <1>2 DEF Ticket
<1>4. /\ tickets \in Seq(Ticket) /\ Len(tickets) \in Nat
      /\ DOMAIN tickets = 1..Len(tickets)
      /\ tickets' = Append(tickets, ticket)
  BY <1>1 DEF StoreTypes, IssueTicket
<1>5. /\ DOMAIN tickets' = DOMAIN tickets \cup {Len(tickets) + 1}
      /\ \A t \in DOMAIN tickets : tickets'[t] = tickets[t]
      /\ tickets'[Len(tickets) + 1] = ticket
      /\ Len(tickets) + 1 \notin DOMAIN tickets
  BY <1>3, <1>4
<1>6. Approved' = Append(Approved, Current(c))
  BY <1>3, <1>4, InputsAppend DEF Approved
<1>7. Len(Approved) = Len(tickets)
  <2>1. DOMAIN Approved = 1..Len(tickets) BY <1>4 DEF Approved
  <2>2. Approved \in Seq(Inputs)
    <3>1. \A k \in DOMAIN tickets : tickets[k] \in Ticket
      BY <1>4, SeqElement
    <3>2. \A k \in DOMAIN tickets : tickets[k].input \in Inputs
      BY <3>1 DEF Ticket
    <3> QED BY <1>4, <3>2, IsASeq DEF Approved
  <2> QED BY <1>4, <2>1, <2>2
<1>8. \A d \in Callers : held'[d] = held[d]
  <2>1. held[c] = 0 BY FreeHoldsNone DEF Free, IssueTicket
  <2>2. Hands(c)
    <3>1. \/ \E o, l, writes : Begin(c, o, l, writes)
          \/ \E k, l : Write(c, k, l)
      BY DEF IssueTicket, Return
    <3> QED BY <1>1, <3>1, HandsBlocks
  <2> QED BY <2>1, <2>2 DEF Hands
<1>9. \A d \in Callers : held[d] # Len(tickets) + 1
  <2>1. \A d \in Callers : held[d] = 0 \/ held[d] \in DOMAIN tickets
    BY DEF IInv, Mine, Pays
  <2>2. Len(tickets) + 1 # 0 BY <1>4
  <2> QED BY <1>5, <2>1, <2>2
<1>10. InHand' = InHand \cup {Len(Approved) + 1}
  BY <1>5, <1>7, <1>8, <1>9 DEF InHand
<1>11. Spent' = Spent /\ UNCHANGED <<intents, files, past>>
  BY DEF IssueTicket, Outside, history, Spent
<1>12. A!Approve(Current(c))
  BY <1>6, <1>10, <1>11 DEF A!Approve, A!workspace
<1> QED BY <1>2, <1>12 DEF A!Next

LEMMA RecordImplements ==
  ASSUME IInv, NEW c \in Callers, RecordIntent(c)
  PROVE  A!Next
<1>1. CallTypes BY DEF IInv, TypeOK
<1>2. Current(c) \in Inputs
  BY <1>1, CurrentInput DEF IInv, Mine, Placed, Handling, RecordIntent
<1>3. /\ tickets' = tickets /\ effects' = effects /\ files' = files
      /\ past' = past /\ held' = held
  BY DEF RecordIntent, Goto, Outside, history
<1>4. UNCHANGED <<Approved, InHand, Spent>>
  BY <1>3, SameHands DEF Spent
<1>5. A!Record(Current(c))
  BY <1>3, <1>4 DEF RecordIntent, A!Record, A!gate, A!workspace
<1> QED BY <1>2, <1>5 DEF A!Next

(* A consumed ticket is still an approval: it changes hands. *)
LEMMA ConsumeImplements ==
  ASSUME IInv, NEW c \in Callers, ConsumeTicket(c)
  PROVE  UNCHANGED A!promise
<1>1. StoreTypes /\ CallTypes BY DEF IInv, TypeOK
<1>2. PICK t \in Usable(Current(c)) :
        /\ tickets' = [tickets EXCEPT ![t].state = "used"]
        /\ held' = [held EXCEPT ![c] = t]
  BY DEF ConsumeTicket
<1>3. t \in DOMAIN tickets /\ tickets[t].state = "usable"
  <2>1. \A i : [input |-> i, state |-> "usable"].state = "usable" OBVIOUS
  <2> QED BY <2>1 DEF Usable
<1>4. tickets[t] \in Ticket BY <1>1, <1>3, SeqElement DEF StoreTypes
<1>5. /\ DOMAIN tickets' = DOMAIN tickets
      /\ \A u \in DOMAIN tickets : tickets'[u].input = tickets[u].input
      /\ \A u \in DOMAIN tickets \ {t} : tickets'[u] = tickets[u]
      /\ tickets'[t].state = "used"
  BY <1>2, <1>3, <1>4 DEF Ticket
<1>6. Approved' = Approved BY <1>5 DEF Approved
<1>7. held'[c] = t /\ \A d \in Callers \ {c} : held'[d] = held[d]
  BY <1>1, <1>2 DEF CallTypes
<1>8. held[c] = 0 /\ 0 \notin DOMAIN tickets
  BY <1>1, FreeHoldsNone DEF Free, ConsumeTicket, StoreTypes
<1>9. InHand' = InHand BY <1>3, <1>5, <1>7, <1>8 DEF InHand
<1>10. Spent' = Spent /\ UNCHANGED <<intents, files, past>>
  BY DEF ConsumeTicket, Outside, history, Spent
<1> QED BY <1>6, <1>9, <1>10 DEF A!promise, A!gate, A!workspace

(* The replacement of the file is the moment its approval is spent. *)
LEMMA RenameImplements ==
  ASSUME IInv, NEW c \in Callers, Rename(c)
  PROVE  A!Next
<1> DEFINE effect == [input |-> Current(c), ticket |-> held[c], by |-> op[c]]
<1>1. StoreTypes /\ CallTypes BY DEF IInv, TypeOK
<1>2. Current(c) \in Inputs /\ Current(c) \in DOMAIN intents
  BY <1>1, CurrentInput
  DEF IInv, Mine, Placed, OnRecord, Handling, Tooling, Rename
<1>3. /\ held[c] # 0 /\ held[c] \in DOMAIN tickets
      /\ tickets[held[c]] = [input |-> Current(c), state |-> "used"]
  BY DEF IInv, Mine, Pays, Rename
<1>4. /\ tickets[held[c]].input = Current(c)
      /\ tickets[held[c]].state = "used"
  <2>1. \A i : /\ [input |-> i, state |-> "used"].input = i
               /\ [input |-> i, state |-> "used"].state = "used"
    OBVIOUS
  <2> QED BY <1>3, <2>1
<1>5. held[c] \in InHand /\ Approved[held[c]] = Current(c)
  BY <1>3, <1>4 DEF InHand, Approved
<1>6. effect \in Effect BY <1>1, <1>2 DEF CallTypes, Effect
<1>7. Spent' = Append(Spent, held[c])
  <2>1. effects \in Seq(Effect) /\ effects' = Append(effects, effect)
    BY <1>1 DEF StoreTypes, Rename
  <2> QED BY <1>6, <2>1, TicketsAppend DEF Spent
<1>8. /\ tickets' = tickets /\ intents' = intents
      /\ files' = [files EXCEPT ![Current(c).path] = Current(c).content]
      /\ past' = past \cup {<<Current(c).path, Current(c).content>>}
  BY DEF Rename, store
<1>9. held'[c] = 0 /\ \A d \in Callers \ {c} : held'[d] = held[d]
  BY <1>1, AnswerLocal DEF Rename, Local, Still
<1>10. InHand' = InHand \ {held[c]}
  <2>1. 0 \notin DOMAIN tickets BY <1>1 DEF StoreTypes
  <2>2. \A d \in Callers \ {c} : held[d] # held[c]
    BY <1>3 DEF IInv, Apart
  <2> QED BY <1>4, <1>8, <1>9, <2>1, <2>2 DEF InHand
<1>11. Approved' = Approved BY <1>8 DEF Approved
<1>12. A!Replace(held[c])
  BY <1>2, <1>5, <1>7, <1>8, <1>10, <1>11 DEF A!Replace, A!Put
<1> QED BY <1>5, <1>12 DEF A!Next

LEMMA UpdateImplements ==
  ASSUME IInv, TInv, NEW c \in Callers, UpdateStatus(c)
  PROVE  A!Next
<1>1. StoreTypes /\ CallTypes BY DEF IInv, TypeOK
<1>2. /\ Current(c) \in DOMAIN intents
      /\ result[c] \in {"SUCCEEDED", "FAILED"}
  BY <1>1 DEF CallTypes, IInv, Mine, OnRecord, Placed, UpdateStatus
<1>3. result[c] = "SUCCEEDED" =>
        <<Current(c).path, Current(c).content>> \in past
  BY DEF TInv, Told, UpdateStatus
<1>4. intents' = [intents EXCEPT ![Current(c)] = result[c]]
  BY <1>2 DEF UpdateStatus, Mark
<1>5. \A d \in Callers : held'[d] = held[d]
  <2>1. held[c] = 0 BY FreeHoldsNone DEF Free, UpdateStatus
  <2>2. Hands(c)
    <3>1. \/ \E o, l, writes : Begin(c, o, l, writes)
          \/ \E k, l : Write(c, k, l)
      BY DEF UpdateStatus, Return, Proceed
    <3> QED BY <1>1, <3>1, HandsBlocks
  <2> QED BY <2>1, <2>2 DEF Hands
<1>6. /\ tickets' = tickets /\ effects' = effects
      /\ files' = files /\ past' = past
  BY DEF UpdateStatus, Outside, history
<1>7. UNCHANGED <<Approved, InHand, Spent>>
  BY <1>5, <1>6, SameHands DEF Spent
<1>8. A!Report(Current(c), result[c])
  BY <1>3, <1>4, <1>6, <1>7 DEF A!Report, A!gate, A!workspace
<1> QED BY <1>2, <1>8 DEF A!Next

LEMMA EditImplements ==
  ASSUME IInv, NEW path \in Paths, NEW content \in Contents \cup {ABSENT},
         EditFile(path, content)
  PROVE  A!Next
<1>1. /\ tickets' = tickets /\ held' = held /\ effects' = effects
      /\ intents' = intents
  BY DEF EditFile, store, locals
<1>2. UNCHANGED <<Approved, InHand, Spent>>
  BY <1>1, SameHands DEF Spent
<1>3. A!Edit(path, content)
  BY <1>1, <1>2 DEF EditFile, A!Edit, A!Put, A!gate
<1>4. path \in DOMAIN Original BY WorkspaceIsFiles
<1> QED BY <1>3, <1>4 DEF A!Next

LEMMA ExpireImplements ==
  ASSUME IInv, NEW t \in DOMAIN tickets, ExpireTicket(t)
  PROVE  A!Next
<1>1. StoreTypes BY DEF IInv, TypeOK
<1>2. tickets[t] \in Ticket /\ tickets[t].state = "usable"
  BY <1>1, SeqElement DEF StoreTypes, ExpireTicket
<1>3. /\ DOMAIN tickets' = DOMAIN tickets
      /\ \A u \in DOMAIN tickets : tickets'[u].input = tickets[u].input
      /\ \A u \in DOMAIN tickets \ {t} : tickets'[u] = tickets[u]
      /\ tickets'[t].state = "expired"
  BY <1>2 DEF ExpireTicket, Ticket
<1>4. Approved' = Approved BY <1>3 DEF Approved
<1>5. \A d \in Callers : held[d] # t
  <2>1. \A i : [input |-> i, state |-> "used"].state = "used" OBVIOUS
  <2>2. 0 \notin DOMAIN tickets BY <1>1 DEF StoreTypes
  <2> QED BY <1>2, <2>1, <2>2 DEF IInv, Mine, Pays
<1>6. held' = held /\ Spent' = Spent /\ UNCHANGED <<intents, files, past>>
  BY DEF ExpireTicket, locals, history, Spent
<1>7. InHand' = InHand \ {t} BY <1>3, <1>5, <1>6 DEF InHand
<1>8. t \in InHand BY <1>2 DEF InHand
<1>9. A!Withdraw(t) BY <1>4, <1>6, <1>7 DEF A!Withdraw, A!workspace
<1> QED BY <1>8, <1>9 DEF A!Next

LEMMA InitialImplements == ASSUME Init PROVE A!Init
<1>1. tickets = << >> /\ effects = << >> BY DEF Init
<1>2. Approved = << >> /\ Spent = << >> /\ InHand = {}
  BY <1>1 DEF Approved, Spent, InHand
<1>3. DOMAIN Original = Paths BY WorkspaceIsFiles
<1> QED BY <1>2, <1>3 DEF Init, A!Init

(* The whole of the write path (ApproveWriteFile, WriteFile,                *)
(* ApprovePendingWrite, ConsumeApproval, writeChecked) implements           *)
(* ApprovedWrites: to an observer of the tickets, the intents and the       *)
(* workspace, a file is replaced in one step that spends one approval of    *)
(* exactly that replacement, on record before, and nothing is reported done *)
(* that was not.  No proposal writes an empty file, as for SucceededIsTrue. *)
THEOREM ImplementsApproved ==
  ASSUME EMPTY \notin Contents
  PROVE  Spec => ImplementsApprovedWrites
<1>1. Init => A!Init BY InitialImplements
<1>2. Init => TInv
  BY DEF Init, TInv, Witnessed, Told, SucceededMeansWritten
<1>3. IInv /\ TInv /\ [Next]_vars => TInv' BY NextTold
<1>4. IInv /\ TInv /\ [Next]_vars => [A!Next]_(A!promise)
  <2> SUFFICES ASSUME IInv, TInv, [Next]_vars
               PROVE  A!Next \/ UNCHANGED A!promise
    OBVIOUS
  <2>1. CASE UNCHANGED vars
    <3>1. UNCHANGED <<tickets, effects, held, intents, files, past>>
      BY <2>1 DEF vars, store, locals, history
    <3>2. UNCHANGED <<Approved, InHand, Spent>>
      BY <3>1, SameHands DEF Spent
    <3> QED BY <3>1, <3>2 DEF A!promise, A!gate, A!workspace
  <2>2. ASSUME NEW c \in Callers, NEW o \in Operations, Call(c, o)
        PROVE  A!Next \/ UNCHANGED A!promise
    BY <2>2, PlainStep
  <2>3. ASSUME NEW c \in Callers, Abort(c)
        PROVE  A!Next \/ UNCHANGED A!promise
    BY <2>3, PlainStep DEF Leave
  <2>4. ASSUME NEW c \in Callers, Continue(c)
        PROVE  A!Next \/ UNCHANGED A!promise
    <3>1. CASE \/ Advance(c) \/ Leave(c) \/ Propose(c) \/ SavePending(c)
               \/ LoadPending(c) \/ CheckTarget(c) \/ Recheck(c) \/ ToolFails(c)
      BY <3>1, PlainStep
    <3>2. CASE IssueTicket(c) \/ RecordIntent(c) \/ ConsumeTicket(c)
      BY <3>2, IssueImplements, RecordImplements, ConsumeImplements
    <3>3. CASE Rename(c) \/ UpdateStatus(c)
      BY <3>3, RenameImplements, UpdateImplements
    <3> QED BY <2>4, <3>1, <3>2, <3>3 DEF Continue, Advance, Leave
  <2>5. ASSUME NEW path \in Paths, NEW content \in Contents \cup {ABSENT},
               EditFile(path, content)
        PROVE  A!Next
    BY <2>5, EditImplements
  <2>6. ASSUME NEW t \in DOMAIN tickets, ExpireTicket(t) PROVE A!Next
    BY <2>6, ExpireImplements
  <2> QED BY <2>1, <2>2, <2>3, <2>4, <2>5, <2>6 DEF Next
<1> QED BY <1>1, <1>2, <1>3, <1>4, Invariant, PTL
        DEF Spec, ImplementsApprovedWrites, A!Spec

=============================================================================
