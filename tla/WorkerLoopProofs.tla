-------------------------- MODULE WorkerLoopProofs --------------------------
(***************************************************************************)
(* Theorems about WorkerLoop, for any actions, answers, failures of the    *)
(* endpoint, token counts, budgets and numbers of iterations.              *)
(***************************************************************************)
EXTENDS WorkerLoop, FiniteSetTheorems, SequenceTheorems, WellFoundedInduction,
        TLAPS

SetupTypes ==
  /\ mode \in {"PLAN", "EDIT", "DEVELOPMENT"} /\ duty \in Duties
  /\ allowed \in SUBSET Actions
  /\ context \in Contexts

HttpTypes ==
  /\ request \in Seq(Messages)
  /\ maxOutput \in Nat /\ output \in Nat
  /\ retries \in 0 .. 2 /\ shrunk \in BOOLEAN

TalkTypes ==
  messages \in Seq(Messages) /\ repaired \in BOOLEAN /\ pushed \in BOOLEAN

BatchTypes ==
  /\ calls \in Seq(Call)
  /\ queue \subseteq DOMAIN calls /\ replays \subseteq DOMAIN calls
  /\ replies \in Seq(Messages)
  /\ ran \in Status \cup {NONE}
  /\ batchStart \in Nat
  /\ invoked \subseteq Call

MemoryTypes ==
  /\ seen \subseteq Actions
  /\ DOMAIN cached \subseteq ReadRisk
  /\ \A a \in DOMAIN cached : cached[a] \in Status
  /\ mutated \in BOOLEAN

ReportTypes ==
  /\ iteration \in 0 .. MaxIterations
  /\ results \in Seq([act : Actions, status : Status])
  /\ usage \in Nat

RecordTypes ==
  /\ pending \in BOOLEAN
  /\ intents \in [Writes -> {NONE, "INTENT_RECORDED"} \cup Status]
  /\ effects \in [Writes -> Nat]
  /\ step \in {"RUNNING", "VERIFYING", "WAITING_USER", "WAITING_APPROVAL",
               "FAILED"}

Labels == {"prepare", "chat", "backoff", "answered", "batch", "returned",
           "settled"}

Types ==
  /\ SetupTypes /\ HttpTypes /\ TalkTypes /\ BatchTypes /\ MemoryTypes
  /\ ReportTypes /\ RecordTypes
  /\ pc \in Labels /\ outcome \in {NONE, "ok"} \cup Codes /\ outBudget \in Nat

LEMMA TypesAreTypeOK == Types <=> TypeOK
BY DEF Types, TypeOK, SetupTypes, HttpTypes, TalkTypes, BatchTypes,
   MemoryTypes, ReportTypes, RecordTypes, Labels

(* What belongs to an answer is there only while it is worked through, and  *)
(* then its calls are allowed and its repeated reads have results.          *)
Shape ==
  /\ pc # "batch" => queue = {} /\ replays = {} /\ ran = NONE /\ invoked = {}
  /\ pc \in {"chat", "backoff", "answered", "batch"} => iteration < MaxIterations
  /\ pc = "batch" => \A k \in DOMAIN calls : calls[k].act \in allowed
  /\ \A k \in replays : calls[k].act \in DOMAIN cached
  /\ ran # NONE => queue # {}

IInv == Types /\ Shape

----
(* The least of a set of numbers is one of them. *)
Less == {ss \in Nat \X Nat : ss[1] < ss[2]}

LEMMA LessIsWellFounded == IsWellFoundedOn(Less, Nat)
BY NatLessThanWellFounded DEF OpToRel, Less

LEMMA MinIsLeast ==
  ASSUME NEW S \in SUBSET Nat, S # {}
  PROVE  Min(S) \in S /\ \A j \in S : Min(S) <= j
<1>1. PICK x \in S : \A y \in S : ~ (<<y, x>> \in Less)
  BY LessIsWellFounded, WFMin
<1>2. ASSUME NEW y \in S PROVE x <= y
  <2>1. x \in Nat /\ y \in Nat OBVIOUS
  <2>2. <<y, x>> \in Nat \X Nat BY <2>1
  <2>3. ~ (<<y, x>>[1] < <<y, x>>[2]) BY <1>1, <2>2 DEF Less
  <2> QED BY <2>1, <2>3
<1> QED BY <1>2 DEF Min

LEMMA Elements ==
  ASSUME NEW S, NEW s \in Seq(S)
  PROVE  /\ Len(s) \in Nat /\ DOMAIN s = 1 .. Len(s)
         /\ \A k \in DOMAIN s : k \in Nat /\ s[k] \in S
BY ElementOfSeq

LEMMA Added ==
  ASSUME NEW S, NEW s \in Seq(S), NEW e \in S
  PROVE  /\ Append(s, e) \in Seq(S)
         /\ DOMAIN Append(s, e) = DOMAIN s \cup {Len(s) + 1}
         /\ Len(s) + 1 \notin DOMAIN s
         /\ Append(s, e)[Len(s) + 1] = e
         /\ \A k \in DOMAIN s : Append(s, e)[k] = s[k]
BY AppendProperties

LEMMA Mapped ==
  ASSUME NEW S, NEW s \in Seq(S), NEW T, NEW f, f = [k \in DOMAIN s |-> f[k]],
         \A k \in DOMAIN s : f[k] \in T
  PROVE  f \in Seq(T)
<1>1. Len(s) \in Nat /\ DOMAIN s = 1 .. Len(s) OBVIOUS
<1>2. f \in [1 .. Len(s) -> T] BY <1>1
<1> QED BY <1>1, <1>2, SeqDef

LEMMA CompactTyped ==
  ASSUME NEW talked \in Seq(Messages)
  PROVE  Compact(talked) \in Seq(Messages)
<1>1. \A k \in DOMAIN talked : talked[k] \in Messages BY Elements
<1>2. \A k \in DOMAIN talked : Compact(talked)[k] \in Messages
  BY <1>1 DEF Compact, Message, Messages
<1>3. Compact(talked) = [k \in DOMAIN talked |-> Compact(talked)[k]]
  BY DEF Compact
<1> QED BY <1>2, <1>3, Mapped

LEMMA OneMessage ==
  ASSUME NEW role \in Roles, NEW ids \in Seq(Nat)
  PROVE  Message(role, ids) \in Messages
BY DEF Message, Messages

----
(* Return, NextIteration and Goto. *)
LEMMA NoRequestTypes ==
  ASSUME NoRequest
  PROVE  HttpTypes'
<1>1. << >> \in Seq(Messages) BY EmptySeq
<1>2. request' \in Seq(Messages) BY <1>1 DEF NoRequest
<1>3. maxOutput' \in Nat /\ output' \in Nat /\ retries' \in 0 .. 2
  BY DEF NoRequest
<1>4. shrunk' = FALSE BY DEF NoRequest
<1> QED BY <1>2, <1>3, <1>4 DEF HttpTypes

LEMMA ReturnKeeps ==
  ASSUME IInv, NEW code \in Codes \cup {"ok"}, Return(code), ReportTypes',
         outBudget' \in Nat, RecordTypes'
  PROVE  IInv'
<1>1. << >> \in Seq(Messages) /\ << >> \in Seq(Call) BY EmptySeq
<1>2. SetupTypes' BY DEF IInv, Types, SetupTypes, Return, Goto, setup
<1>3. HttpTypes' BY NoRequestTypes DEF Return
<1>8. TalkTypes' BY <1>1 DEF Return, TalkTypes
<1>6. BatchTypes' BY <1>1 DEF Return, NoBatch, BatchTypes
<1>7. MemoryTypes' BY DEF Return, MemoryTypes, Nothing
<1>4. pc' = "returned" /\ outcome' = code BY DEF Return, Goto
<1>5. Shape' BY <1>4 DEF Shape, Return, NoBatch
<1> QED BY <1>2, <1>3, <1>4, <1>5, <1>6, <1>7, <1>8 DEF IInv, Types, Labels

LEMMA ReturnUnchanged ==
  ASSUME IInv, NEW code \in Codes \cup {"ok"}, Return(code),
         UNCHANGED <<report, outBudget, record>>
  PROVE  IInv'
<1>1. ReportTypes' /\ RecordTypes' /\ outBudget' \in Nat
  BY DEF IInv, Types, ReportTypes, RecordTypes, report, record
<1> QED BY <1>1, ReturnKeeps

LEMMA NextIterationKeeps ==
  ASSUME IInv, NextIteration, TalkTypes', iteration < MaxIterations,
         results' = results, usage' \in Nat, outBudget' = outBudget,
         UNCHANGED record
  PROVE  IInv'
<1>1. << >> \in Seq(Messages) /\ << >> \in Seq(Call) BY EmptySeq
<1>2. SetupTypes' BY DEF IInv, Types, SetupTypes, NextIteration, Goto, setup
<1>3. HttpTypes' BY NoRequestTypes DEF NextIteration
<1>8. BatchTypes' BY <1>1 DEF NextIteration, NoBatch, BatchTypes
<1>4. MemoryTypes' /\ RecordTypes'
  BY DEF IInv, Types, MemoryTypes, RecordTypes, NextIteration, memory, record
<1>5. ReportTypes'
  BY BoundsPositive DEF IInv, Types, ReportTypes, NextIteration
<1>6. pc' = "prepare" /\ outcome' = outcome BY DEF NextIteration, Goto
<1>7. Shape' BY <1>6 DEF Shape, NextIteration, NoBatch
<1> QED BY <1>2, <1>3, <1>4, <1>5, <1>6, <1>7, <1>8 DEF IInv, Types, Labels

LEMMA ContextCodes ==
  ASSUME NEW c
  PROVE  ContextError(c) \in Codes
BY DEF ContextError, Codes

LEMMA EndpointCodes == ChatErrors \subseteq Codes
BY EndpointFails DEF Codes, ChatErrors, StatusError, ReadError, TransportError, Statuses,
   Failures

----
LEMMA PrepareKeeps ==
  ASSUME IInv, NEW first \in Prompts, NEW second \in Prompts,
         Prepare(first, second)
  PROVE  IInv'
<1>1. CASE NoRoom(second)
  BY <1>1, ReturnUnchanged DEF Prepare, Codes
<1>2. CASE ~ NoRoom(second)
  <2>1. first \in Nat /\ second \in Nat BY TokensNat
  <2>2. Limit(second) \in Nat
    BY <1>2, <2>1, TokensNat DEF Limit, NoRoom, Room, IInv, Types
  <2>3. messages' \in Seq(Messages) /\ request' = messages'
    BY <1>2, CompactTyped DEF Prepare, IInv, Types, TalkTypes
  <2>4. HttpTypes' /\ TalkTypes'
    BY <1>2, <2>2, <2>3
    DEF Prepare, IInv, Types, HttpTypes, TalkTypes
  <2>5. /\ SetupTypes' /\ BatchTypes' /\ MemoryTypes' /\ ReportTypes'
        /\ RecordTypes'
    BY <1>2 DEF Prepare, Goto, IInv, Types, SetupTypes, BatchTypes, MemoryTypes,
       ReportTypes, RecordTypes, setup, batch, memory, report, record
  <2>6. pc' = "chat" BY <1>2 DEF Prepare, Goto
  <2>7. Shape'
    BY <1>2, <2>6 DEF Prepare, IInv, Shape, batch, memory, report
  <2> QED BY <1>2, <2>4, <2>5, <2>6, <2>7 DEF Prepare, IInv, Types, Labels
<1> QED BY <1>1, <1>2

LEMMA EarlyReturns ==
  ASSUME IInv, OutOfIterations \/ ContextIsOver \/ DropResult
  PROVE  IInv'
BY ContextCodes, ReturnUnchanged DEF OutOfIterations, ContextIsOver, DropResult, Codes

LEMMA RetryKeeps ==
  ASSUME IInv, NEW label \in {"chat", "backoff"}, Retry(label),
         request' \in Seq(Messages), retries' \in 0 .. 2, shrunk' \in BOOLEAN,
         pc \in {"chat", "backoff"}
  PROVE  IInv'
<1>1. /\ SetupTypes' /\ HttpTypes' /\ TalkTypes' /\ BatchTypes'
      /\ MemoryTypes' /\ ReportTypes' /\ RecordTypes'
  BY DEF Retry, Goto, IInv, Types, SetupTypes, HttpTypes, TalkTypes, BatchTypes,
     MemoryTypes, ReportTypes, RecordTypes, setup, talk, batch, memory, report,
     record
<1>2. pc' = label /\ outcome' = outcome /\ outBudget' = outBudget
  BY DEF Retry, Goto
<1>3. Shape' BY <1>2 DEF Retry, IInv, Shape, batch, memory, report
<1> QED BY <1>1, <1>2, <1>3 DEF IInv, Types, Labels

LEMMA ChatFailsKeeps ==
  ASSUME IInv, NEW code \in Codes, ChatFails(code)
  PROVE  IInv'
<1>1. CASE Return(code) \/ Return(ContextError(context))
  BY <1>1, ContextCodes, ReturnUnchanged DEF ChatFails
<1>2. CASE SmallerRequest
  BY <1>2, CompactTyped, RetryKeeps
  DEF ChatFails, SmallerRequest, IInv, Types, HttpTypes
<1>3. CASE DelayedRequest
  BY <1>3, RetryKeeps
  DEF ChatFails, DelayedRequest, IInv, Types, HttpTypes
<1> QED BY <1>1, <1>2, <1>3 DEF ChatFails

LEMMA BackoffKeeps ==
  ASSUME IInv, Backoff
  PROVE  IInv'
BY RetryKeeps DEF Backoff, IInv, Types, HttpTypes
LEMMA ChatAnswersKeeps ==
  ASSUME IInv, NEW answer \in Answers, NEW tokens \in Outputs,
         ChatAnswers(answer, tokens)
  PROVE  IInv'
<1>1. pc' = "answered" /\ calls' = answer /\ output' = tokens
  BY DEF ChatAnswers, Goto
<1>2. pc = "chat" /\ queue = {} /\ replays = {} /\ ran = NONE /\ invoked = {}
  BY DEF ChatAnswers, IInv, Shape
<1>3. answer \in Seq(Call) /\ tokens \in Nat BY AnswersAreCalls, TokensNat
<1>4. request' = << >> /\ retries' = 0 /\ shrunk' = FALSE /\ maxOutput' = maxOutput
  BY DEF ChatAnswers
<1>5. request' \in Seq(Messages) BY <1>4, EmptySeq
<1>6. HttpTypes'
  <2>1. retries' \in 0 .. 2 /\ output' \in Nat BY <1>1, <1>3, <1>4
  <2>2. maxOutput' \in Nat BY <1>4 DEF IInv, Types, HttpTypes
  <2> QED BY <2>1, <2>2, <1>4, <1>5 DEF HttpTypes
<1>7. BatchTypes'
  BY <1>1, <1>2, <1>3 DEF ChatAnswers, IInv, Types, BatchTypes
<1>8. SetupTypes' /\ TalkTypes' /\ MemoryTypes' /\ ReportTypes' /\ RecordTypes'
  BY DEF ChatAnswers, Goto, IInv, Types, SetupTypes, TalkTypes, MemoryTypes,
     ReportTypes, RecordTypes, setup, talk, memory, report, record
<1>9. Shape'
  BY <1>1, <1>2 DEF ChatAnswers, IInv, Shape, report
<1> QED BY <1>1, <1>6, <1>7, <1>8, <1>9 DEF ChatAnswers, IInv, Types, Labels

----
(* Judging an answer. *)
LEMMA FirstErrorCodes ==
  ASSUME IInv, ~ Valid
  PROVE  FirstError \in Codes
<1>1. CASE TooMany BY <1>1 DEF FirstError, Codes
<1>2. CASE ~ TooMany
  <2> DEFINE First == CHOOSE k \in Rejected : \A j \in Rejected : k <= j
  <2>1. Rejected # {} BY <1>2 DEF Valid
  <2>2. Rejected \in SUBSET Nat
    BY Elements DEF Rejected, IInv, Types, BatchTypes
  <2>3. Min(Rejected) \in Rejected /\ \A j \in Rejected : Min(Rejected) <= j
    BY <2>1, <2>2, MinIsLeast
  <2>4. First \in Rejected BY <2>3
  <2>5. CallError(First) # NONE BY <2>4 DEF Rejected
  <2>6. \A k : CallError(k) \in Codes \cup {NONE} BY DEF CallError, Codes
  <2> HIDE DEF First
  <2>7. CallError(First) \in Codes BY <2>5, <2>6
  <2> QED BY <1>2, <2>7 DEF FirstError, First
<1> QED BY <1>1, <1>2

LEMMA AcceptedTypes ==
  ASSUME IInv, pc = "answered", usage' = usage + output
  PROVE  usage' \in Nat /\ iteration < MaxIterations
BY DEF IInv, Types, Shape, HttpTypes, ReportTypes

LEMMA AcceptedReturnKeeps ==
  ASSUME IInv, Accepted, NEW code \in Codes \cup {"ok"}, Return(code),
         UNCHANGED <<iteration, outBudget>>
  PROVE  IInv'
<1>1. ReportTypes' /\ RecordTypes' /\ outBudget' \in Nat
  BY AcceptedTypes DEF Accepted, IInv, Types, ReportTypes, RecordTypes, record
<1> QED BY <1>1, ReturnKeeps

LEMMA InstructKeeps ==
  ASSUME IInv, Accepted, Instruct, outBudget' = outBudget,
         repaired' \in BOOLEAN, pushed' \in BOOLEAN
  PROVE  IInv'
<1>1. Message("user", << >>) \in Messages
  BY OneMessage, EmptySeq DEF Roles
<1>2. messages' \in Seq(Messages)
  BY <1>1, Added DEF Instruct, IInv, Types, TalkTypes
<1>3. TalkTypes' BY <1>2 DEF TalkTypes
<1> QED BY <1>3, AcceptedTypes, NextIterationKeeps DEF Accepted, Instruct

LEMMA JudgementsKeep ==
  ASSUME IInv, Overrun \/ Finish \/ DemandWrite \/ RejectAnswer
  PROVE  IInv'
<1>1. CASE Overrun BY <1>1, AcceptedReturnKeeps DEF Overrun, Codes
<1>2. CASE Finish BY <1>2, AcceptedReturnKeeps DEF Finish
<1>3. CASE DemandWrite
  <2>1. CASE Return("BUDGET_EXCEEDED") /\ UNCHANGED iteration
    BY <1>3, <2>1, AcceptedReturnKeeps DEF DemandWrite, Codes
  <2>2. CASE pushed' = TRUE /\ Instruct /\ UNCHANGED repaired
    <3>1. repaired' \in BOOLEAN /\ pushed' \in BOOLEAN
      BY <2>2 DEF IInv, Types, TalkTypes
    <3> QED BY <1>3, <2>2, <3>1, InstructKeeps DEF DemandWrite
  <2> QED BY <1>3, <2>1, <2>2 DEF DemandWrite
<1>4. CASE RejectAnswer
  <2>1. CASE Return(FirstError) /\ UNCHANGED iteration
    BY <1>4, <2>1, AcceptedReturnKeeps, FirstErrorCodes DEF RejectAnswer
  <2>2. CASE repaired' = TRUE /\ Instruct /\ UNCHANGED pushed
    <3>1. repaired' \in BOOLEAN /\ pushed' \in BOOLEAN
      BY <2>2 DEF IInv, Types, TalkTypes
    <3> QED BY <1>4, <2>2, <3>1, InstructKeeps DEF RejectAnswer
  <2> QED BY <1>4, <2>1, <2>2 DEF RejectAnswer
<1> QED BY <1>1, <1>2, <1>3, <1>4

(* What Valid says of a call. *)
LEMMA ValidCalls ==
  ASSUME IInv, Valid
  PROVE  /\ Len(calls) <= CallLimit
         /\ \A k \in DOMAIN calls :
              /\ calls[k].act \in allowed
              /\ calls[k].act \in seen => calls[k].act \in DOMAIN cached
              /\ \A j \in 1 .. k - 1 : calls[j].id # calls[k].id
              /\ \A j \in 1 .. k - 1 :
                   calls[j].act = calls[k].act => calls[k].act \in seen
<1>1. Len(calls) <= CallLimit
  BY BoundsPositive DEF Valid, TooMany, IInv, Types, BatchTypes
<1>2. \A k \in DOMAIN calls : CallError(k) = NONE BY DEF Valid, Rejected
<1> QED BY <1>1, <1>2 DEF CallError, Repeats, NONE

----
(* A batch. *)
LEMMA StartBatchKeeps ==
  ASSUME IInv, StartBatch
  PROVE  IInv'
<1>1. pc' = "batch" /\ calls' = calls BY DEF StartBatch, Goto
<1>2. HttpTypes' BY NoRequestTypes DEF StartBatch
<1>3. queue' \subseteq DOMAIN calls' /\ replays' \subseteq DOMAIN calls'
  BY <1>1 DEF StartBatch
<1>4. Len(results) \in Nat BY Elements DEF IInv, Types, ReportTypes
<1>5. BatchTypes'
  BY <1>1, <1>3, <1>4 DEF StartBatch, IInv, Types, BatchTypes
<1>6. SetupTypes' /\ TalkTypes' /\ MemoryTypes' /\ RecordTypes'
  BY DEF StartBatch, Goto, IInv, Types, SetupTypes, TalkTypes, MemoryTypes,
     RecordTypes, setup, talk, memory, record
<1>7. ReportTypes'
  BY AcceptedTypes DEF StartBatch, IInv, Types, ReportTypes
<1>8. Shape'
  <2>1. \A k \in DOMAIN calls' : calls'[k].act \in allowed'
    BY <1>1, ValidCalls DEF StartBatch, Goto, setup
  <2>2. \A k \in replays' : calls'[k].act \in DOMAIN cached'
    BY <1>1, ValidCalls DEF StartBatch, memory, Repeated
  <2>3. ran' = NONE BY DEF StartBatch, IInv, Shape
  <2>4. iteration' < MaxIterations BY AcceptedTypes DEF StartBatch
  <2> QED BY <1>1, <2>1, <2>2, <2>3, <2>4 DEF Shape
<1> QED
  BY <1>1, <1>2, <1>5, <1>6, <1>7, <1>8 DEF StartBatch, IInv, Types, Labels

LEMMA ReplyKeeps ==
  ASSUME IInv, NEW k \in DOMAIN calls, Reply(k)
  PROVE  replies' \in Seq(Messages)
<1>1. calls[k] \in Call BY Elements DEF IInv, Types, BatchTypes
<1>2. <<calls[k].id>> \in Seq(Nat) BY <1>1 DEF Call
<1>3. Message("tool", <<calls[k].id>>) \in Messages
  BY <1>2, OneMessage DEF Roles
<1> QED BY <1>3, Added DEF Reply, IInv, Types, BatchTypes

(* the position worked on is one of the answer's *)
LEMMA Positions ==
  ASSUME IInv
  PROVE  /\ queue # {} => Min(queue) \in queue /\ Min(queue) \in DOMAIN calls
         /\ replays # {} => Min(replays) \in replays /\ Min(replays) \in DOMAIN calls
         /\ \A k \in DOMAIN calls : calls[k] \in Call
<1>1. /\ \A k \in DOMAIN calls : k \in Nat /\ calls[k] \in Call
      /\ queue \subseteq DOMAIN calls /\ replays \subseteq DOMAIN calls
  BY Elements DEF IInv, Types, BatchTypes
<1>2. queue \in SUBSET Nat /\ replays \in SUBSET Nat BY <1>1
<1> QED BY <1>1, <1>2, MinIsLeast

LEMMA ResultAdded ==
  ASSUME IInv, NEW act \in Actions, NEW status \in Status,
         results' = Append(results, Result(act, status)),
         UNCHANGED <<iteration, usage>>
  PROVE  ReportTypes'
<1>1. Result(act, status) \in [act : Actions, status : Status] BY DEF Result
<1>2. results' \in Seq([act : Actions, status : Status])
  BY <1>1, Added DEF IInv, Types, ReportTypes
<1> QED BY <1>2 DEF IInv, Types, ReportTypes

LEMMA ReplayKeeps ==
  ASSUME IInv, Replay
  PROVE  IInv'
<1> DEFINE act == calls[Min(replays)].act
<1>1. /\ Min(replays) \in replays /\ Min(replays) \in DOMAIN calls
      /\ pc = "batch" /\ pc' = "batch"
  BY Positions DEF Replay, Goto
<1>2. act \in ReadRisk /\ cached[act] \in Status
  BY <1>1 DEF IInv, Types, Shape, MemoryTypes
<1>3. ReportTypes' BY <1>2, ResultAdded DEF Replay, Actions
<1>4. BatchTypes'
  BY <1>1, ReplyKeeps DEF Replay, IInv, Types, BatchTypes
<1>5. SetupTypes' /\ HttpTypes' /\ TalkTypes' /\ MemoryTypes' /\ RecordTypes'
  BY DEF Replay, Goto, IInv, Types, SetupTypes, HttpTypes, TalkTypes,
     MemoryTypes, RecordTypes, setup, http, talk, memory, record
<1>6. Shape'
  BY <1>1 DEF Replay, Goto, IInv, Shape, setup, memory
<1> QED BY <1>1, <1>3, <1>4, <1>5, <1>6 DEF Replay, IInv, Types, Labels

LEMMA InvokeKeeps ==
  ASSUME IInv, NEW status \in Status, NEW early \in BOOLEAN,
         Invoke(status, early)
  PROVE  IInv'
<1>1. /\ pc = "batch" /\ pc' = "batch" /\ queue # {}
      /\ Min(queue) \in queue /\ Min(queue) \in DOMAIN calls /\ current \in Call
      /\ current.act \in allowed
  BY Positions DEF Invoke, Goto, current, IInv, Shape
<1>2. current.act \in Actions BY <1>1 DEF IInv, Types, SetupTypes
<1>3. ran' = status /\ ran' # NONE
  BY DEF Invoke, Status, Waiting, NONE
<1>4. BatchTypes'
  BY <1>1, <1>3 DEF Invoke, IInv, Types, BatchTypes
<1>5. MemoryTypes'
  BY <1>2 DEF Invoke, See, IInv, Types, MemoryTypes
<1>6. RecordTypes'
  <2>1. pending' \in BOOLEAN
    <3>1. CASE status = "WAITING_APPROVAL" BY <3>1 DEF Invoke, Propose
    <3>2. CASE status # "WAITING_APPROVAL"
      BY <3>2 DEF Invoke, Propose, IInv, Types, RecordTypes
    <3> QED BY <3>1, <3>2
  <2>2. /\ intents' \in [Writes -> {NONE, "INTENT_RECORDED"} \cup Status]
        /\ effects' \in [Writes -> Nat]
    <3>1. CASE current.act \in Writes /\ mode = "DEVELOPMENT" /\ ~ early
      BY <3>1 DEF Invoke, Act, IInv, Types, RecordTypes
    <3>2. CASE ~ (current.act \in Writes /\ mode = "DEVELOPMENT" /\ ~ early)
      BY <3>2 DEF Invoke, Act, IInv, Types, RecordTypes
    <3> QED BY <3>1, <3>2
  <2> QED BY <2>1, <2>2 DEF Invoke, IInv, Types, RecordTypes
<1>7. outBudget' \in Nat
  BY TokensNat DEF Invoke, Granted, IInv, Types
<1>8. SetupTypes' /\ HttpTypes' /\ TalkTypes' /\ ReportTypes'
  BY DEF Invoke, Goto, IInv, Types, SetupTypes, HttpTypes, TalkTypes,
     ReportTypes, setup, http, talk, report
<1>9. Shape'
  BY <1>1 DEF Invoke, Goto, IInv, Shape, setup, report
<1> QED
  BY <1>1, <1>4, <1>5, <1>6, <1>7, <1>8, <1>9 DEF Invoke, IInv, Types, Labels

LEMMA CollectKeeps ==
  ASSUME IInv, Collect
  PROVE  IInv'
<1>1. /\ Min(queue) \in queue /\ Min(queue) \in DOMAIN calls /\ current \in Call
      /\ current.act \in allowed /\ pc = "batch"
  BY Positions DEF Collect, current, IInv, Shape
<1>2. current.act \in Actions /\ ran \in Status
  BY <1>1 DEF Collect, IInv, Types, SetupTypes, BatchTypes
<1>3. ReportTypes' BY <1>2, ResultAdded DEF Collect
<1>4. RecordTypes' /\ outBudget' \in Nat
  BY DEF Collect, IInv, Types, RecordTypes, record
<1>5. CASE Return("ok") BY <1>3, <1>4, <1>5, ReturnKeeps
<1>6. CASE Remember(current.act)
  <2>1. BatchTypes'
    BY <1>1, <1>6, ReplyKeeps DEF Remember, IInv, Types, BatchTypes
  <2>2. MemoryTypes'
    <3>1. DOMAIN cached \subseteq DOMAIN cached' /\ DOMAIN cached' \subseteq ReadRisk
      BY <1>6 DEF Remember, IInv, Types, MemoryTypes, Cache
    <3>2. \A a \in DOMAIN cached' : cached'[a] \in Status
      BY <1>2, <1>6 DEF Remember, IInv, Types, MemoryTypes, Cache
    <3>3. mutated' \in BOOLEAN
      BY <1>6 DEF Remember, IInv, Types, MemoryTypes
    <3> QED BY <1>6, <3>1, <3>2, <3>3 DEF Remember, IInv, Types, MemoryTypes
  <2>3. SetupTypes' /\ HttpTypes' /\ TalkTypes'
    BY <1>6 DEF Remember, Goto, IInv, Types, SetupTypes, HttpTypes, TalkTypes,
       setup, http, talk
  <2>4. pc' = "batch" /\ ran' = NONE BY <1>6 DEF Remember, Goto
  <2>5. DOMAIN cached \subseteq DOMAIN cached'
    BY <1>6 DEF Remember, Cache
  <2>6. Shape'
    BY <1>6, <2>4, <2>5, <1>1 DEF Remember, Goto, Collect, IInv, Shape, setup
  <2> QED
    BY <1>3, <1>4, <1>6, <2>1, <2>2, <2>3, <2>4, <2>6
    DEF Remember, IInv, Types, Labels
<1> QED BY <1>5, <1>6 DEF Collect

LEMMA EndBatchKeeps ==
  ASSUME IInv, EndBatch
  PROVE  IInv'
<1>1. ReportTypes /\ RecordTypes /\ outBudget \in Nat /\ iteration < MaxIterations
  BY DEF EndBatch, IInv, Types, Shape
<1>2. CASE \/ Return("BUDGET_EXCEEDED") /\ UNCHANGED iteration
           \/ Return("ok") /\ UNCHANGED iteration
  <2>1. ReportTypes' /\ RecordTypes' /\ outBudget' \in Nat
    BY <1>1, <1>2 DEF EndBatch, ReportTypes, RecordTypes, record
  <2> QED BY <1>2, <2>1, ReturnKeeps DEF Codes
<1>3. CASE NextIteration /\ UNCHANGED <<repaired, pushed>>
           /\ messages' = Append(messages,
                           Message("assistant", [k \in DOMAIN calls |-> calls[k].id]))
                         \o replies
  <2> DEFINE ids == [k \in DOMAIN calls |-> calls[k].id]
  <2>1. \A k \in DOMAIN calls : ids[k] \in Nat BY Positions DEF Call
  <2>2. ids = [k \in DOMAIN calls |-> ids[k]] OBVIOUS
  <2>3. calls \in Seq(Call) BY DEF IInv, Types, BatchTypes
  <2> HIDE DEF ids
  <2>4. ids \in Seq(Nat) BY <2>1, <2>2, <2>3, Mapped
  <2>5. Message("assistant", ids) \in Messages BY <2>4, OneMessage DEF Roles
  <2>6. Append(messages, Message("assistant", ids)) \in Seq(Messages)
    BY <2>5, Added DEF IInv, Types, TalkTypes
  <2>7. replies \in Seq(Messages) BY DEF IInv, Types, BatchTypes
  <2>8. messages' \in Seq(Messages)
    BY <1>3, <2>6, <2>7, ConcatProperties DEF ids
  <2>9. TalkTypes' BY <1>3, <2>8 DEF TalkTypes, IInv, Types
  <2>10. usage' \in Nat BY <1>1 DEF EndBatch, ReportTypes
  <2> QED BY <1>1, <1>3, <2>9, <2>10, NextIterationKeeps DEF EndBatch
<1> QED BY <1>2, <1>3 DEF EndBatch

----
(* After Run. *)
LEMMA GreatestIsIn ==
  ASSUME NEW n \in Nat, NEW S \in SUBSET (1 .. n), S # {}
  PROVE  \E k \in S : \A j \in S : j <= k
<1> DEFINE D == {n - k : k \in S}
<1>1. D \in SUBSET Nat /\ D # {}
  <2>1. \A k \in S : n - k \in Nat OBVIOUS
  <2>2. D \subseteq Nat BY <2>1
  <2> QED BY <2>2
<1>2. Min(D) \in D /\ \A d \in D : Min(D) <= d
  <2> HIDE DEF D
  <2> QED BY <1>1, MinIsLeast
<1>3. PICK k \in S : Min(D) = n - k BY <1>2
<1>4. \A j \in S : Min(D) <= n - j BY <1>2
<1>5. \A j \in S : j <= k
  <2> SUFFICES ASSUME NEW j \in S PROVE j <= k OBVIOUS
  <2>1. n - k <= n - j BY <1>3, <1>4
  <2> QED BY <2>1
<1> QED BY <1>5

LEMMA SettleKeeps ==
  ASSUME IInv, NEW stored \in BOOLEAN, Settle(stored)
  PROVE  IInv'
<1>1. /\ Len(results) \in Nat /\ DOMAIN results = 1 .. Len(results)
      /\ \A k \in DOMAIN results : results[k] \in [act : Actions, status : Status]
  BY Elements DEF IInv, Types, ReportTypes
<1>2. ASSUME NEW w \in Writes
      PROVE  UpdatedIntents(stored)[w] \in {NONE, "INTENT_RECORDED"} \cup Status
  <2>1. CASE stored /\ intents[w] # NONE /\ Reported(w) # {}
    <3> DEFINE last == CHOOSE k \in Reported(w) : \A j \in Reported(w) : j <= k
    <3>1. Reported(w) \in SUBSET (1 .. Len(results)) BY <1>1 DEF Reported
    <3>2. \E k \in Reported(w) : \A j \in Reported(w) : j <= k
      BY <1>1, <2>1, <3>1, GreatestIsIn
    <3>3. last \in Reported(w) BY <3>2
    <3> HIDE DEF last
    <3>4. results[last].status \in Status BY <1>1, <3>3 DEF Reported
    <3> QED BY <2>1, <3>4 DEF UpdatedIntents, last
  <2>2. CASE ~ (stored /\ intents[w] # NONE /\ Reported(w) # {})
    BY <2>2 DEF UpdatedIntents, IInv, Types, RecordTypes
  <2> QED BY <2>1, <2>2
<1>3. intents' \in [Writes -> {NONE, "INTENT_RECORDED"} \cup Status]
  BY <1>2 DEF Settle, UpdatedIntents
<1>4. step' \in {"RUNNING", "VERIFYING", "WAITING_USER", "WAITING_APPROVAL", "FAILED"}
  BY DEF Settle, StepAfter, IInv, Types, RecordTypes
<1>5. RecordTypes'
  BY <1>3, <1>4 DEF Settle, IInv, Types, RecordTypes
<1>6. /\ SetupTypes' /\ HttpTypes' /\ TalkTypes' /\ BatchTypes' /\ MemoryTypes'
      /\ ReportTypes'
  BY DEF Settle, Goto, IInv, Types, SetupTypes, HttpTypes, TalkTypes,
     BatchTypes, MemoryTypes, ReportTypes, setup, http, talk, batch, memory, report
<1>7. pc = "returned" /\ pc' = "settled" BY DEF Settle, Goto
<1>8. Shape' BY <1>7 DEF Settle, IInv, Shape, batch, memory
<1> QED BY <1>5, <1>6, <1>7, <1>8 DEF Settle, IInv, Types, Labels

LEMMA ContextEndsKeeps ==
  ASSUME IInv, ContextEnds
  PROVE  IInv'
<1>1. context' \in Contexts BY DEF ContextEnds, Contexts
<1>2. SetupTypes' BY <1>1 DEF ContextEnds, IInv, Types, SetupTypes, setup
<1>3. /\ HttpTypes' /\ TalkTypes' /\ BatchTypes' /\ MemoryTypes'
      /\ ReportTypes' /\ RecordTypes'
  BY DEF ContextEnds, IInv, Types, HttpTypes, TalkTypes, BatchTypes,
     MemoryTypes, ReportTypes, RecordTypes, http, talk, batch, memory, report,
     record
<1>4. Shape'
  BY DEF ContextEnds, IInv, Shape, setup, batch, memory, report
<1> QED BY <1>2, <1>3, <1>4 DEF ContextEnds, IInv, Types

LEMMA StutterKeeps ==
  ASSUME IInv, UNCHANGED vars
  PROVE  IInv'
<1>1. /\ SetupTypes' /\ HttpTypes' /\ TalkTypes' /\ BatchTypes' /\ MemoryTypes'
      /\ ReportTypes' /\ RecordTypes'
  BY DEF IInv, Types, SetupTypes, HttpTypes, TalkTypes, BatchTypes,
     MemoryTypes, ReportTypes, RecordTypes, vars, setup, http, talk, batch,
     memory, report, record
<1>2. Shape' BY DEF IInv, Shape, vars, setup, batch, memory, report
<1> QED BY <1>1, <1>2 DEF IInv, Types, vars

(* The actions of Run, each by name. *)
LEMMA RunKeeps ==
  ASSUME IInv, Run
  PROVE  IInv'
<1>1. ASSUME NEW first \in Prompts, NEW second \in Prompts, Prepare(first, second)
      PROVE  IInv'
  BY <1>1, PrepareKeeps
<1>2. ASSUME NEW code \in ChatErrors, ChatFails(code)
      PROVE  IInv'
  BY <1>2, EndpointCodes, ChatFailsKeeps
<1>3. ASSUME NEW answer \in Answers, NEW tokens \in Outputs,
             ChatAnswers(answer, tokens)
      PROVE  IInv'
  BY <1>3, ChatAnswersKeeps
<1>4. ASSUME ChatFails("INVALID_TOOL_CALL")
      PROVE  IInv'
  BY <1>4, ChatFailsKeeps DEF Codes
<1>5. ASSUME NEW status \in {"SUCCEEDED", "FAILED", "RETRYABLE"} \cup Waiting,
             NEW early \in BOOLEAN, Invoke(status, early)
      PROVE  IInv'
  BY <1>5, InvokeKeeps DEF Status
<1>6. ASSUME NEW stored \in BOOLEAN, Settle(stored)
      PROVE  IInv'
  BY <1>6, SettleKeeps
<1> QED
  BY <1>1, <1>2, <1>3, <1>4, <1>5, <1>6, EarlyReturns, BackoffKeeps,
     JudgementsKeep, StartBatchKeeps, ReplayKeeps, CollectKeeps, EndBatchKeeps
  DEF Run

LEMMA InitHolds ==
  ASSUME Init
  PROVE  IInv
<1>1. Message("system", << >>) \in Messages /\ Message("user", << >>) \in Messages
  BY OneMessage, EmptySeq DEF Roles
<1>2. /\ messages \in Seq(Messages) /\ request \in Seq(Messages)
      /\ replies \in Seq(Messages) /\ calls \in Seq(Call)
      /\ results \in Seq([act : Actions, status : Status])
  BY <1>1, EmptySeq DEF Init
<1>3. SetupTypes
  BY DEF Init, SetupTypes, Actions, Duties, Contexts
<1>4. retries \in 0 .. 2 /\ maxOutput \in Nat /\ output \in Nat BY DEF Init
<1>5. HttpTypes BY <1>2, <1>4 DEF Init, HttpTypes
<1>6. TalkTypes BY <1>2 DEF Init, TalkTypes
<1>7. BatchTypes BY <1>2 DEF Init, BatchTypes
<1>8. MemoryTypes BY DEF Init, MemoryTypes, Nothing
<1>9. iteration \in 0 .. MaxIterations /\ usage \in Nat
  BY BoundsPositive DEF Init
<1>10. ReportTypes BY <1>2, <1>9 DEF ReportTypes
<1>11. RecordTypes BY DEF Init, RecordTypes
<1>12. outBudget \in Nat BY TokensNat DEF Init
<1>13. Shape BY DEF Init, Shape
<1> QED
  BY <1>3, <1>5, <1>6, <1>7, <1>8, <1>10, <1>11, <1>12, <1>13
  DEF Init, IInv, Types, Labels

(* The inductive invariant: the types, and what an answer leaves where. *)
THEOREM Invariance == Spec => []IInv
<1>1. IInv /\ [Next]_vars => IInv'
  BY RunKeeps, ContextEndsKeeps, StutterKeeps DEF Next
<1> QED BY InitHolds, <1>1, PTL DEF Spec

(* TypeOK: every request, answer, result and record is of its kind, and Run *)
(* returns no error but the ones the code names.                            *)
THEOREM TypeCorrect == Spec => []TypeOK
<1>1. IInv => TypeOK BY TypesAreTypeOK DEF IInv
<1> QED BY <1>1, Invariance, PTL

----
(* Mutating actions begin once; answers run whole or not at all. *)
Over == pc \in {"returned", "settled"}

Once ==
  /\ \A w \in Writes : effects[w] <= 1
  /\ ~ Over => \A w \in Writes : effects[w] > 0 => w \in seen
  /\ pc = "batch" =>
       /\ \A k \in queue : calls[k].act \in seen => ran # NONE /\ k = Min(queue)
       /\ \A j, k \in queue : calls[j].act = calls[k].act => j = k
       /\ Len(calls) <= CallLimit
       /\ \A j, k \in DOMAIN calls : calls[j].id = calls[k].id => j = k

(* leaving the batch, or never in one: nothing begins *)
LEMMA OnceElsewhere ==
  ASSUME Once, effects' = effects, pc' # "batch",
         \/ pc' \in {"returned", "settled"}
         \/ ~ Over /\ seen \subseteq seen'
  PROVE  Once'
<1>1. \A w \in Writes : effects'[w] <= 1 BY DEF Once
<1>2. ~ Over' => \A w \in Writes : effects'[w] > 0 => w \in seen'
  BY DEF Once, Over
<1> QED BY <1>1, <1>2 DEF Once

LEMMA ReturnOnce ==
  ASSUME Once, NEW code, Return(code), effects' = effects
  PROVE  Once'
BY OnceElsewhere DEF Return, Goto

LEMMA NextIterationOnce ==
  ASSUME Once, NextIteration, ~ Over, effects' = effects
  PROVE  Once'
BY OnceElsewhere DEF NextIteration, Goto, memory

LEMMA ChatOnce ==
  ASSUME Once, NEW code,
         \/ \E first, second \in Prompts : Prepare(first, second)
         \/ OutOfIterations \/ ContextIsOver \/ DropResult
         \/ ChatFails(code) \/ Backoff
         \/ \E answer \in Answers, tokens \in Outputs : ChatAnswers(answer, tokens)
  PROVE  Once'
<1>1. effects' = effects
  BY DEF Prepare, OutOfIterations, ContextIsOver, DropResult, ChatFails, Backoff,
     ChatAnswers, Retry, record
<1>2. CASE \E c : Return(c) BY <1>1, <1>2, ReturnOnce
<1>3. CASE /\ pc \in {"prepare", "chat", "backoff"} /\ pc' # "batch" /\ seen' = seen
  BY <1>1, <1>3, OnceElsewhere DEF Over
<1>4. \/ \E c : Return(c)
      \/ pc \in {"prepare", "chat", "backoff"} /\ pc' # "batch" /\ seen' = seen
  BY DEF Prepare, OutOfIterations, ContextIsOver, DropResult, ChatFails, Backoff,
     ChatAnswers, Retry, Goto, SmallerRequest, DelayedRequest, memory
<1> QED BY <1>2, <1>3, <1>4

LEMMA JudgementsOnce ==
  ASSUME Once, Overrun \/ Finish \/ DemandWrite \/ RejectAnswer
  PROVE  Once'
<1>1. effects' = effects /\ ~ Over
  BY DEF Overrun, Finish, DemandWrite, RejectAnswer, Accepted, record, Over
<1>2. NextIteration \/ \E c : Return(c)
  BY DEF Overrun, Finish, DemandWrite, RejectAnswer, Instruct
<1> QED BY <1>1, <1>2, ReturnOnce, NextIterationOnce

LEMMA StartBatchOnce ==
  ASSUME IInv, Once, StartBatch
  PROVE  Once'
<1>1. /\ pc' = "batch" /\ calls' = calls /\ seen' = seen /\ effects' = effects
      /\ ~ Over
      /\ queue' = {k \in DOMAIN calls : calls[k].act \notin seen}
  BY DEF StartBatch, Goto, memory, record, Over, Repeated
<1>2. DOMAIN calls \subseteq Nat BY Elements DEF IInv, Types, BatchTypes
<1>3. \A k \in DOMAIN calls : 1 <= k /\ DOMAIN calls = 1 .. Len(calls)
  BY Elements DEF IInv, Types, BatchTypes
<1>4. ASSUME NEW j \in DOMAIN calls, NEW k \in DOMAIN calls, j < k
      PROVE  /\ calls[j].id # calls[k].id
             /\ k \in queue' => calls[j].act # calls[k].act
  <2>1. j \in 1 .. k - 1 BY <1>2, <1>3, <1>4
  <2> QED BY <1>1, <2>1, ValidCalls DEF StartBatch
<1>5. \A j, k \in DOMAIN calls : j = k \/ j < k \/ k < j BY <1>2
<1>6. \A j, k \in DOMAIN calls : calls[j].id = calls[k].id => j = k
  BY <1>4, <1>5
<1>7. \A j, k \in queue' : calls[j].act = calls[k].act => j = k
  BY <1>1, <1>4, <1>5
<1>8. Len(calls) <= CallLimit BY ValidCalls DEF StartBatch
<1> QED BY <1>1, <1>6, <1>7, <1>8 DEF Once, Over

LEMMA ReplayOnce ==
  ASSUME Once, Replay
  PROVE  Once'
BY DEF Replay, Goto, Once, Over, memory, record

LEMMA InvokeOnce ==
  ASSUME IInv, Once, NEW status \in Status, NEW early \in BOOLEAN,
         Invoke(status, early)
  PROVE  Once'
<1>1. /\ pc = "batch" /\ pc' = "batch" /\ ~ Over /\ ran = NONE
      /\ ran' # NONE /\ queue' = queue /\ calls' = calls
      /\ Min(queue) \in queue /\ seen' = seen \cup {current.act}
  BY Positions DEF Invoke, Goto, Over, See, Status, Waiting, NONE
<1>2. \A k \in queue : calls[k].act \notin seen BY <1>1 DEF Once
<1>3. current.act \notin seen BY <1>1, <1>2 DEF current
<1>4. /\ effects \in [Writes -> Nat] /\ effects' \in [Writes -> Nat]
      /\ \A w \in Writes : \/ effects'[w] = effects[w]
                           \/ w = current.act /\ effects'[w] = effects[w] + 1
  <2>1. effects \in [Writes -> Nat] BY DEF IInv, Types, RecordTypes
  <2> QED BY <2>1 DEF Invoke, Act
<1>5. \A w \in Writes : effects'[w] <= 1
  BY <1>1, <1>3, <1>4 DEF Once
<1>6. \A w \in Writes : effects'[w] > 0 => w \in seen'
  BY <1>1, <1>4 DEF Once
<1>7. \A k \in queue' : calls'[k].act \in seen' => k = Min(queue')
  BY <1>1, <1>2 DEF Once, current
<1> QED BY <1>1, <1>5, <1>6, <1>7 DEF Once, Over

LEMMA CollectOnce ==
  ASSUME IInv, Once, Collect
  PROVE  Once'
<1>1. effects' = effects BY DEF Collect, record
<1>2. CASE Return("ok") BY <1>1, <1>2, ReturnOnce
<1>3. CASE Remember(current.act)
  <2>1. /\ pc = "batch" /\ pc' = "batch" /\ ~ Over /\ calls' = calls
        /\ seen' = seen /\ queue' = queue \ {Min(queue)}
    BY <1>3 DEF Collect, Remember, Goto, Over
  <2>2. \A k \in queue' : calls[k].act \notin seen BY <2>1 DEF Once
  <2> QED BY <1>1, <2>1, <2>2 DEF Once, Over
<1> QED BY <1>2, <1>3 DEF Collect

LEMMA EndBatchOnce ==
  ASSUME Once, EndBatch
  PROVE  Once'
<1>1. effects' = effects /\ ~ Over BY DEF EndBatch, record, Over
<1>2. NextIteration \/ \E c : Return(c) BY DEF EndBatch
<1> QED BY <1>1, <1>2, ReturnOnce, NextIterationOnce

LEMMA AfterwardsOnce ==
  ASSUME Once,
         \/ \E stored \in BOOLEAN : Settle(stored)
         \/ ContextEnds \/ UNCHANGED vars
  PROVE  Once'
<1>1. CASE \E stored \in BOOLEAN : Settle(stored)
  BY <1>1, OnceElsewhere DEF Settle, Goto, memory
<1>2. CASE ContextEnds
  BY <1>2 DEF ContextEnds, Once, Over, batch, memory, record
<1>3. CASE UNCHANGED vars
  BY <1>3 DEF vars, Once, Over, batch, memory, record
<1> QED BY <1>1, <1>2, <1>3

THEOREM OnceInvariance == Spec => []Once
<1>1. Init => Once
  <2> SUFFICES ASSUME Init PROVE Once OBVIOUS
  <2>1. effects = [w \in Writes |-> 0] /\ pc = "prepare" BY DEF Init
  <2> QED BY <2>1 DEF Once, Over
<1>2. IInv /\ Once /\ [Next]_vars => Once'
  <2> SUFFICES ASSUME IInv, Once, Run PROVE Once'
    BY AfterwardsOnce DEF Next
  <2>1. \A status \in Status : \A early \in BOOLEAN : Invoke(status, early) => Once'
    BY InvokeOnce
  <2>2. {"SUCCEEDED", "FAILED", "RETRYABLE"} \cup Waiting = Status BY DEF Status
  <2> QED
    BY <2>1, <2>2, ChatOnce, JudgementsOnce, StartBatchOnce, ReplayOnce,
       CollectOnce, EndBatchOnce, AfterwardsOnce
    DEF Run
<1> QED BY <1>1, <1>2, Invariance, PTL DEF Spec

(* MutatingOnce: whatever the model repeats, however often a request is     *)
(* retried or an answer repaired, no mutating action begins twice.          *)
THEOREM EffectsOnce == Spec => []MutatingOnce
<1>1. Once => MutatingOnce BY DEF Once, MutatingOnce
<1> QED BY <1>1, OnceInvariance, PTL

(* NothingHalfExecuted: a call runs only out of an answer all of whose      *)
(* calls the worker accepts.                                                *)
THEOREM WholeAnswers == Spec => []NothingHalfExecuted
<1>1. IInv /\ Once => NothingHalfExecuted
  BY DEF IInv, Shape, Once, NothingHalfExecuted
<1> QED BY <1>1, Invariance, OnceInvariance, PTL

----
(* The results of a run: one per mutating action, each after its effect. *)
Trace ==
  /\ \A j, k \in DOMAIN results :
        results[j].act \in Writes /\ results[j].act = results[k].act => j = k
  /\ ~ Over => \A k \in DOMAIN results :
        results[k].act \in Writes => results[k].act \in seen
  /\ pc = "batch" => \A k \in DOMAIN results, q \in queue :
        results[k].act \in Writes => calls[q].act # results[k].act
  /\ ran # NONE => current.act \in seen
  /\ \A w \in Writes : intents[w] # NONE => effects[w] > 0
  /\ pc # "settled" => step = "RUNNING"

LEMMA TraceElsewhere ==
  ASSUME Trace, results' = results, UNCHANGED record, pc' # "batch", ran' = NONE,
         pc # "settled", pc' = "returned" \/ (~ Over /\ seen \subseteq seen')
  PROVE  Trace'
<1>1. /\ step' = "RUNNING"
      /\ \A w \in Writes : intents'[w] # NONE => effects'[w] > 0
  BY DEF Trace, record
<1>2. ~ Over' => \A k \in DOMAIN results' :
                    results'[k].act \in Writes => results'[k].act \in seen'
  BY DEF Trace, Over
<1>3. \A j, k \in DOMAIN results' :
        results'[j].act \in Writes /\ results'[j].act = results'[k].act => j = k
  BY DEF Trace
<1> QED BY <1>1, <1>2, <1>3 DEF Trace

LEMMA ReturnTrace ==
  ASSUME Trace, NEW code, Return(code), results' = results, UNCHANGED record,
         pc # "settled"
  PROVE  Trace'
BY TraceElsewhere DEF Return, Goto, NoBatch

LEMMA NextIterationTrace ==
  ASSUME Trace, NextIteration, ~ Over, results' = results, UNCHANGED record
  PROVE  Trace'
<1>1. pc' = "prepare" /\ seen' = seen /\ ran' = NONE
  BY DEF NextIteration, Goto, memory, NoBatch
<1>2. pc # "settled" BY DEF Over
<1> QED BY <1>1, <1>2, TraceElsewhere

LEMMA ChatTrace ==
  ASSUME IInv, Trace, NEW code,
         \/ \E first, second \in Prompts : Prepare(first, second)
         \/ OutOfIterations \/ ContextIsOver \/ DropResult
         \/ ChatFails(code) \/ Backoff
         \/ \E answer \in Answers, tokens \in Outputs : ChatAnswers(answer, tokens)
  PROVE  Trace'
<1>1. results' = results /\ UNCHANGED record /\ pc # "settled"
  BY DEF Prepare, OutOfIterations, ContextIsOver, DropResult, ChatFails, Backoff,
     ChatAnswers, Retry, report
<1>2. CASE \E c : Return(c) BY <1>1, <1>2, ReturnTrace
<1>3. CASE /\ pc \in {"prepare", "chat", "backoff"} /\ pc' # "batch" /\ seen' = seen
           /\ ran' = ran
  <2>1. ran' = NONE /\ ~ Over BY <1>3 DEF IInv, Shape, Over
  <2> QED BY <1>1, <1>3, <2>1, TraceElsewhere
<1>4. \/ \E c : Return(c)
      \/ /\ pc \in {"prepare", "chat", "backoff"} /\ pc' # "batch" /\ seen' = seen
         /\ ran' = ran
  BY DEF Prepare, OutOfIterations, ContextIsOver, DropResult, ChatFails, Backoff,
     ChatAnswers, Retry, Goto, SmallerRequest, DelayedRequest, memory, batch
<1> QED BY <1>2, <1>3, <1>4

LEMMA JudgementsTrace ==
  ASSUME Trace, Overrun \/ Finish \/ DemandWrite \/ RejectAnswer
  PROVE  Trace'
<1>1. results' = results /\ UNCHANGED record /\ ~ Over /\ pc # "settled"
  BY DEF Overrun, Finish, DemandWrite, RejectAnswer, Accepted, Over
<1>2. NextIteration \/ \E c : Return(c)
  BY DEF Overrun, Finish, DemandWrite, RejectAnswer, Instruct
<1> QED BY <1>1, <1>2, ReturnTrace, NextIterationTrace

LEMMA StartBatchTrace ==
  ASSUME IInv, Trace, StartBatch
  PROVE  Trace'
<1>1. /\ pc' = "batch" /\ calls' = calls /\ seen' = seen /\ results' = results
      /\ ran' = NONE /\ UNCHANGED record /\ ~ Over /\ pc # "settled"
      /\ queue' = {k \in DOMAIN calls : calls[k].act \notin seen}
  BY DEF StartBatch, Goto, memory, Over, IInv, Shape, Repeated
<1>2. \A k \in DOMAIN results, q \in queue' :
        results[k].act \in Writes => calls[q].act # results[k].act
  BY <1>1 DEF Trace
<1>3. /\ \A k \in DOMAIN results : results[k].act \in Writes => results[k].act \in seen
      /\ step = "RUNNING"
  BY <1>1 DEF Trace
<1> QED BY <1>1, <1>2, <1>3 DEF Trace, record

(* one more result, of an action that has none if it is a mutating one *)
LEMMA OneMoreResult ==
  ASSUME IInv, Trace, NEW act \in Actions, NEW status \in Status,
         results' = Append(results, Result(act, status)),
         act \in Writes => \A k \in DOMAIN results : results[k].act # act
  PROVE  /\ \A j, k \in DOMAIN results' :
               results'[j].act \in Writes /\ results'[j].act = results'[k].act => j = k
         /\ \A k \in DOMAIN results' :
               \/ k \in DOMAIN results /\ results'[k] = results[k]
               \/ k \notin DOMAIN results /\ results'[k] = Result(act, status)
         /\ DOMAIN results \subseteq DOMAIN results'
         /\ \E k \in DOMAIN results' : results'[k] = Result(act, status)
<1> DEFINE last == Len(results) + 1
<1>1. results \in Seq([act : Actions, status : Status])
  BY DEF IInv, Types, ReportTypes
<1>2. Result(act, status) \in [act : Actions, status : Status] BY DEF Result
<1>3. /\ DOMAIN results' = DOMAIN results \cup {last}
      /\ last \notin DOMAIN results /\ results'[last] = Result(act, status)
      /\ \A k \in DOMAIN results : results'[k] = results[k]
  BY <1>1, <1>2, Added
<1>4. Result(act, status).act = act BY DEF Result
<1> HIDE DEF last
<1>5. ASSUME NEW j \in DOMAIN results', NEW k \in DOMAIN results',
             results'[j].act \in Writes, results'[j].act = results'[k].act
      PROVE  j = k
  <2>1. CASE j \in DOMAIN results /\ k \in DOMAIN results
    BY <1>3, <1>5, <2>1 DEF Trace
  <2>2. CASE j = last \/ k = last BY <1>3, <1>4, <1>5, <2>2
  <2> QED BY <1>3, <2>1, <2>2
<1> QED BY <1>3, <1>5

LEMMA ReplayTrace ==
  ASSUME IInv, Trace, Replay
  PROVE  Trace'
<1> DEFINE act == calls[Min(replays)].act
<1>1. Min(replays) \in replays BY Positions DEF Replay
<1>2. act \in ReadRisk /\ cached[act] \in Status
  BY <1>1 DEF IInv, Types, Shape, MemoryTypes
<1>3. act \in Actions /\ act \notin Writes
  BY <1>2, ActionsDistinct DEF Actions
<1>4. results' = Append(results, Result(act, cached[act])) BY DEF Replay
<1>5. Result(act, cached[act]).act = act BY DEF Result
<1>6. /\ pc = "batch" /\ pc' = "batch" /\ calls' = calls /\ queue' = queue
      /\ seen' = seen /\ ran' = ran /\ UNCHANGED record /\ ~ Over
  BY DEF Replay, Goto, memory, Over
<1> HIDE DEF act
<1>7. /\ \A j, k \in DOMAIN results' :
           results'[j].act \in Writes /\ results'[j].act = results'[k].act => j = k
      /\ \A k \in DOMAIN results' :
           \/ k \in DOMAIN results /\ results'[k] = results[k]
           \/ k \notin DOMAIN results /\ results'[k] = Result(act, cached[act])
  BY <1>2, <1>3, <1>4, OneMoreResult
<1>8. \A k \in DOMAIN results' : results'[k].act \in Writes =>
        k \in DOMAIN results /\ results'[k] = results[k]
  BY <1>3, <1>5, <1>7
<1>9. /\ ran' # NONE => current' \in {current}
      /\ step' = "RUNNING"
      /\ \A w \in Writes : intents'[w] # NONE => effects'[w] > 0
  BY <1>6 DEF Trace, record, current
<1> QED BY <1>6, <1>7, <1>8, <1>9 DEF Trace

LEMMA InvokeTrace ==
  ASSUME IInv, Trace, NEW status \in Status, NEW early \in BOOLEAN,
         Invoke(status, early)
  PROVE  Trace'
<1>1. /\ pc = "batch" /\ pc' = "batch" /\ ~ Over /\ queue' = queue
      /\ calls' = calls /\ results' = results /\ seen' = seen \cup {current.act}
      /\ current' = current /\ step' = step
  BY DEF Invoke, Goto, Over, See, report, current
<1>2. \A w \in Writes : intents'[w] # NONE => effects'[w] > 0
  <2>1. effects \in [Writes -> Nat] /\ intents \in [Writes -> {NONE, "INTENT_RECORDED"} \cup Status]
    BY DEF IInv, Types, RecordTypes
  <2>2. CASE UNCHANGED <<intents, effects>> BY <2>2 DEF Trace
  <2>3. CASE /\ intents' = [intents EXCEPT ![current.act] = "INTENT_RECORDED"]
             /\ effects' = [effects EXCEPT ![current.act] = @ + 1]
    BY <2>1, <2>3 DEF Trace
  <2> QED BY <2>2, <2>3 DEF Invoke, Act
<1>3. current'.act \in seen' BY <1>1
<1>4. /\ step' = "RUNNING"
      /\ \A k \in DOMAIN results' : results'[k].act \in Writes => results'[k].act \in seen'
      /\ \A j, k \in DOMAIN results' :
           results'[j].act \in Writes /\ results'[j].act = results'[k].act => j = k
      /\ \A k \in DOMAIN results', q \in queue' :
           results'[k].act \in Writes => calls'[q].act # results'[k].act
  BY <1>1 DEF Trace
<1> QED BY <1>2, <1>3, <1>4 DEF Trace

LEMMA CollectTrace ==
  ASSUME IInv, Once, Trace, Collect
  PROVE  Trace'
<1>1. /\ Min(queue) \in queue /\ Min(queue) \in DOMAIN calls /\ pc = "batch"
      /\ ran # NONE /\ ran \in Status /\ ~ Over
      /\ current.act \in allowed /\ UNCHANGED record
  BY Positions DEF Collect, current, IInv, Types, Shape, BatchTypes, Over
<1>2. current.act \in Actions /\ current.act \in seen
  BY <1>1 DEF IInv, Types, SetupTypes, Trace
<1>3. current.act \in Writes => \A k \in DOMAIN results : results[k].act # current.act
  BY <1>1 DEF Trace, current
<1>4. Result(current.act, ran).act = current.act BY DEF Result
<1>5. /\ \A j, k \in DOMAIN results' :
           results'[j].act \in Writes /\ results'[j].act = results'[k].act => j = k
      /\ \A k \in DOMAIN results' :
           \/ k \in DOMAIN results /\ results'[k] = results[k]
           \/ k \notin DOMAIN results /\ results'[k] = Result(current.act, ran)
  BY <1>1, <1>2, <1>3, OneMoreResult DEF Collect
<1>6. /\ step' = "RUNNING"
      /\ \A w \in Writes : intents'[w] # NONE => effects'[w] > 0
  BY <1>1 DEF Trace, record
<1>7. CASE Return("ok")
  <2>1. pc' = "returned" /\ ran' = NONE BY <1>7 DEF Return, Goto, NoBatch
  <2> QED BY <1>5, <1>6, <2>1 DEF Trace, Over
<1>8. CASE Remember(current.act)
  <2>1. /\ pc' = "batch" /\ ran' = NONE /\ calls' = calls /\ seen' = seen
        /\ queue' = queue \ {Min(queue)}
    BY <1>8 DEF Remember, Goto
  <2>2. \A q \in queue' : calls[q].act # current.act
    BY <1>1, <2>1 DEF Once, current
  <2>3. \A k \in DOMAIN results' : results'[k].act \in Writes =>
          results'[k].act \in seen' /\ \A q \in queue' : calls'[q].act # results'[k].act
    BY <1>1, <1>2, <1>4, <1>5, <2>1, <2>2 DEF Trace
  <2> QED BY <1>5, <1>6, <2>1, <2>3 DEF Trace
<1> QED BY <1>7, <1>8 DEF Collect

LEMMA EndBatchTrace ==
  ASSUME Trace, EndBatch
  PROVE  Trace'
<1>1. results' = results /\ UNCHANGED record /\ ~ Over /\ pc # "settled"
  BY DEF EndBatch, Over
<1>2. NextIteration \/ \E c : Return(c) BY DEF EndBatch
<1> QED BY <1>1, <1>2, ReturnTrace, NextIterationTrace

LEMMA AfterwardsTrace ==
  ASSUME IInv, Trace,
         \/ \E stored \in BOOLEAN : Settle(stored)
         \/ ContextEnds \/ UNCHANGED vars
  PROVE  Trace'
<1>1. ASSUME NEW stored \in BOOLEAN, Settle(stored)
      PROVE  Trace'
  <2>1. /\ pc' = "settled" /\ ran' = NONE /\ results' = results /\ effects' = effects
        /\ intents' = UpdatedIntents(stored)
    BY <1>1 DEF Settle, Goto, batch, report, IInv, Shape
  <2>2. \A w \in Writes : intents'[w] # NONE => effects'[w] > 0
    BY <2>1 DEF UpdatedIntents, Trace
  <2> QED BY <2>1, <2>2 DEF Trace, Over
<1>2. CASE ContextEnds
  BY <1>2 DEF ContextEnds, Trace, Over, batch, memory, record, report, current
<1>3. CASE UNCHANGED vars
  BY <1>3 DEF vars, Trace, Over, batch, memory, record, report, current
<1> QED BY <1>1, <1>2, <1>3

THEOREM TraceInvariance == Spec => []Trace
<1>1. Init => Trace
  BY DEF Init, Trace, Over
<1>2. IInv /\ Once /\ Trace /\ [Next]_vars => Trace'
  <2> SUFFICES ASSUME IInv, Once, Trace, Run PROVE Trace'
    BY AfterwardsTrace DEF Next
  <2>1. \A status \in Status : \A early \in BOOLEAN : Invoke(status, early) => Trace'
    BY InvokeTrace
  <2>2. {"SUCCEEDED", "FAILED", "RETRYABLE"} \cup Waiting = Status BY DEF Status
  <2> QED
    BY <2>1, <2>2, ChatTrace, JudgementsTrace, StartBatchTrace, ReplayTrace,
       CollectTrace, EndBatchTrace, AfterwardsTrace
    DEF Run
<1> QED BY <1>1, <1>2, Invariance, OnceInvariance, PTL DEF Spec

----
(* What a step owes, from the first answer to its verification. *)
Wrote == \E k \in DOMAIN results : results[k].act \in Writes

Duty ==
  /\ mutated => Wrote
  /\ ran = "WAITING_APPROVAL" => pending
  /\ outcome = "ok" /\ duty = "write" => Wrote \/ Asked \/ pending
  /\ DutyDone

(* a step that is still running owes no more than its next state *)
LEMMA DutyMoves ==
  ASSUME Trace, pc # "settled", step' = step,
         mutated' => Wrote', ran' = "WAITING_APPROVAL" => pending',
         outcome' = "ok" /\ duty' = "write" => Wrote' \/ Asked' \/ pending'
  PROVE  Duty'
BY DEF Trace, Duty, DutyDone

LEMMA DutyElsewhere ==
  ASSUME Trace, Duty, pc # "settled", step' = step, duty' = duty,
         results' = results, pending' = pending, mutated' => mutated,
         ran' \in {ran, NONE}, outcome' = "ok" => outcome = "ok"
  PROVE  Duty'
<1>1. Wrote' = Wrote /\ Asked' = Asked BY DEF Wrote, Asked
<1>2. ran' = "WAITING_APPROVAL" => ran = "WAITING_APPROVAL" BY DEF NONE
<1> QED BY <1>1, <1>2, DutyMoves DEF Duty

LEMMA ReturnDuty ==
  ASSUME Trace, Duty, NEW code, Return(code), results' = results, UNCHANGED record,
         pc # "settled", code = "ok" /\ duty = "write" => Wrote
  PROVE  Duty'
<1>1. /\ mutated' = FALSE /\ ran' = NONE /\ outcome' = code /\ duty' = duty
      /\ step' = step /\ Wrote' = Wrote
  BY DEF Return, Goto, NoBatch, setup, record, Wrote
<1>2. ran' # "WAITING_APPROVAL" BY <1>1 DEF NONE
<1> QED BY <1>1, <1>2, DutyMoves

LEMMA NextIterationDuty ==
  ASSUME Trace, Duty, NextIteration, ~ Over, results' = results, UNCHANGED record
  PROVE  Duty'
<1>1. /\ mutated' = mutated /\ ran' = NONE /\ outcome' = outcome /\ duty' = duty
      /\ step' = step /\ pending' = pending /\ pc # "settled"
  BY DEF NextIteration, Goto, NoBatch, setup, record, memory, Over
<1> QED BY <1>1, DutyElsewhere

LEMMA ContextIsNoSuccess == \A c : ContextError(c) # "ok"
BY DEF ContextError

LEMMA ChatDuty ==
  ASSUME Trace, Duty, NEW code \in Codes,
         \/ \E first, second \in Prompts : Prepare(first, second)
         \/ OutOfIterations \/ ContextIsOver \/ DropResult
         \/ ChatFails(code) \/ Backoff
         \/ \E answer \in Answers, tokens \in Outputs : ChatAnswers(answer, tokens)
  PROVE  Duty'
<1>1. results' = results /\ UNCHANGED record /\ pc # "settled"
  BY DEF Prepare, OutOfIterations, ContextIsOver, DropResult, ChatFails, Backoff,
     ChatAnswers, Retry, report
<1>2. CASE \E c : c # "ok" /\ Return(c) BY <1>1, <1>2, ReturnDuty
<1>3. CASE /\ mutated' = mutated /\ ran' = ran /\ outcome' = outcome /\ duty' = duty
  BY <1>1, <1>3, DutyElsewhere DEF record
<1>4. \/ \E c : c # "ok" /\ Return(c)
      \/ /\ mutated' = mutated /\ ran' = ran /\ outcome' = outcome /\ duty' = duty
  <2>1. code # "ok" BY DEF Codes
  <2> QED
    BY <2>1, ContextIsNoSuccess
    DEF Prepare, OutOfIterations, ContextIsOver, DropResult, ChatFails, Backoff,
     ChatAnswers, Retry, Goto, SmallerRequest, DelayedRequest, memory, batch, setup
<1> QED BY <1>2, <1>3, <1>4

LEMMA JudgementsDuty ==
  ASSUME IInv, Trace, Duty, Overrun \/ Finish \/ DemandWrite \/ RejectAnswer
  PROVE  Duty'
<1>1. results' = results /\ UNCHANGED record /\ ~ Over /\ pc # "settled"
  BY DEF Overrun, Finish, DemandWrite, RejectAnswer, Accepted, Over
<1>2. CASE Finish
  BY <1>1, <1>2, ReturnDuty DEF Finish, Owing, Duty
<1>3. CASE Overrun \/ DemandWrite \/ RejectAnswer
  <2>1. ~ Valid => FirstError # "ok" BY FirstErrorCodes DEF Codes
  <2>2. NextIteration \/ \E c : c # "ok" /\ Return(c)
    BY <1>3, <2>1 DEF Overrun, DemandWrite, RejectAnswer, Instruct
  <2> QED BY <1>1, <2>2, ReturnDuty, NextIterationDuty
<1> QED BY <1>2, <1>3

LEMMA StartBatchDuty ==
  ASSUME Trace, Duty, StartBatch
  PROVE  Duty'
<1>1. /\ results' = results /\ pending' = pending /\ mutated' = mutated
      /\ ran' = ran /\ outcome' = outcome /\ step' = step /\ duty' = duty
      /\ pc # "settled"
  BY DEF StartBatch, Goto, setup, memory, record
<1> QED BY <1>1, DutyElsewhere

LEMMA ReplayDuty ==
  ASSUME IInv, Trace, Duty, Replay
  PROVE  Duty'
<1> DEFINE act == calls[Min(replays)].act
<1>1. Min(replays) \in replays BY Positions DEF Replay
<1>2. act \in ReadRisk /\ cached[act] \in Status
  BY <1>1 DEF IInv, Types, Shape, MemoryTypes
<1>3. act \in Actions /\ act \notin Writes
  BY <1>2, ActionsDistinct DEF Actions
<1>4. results' = Append(results, Result(act, cached[act])) BY DEF Replay
<1> HIDE DEF act
<1>5. /\ DOMAIN results \subseteq DOMAIN results'
      /\ \A k \in DOMAIN results' :
           k \in DOMAIN results => results'[k] = results[k]
  BY <1>2, <1>3, <1>4, OneMoreResult
<1>6. (Wrote => Wrote') /\ (Asked => Asked') BY <1>5 DEF Wrote, Asked
<1>7. /\ pending' = pending /\ mutated' = mutated /\ ran' = ran
      /\ outcome' = outcome /\ step' = step /\ duty' = duty /\ pc # "settled"
  BY DEF Replay, Goto, setup, memory, record
<1> QED BY <1>6, <1>7, DutyMoves DEF Duty

LEMMA InvokeDuty ==
  ASSUME Trace, Duty, NEW status \in Status, NEW early \in BOOLEAN,
         Invoke(status, early)
  PROVE  Duty'
<1>1. /\ results' = results /\ mutated' = mutated /\ ran' = status
      /\ outcome' = outcome /\ step' = step /\ duty' = duty /\ pc # "settled"
  BY DEF Invoke, Goto, setup, report
<1>2. (pending => pending') /\ (ran' = "WAITING_APPROVAL" => pending')
  BY <1>1 DEF Invoke, Propose
<1>3. Wrote' = Wrote /\ Asked' = Asked BY <1>1 DEF Wrote, Asked
<1> QED BY <1>1, <1>2, <1>3, DutyMoves DEF Duty

LEMMA CollectDuty ==
  ASSUME IInv, Trace, Duty, Collect
  PROVE  Duty'
<1>1. /\ Min(queue) \in queue /\ Min(queue) \in DOMAIN calls /\ pc = "batch"
      /\ ran \in Status /\ current.act \in allowed
      /\ step' = step /\ pending' = pending
  BY Positions DEF Collect, current, IInv, Types, Shape, BatchTypes, record
<1>2. current.act \in Actions
  BY <1>1 DEF IInv, Types, SetupTypes
<1>3. current.act \in Writes => \A k \in DOMAIN results : results[k].act # current.act
  BY <1>1 DEF Trace, current
<1>4. /\ \A k \in DOMAIN results' : k \in DOMAIN results => results'[k] = results[k]
      /\ DOMAIN results \subseteq DOMAIN results'
      /\ \E k \in DOMAIN results' : results'[k] = Result(current.act, ran)
  BY <1>1, <1>2, <1>3, OneMoreResult DEF Collect
<1>5. /\ Wrote => Wrote'
      /\ Asked => Asked'
      /\ current.act \in Writes => Wrote'
      /\ ran = "WAITING_USER" => Asked'
  BY <1>4 DEF Wrote, Asked, Result
<1>6. CASE Return("ok") /\ ran \in Waiting
  <2>1. mutated' = FALSE /\ ran' = NONE BY <1>6 DEF Return, NoBatch
  <2>2. Asked' \/ pending' BY <1>1, <1>5, <1>6 DEF Waiting, Duty
  <2>3. ran' # "WAITING_APPROVAL" BY <2>1 DEF NONE
  <2> QED BY <1>1, <2>1, <2>2, <2>3, DutyMoves
<1>7. CASE Remember(current.act)
  <2>1. /\ mutated' = (mutated \/ current.act \in Writes) /\ ran' = NONE
        /\ outcome' = outcome /\ duty' = duty
    BY <1>7 DEF Remember, Goto, setup
  <2>2. ran' # "WAITING_APPROVAL" BY <2>1 DEF NONE
  <2> QED BY <1>1, <1>5, <2>1, <2>2, DutyMoves DEF Duty
<1> QED BY <1>6, <1>7 DEF Collect

LEMMA EndBatchDuty ==
  ASSUME Trace, Duty, EndBatch
  PROVE  Duty'
<1>1. results' = results /\ UNCHANGED record /\ ~ Over /\ pc # "settled"
  BY DEF EndBatch, Over
<1>2. \/ NextIteration \/ Return("BUDGET_EXCEEDED")
      \/ Return("ok") /\ ~ Owing
  BY DEF EndBatch
<1> QED BY <1>1, <1>2, ReturnDuty, NextIterationDuty DEF Owing, Duty

LEMMA SettleDuty ==
  ASSUME IInv, Trace, Duty, NEW stored \in BOOLEAN, Settle(stored)
  PROVE  Duty'
<1>1. /\ results' = results /\ mutated' = mutated /\ ran' = ran /\ pending' = pending
      /\ outcome' = outcome /\ duty' = duty /\ effects' = effects
      /\ intents' = UpdatedIntents(stored) /\ step = "RUNNING"
  BY DEF Settle, Goto, setup, batch, memory, report, Trace
<1>2. Wrote' = Wrote /\ Asked' = Asked BY <1>1 DEF Wrote, Asked
<1>3. ASSUME step' = "VERIFYING", duty = "write"
      PROVE  Wrote
  BY <1>1, <1>3 DEF Settle, StepAfter, Duty
<1>4. ASSUME step' = "VERIFYING", duty = "action"
      PROVE  \E w \in Writes : effects'[w] > 0 /\ intents'[w] = "SUCCEEDED"
  <2>1. /\ DirectSuccess
        /\ stored \/ \A w \in Writes : intents[w] = NONE \/ Reported(w) = {}
    BY <1>1, <1>4 DEF Settle, StepAfter
  <2>2. PICK k \in DOMAIN results : /\ results[k].act \in Writes
                                    /\ results[k].status = "SUCCEEDED"
                                    /\ intents[results[k].act] # NONE
    BY <2>1 DEF DirectSuccess
  <2> DEFINE w == results[k].act
             last == CHOOSE i \in Reported(w) : \A j \in Reported(w) : j <= i
  <2>3. k \in Nat BY Elements DEF IInv, Types, ReportTypes
  <2>4. Reported(w) = {k} BY <2>2 DEF Reported, Trace
  <2>5. stored BY <2>1, <2>2, <2>4
  <2>6. \E i \in Reported(w) : \A j \in Reported(w) : j <= i BY <2>3, <2>4
  <2>7. last = k BY <2>4, <2>6
  <2> HIDE DEF last
  <2>8. UpdatedIntents(stored)[w] = results[last].status
    BY <2>2, <2>4, <2>5 DEF UpdatedIntents, last
  <2> QED BY <1>1, <2>2, <2>7, <2>8 DEF Trace
<1>5. DutyDone'
  BY <1>1, <1>2, <1>3, <1>4 DEF DutyDone, Wrote
<1> QED BY <1>1, <1>2, <1>5 DEF Duty

LEMMA RestDuty ==
  ASSUME Trace, Duty, ContextEnds \/ UNCHANGED vars
  PROVE  Duty'
<1>1. CASE ContextEnds
  <2>1. /\ results' = results /\ pending' = pending /\ mutated' = mutated
        /\ ran' = ran /\ outcome' = outcome /\ step' = step /\ duty' = duty
        /\ pc # "settled"
    BY <1>1 DEF ContextEnds, setup, memory, record, report, batch
  <2> QED BY <2>1, DutyElsewhere
<1>2. CASE UNCHANGED vars
  BY <1>2 DEF vars, Duty, DutyDone, Wrote, Asked, setup, memory, record, report, batch
<1> QED BY <1>1, <1>2

THEOREM DutyInvariance == Spec => []Duty
<1>1. Init => Duty
  BY DEF Init, Duty, DutyDone, NONE
<1>2. IInv /\ Trace /\ Duty /\ [Next]_vars => Duty'
  <2> SUFFICES ASSUME IInv, Trace, Duty, Run PROVE Duty'
    BY RestDuty DEF Next
  <2>1. \A status \in Status : \A early \in BOOLEAN : Invoke(status, early) => Duty'
    BY InvokeDuty
  <2>2. {"SUCCEEDED", "FAILED", "RETRYABLE"} \cup Waiting = Status BY DEF Status
  <2>3. ChatErrors \subseteq Codes /\ "INVALID_TOOL_CALL" \in Codes
    BY EndpointCodes DEF Codes
  <2> QED
    BY <2>1, <2>2, <2>3, ChatDuty, JudgementsDuty, StartBatchDuty, ReplayDuty,
       CollectDuty, EndBatchDuty, SettleDuty
    DEF Run
<1> QED BY <1>1, <1>2, Invariance, TraceInvariance, PTL DEF Spec

(* DutyDone: a step enters its verification with what it owed done, and the *)
(* durable record of a direct action says so.                               *)
THEOREM DutyHolds == Spec => []DutyDone
<1>1. Duty => DutyDone BY DEF Duty
<1> QED BY <1>1, DutyInvariance, PTL

----
(* Output tokens: an iteration adds at most the output budget of its time.  *)
Turns == IF pc = "batch" THEN iteration + 1 ELSE iteration

Within ==
  /\ outBudget > 0
  /\ pc \in {"chat", "backoff", "answered"} => maxOutput <= outBudget
  /\ ~ Over => usage <= outBudget * Turns
  /\ Over /\ outcome # "BUDGET_EXCEEDED" => usage <= outBudget * MaxIterations

LEMMA Products ==
  ASSUME NEW b \in Nat, NEW c \in Nat, NEW m \in Nat, NEW n \in Nat, b <= c, m <= n
  PROVE  /\ b * m \in Nat /\ b * n \in Nat /\ c * n \in Nat
         /\ b * m <= b * n /\ b * n <= c * n /\ b * m <= c * n
         /\ b * (m + 1) = b * m + b
<1>1. PICK d \in Nat : n = m + d
  <2>1. n - m \in Nat /\ n = m + (n - m) OBVIOUS
  <2> QED BY <2>1
<1>2. PICK e \in Nat : c = b + e
  <2>1. c - b \in Nat /\ c = b + (c - b) OBVIOUS
  <2> QED BY <2>1
<1>3. b * n = b * m + b * d /\ b * d \in Nat /\ b * m \in Nat BY <1>1
<1>4. c * n = b * n + e * n /\ e * n \in Nat BY <1>2
<1> QED BY <1>3, <1>4

LEMMA WithinTypes ==
  ASSUME IInv
  PROVE  /\ outBudget \in Nat /\ usage \in Nat /\ output \in Nat /\ maxOutput \in Nat
         /\ iteration \in Nat /\ iteration <= MaxIterations /\ MaxIterations \in Nat
         /\ Turns \in Nat /\ (~ Over => Turns <= MaxIterations)
         /\ pc \in {"chat", "backoff", "answered", "batch"} => iteration < MaxIterations
BY BoundsPositive
DEF IInv, Types, HttpTypes, ReportTypes, Shape, Turns, Over

(* what is used is within the budget of all iterations *)
LEMMA WithinAll ==
  ASSUME IInv, Within, ~ Over
  PROVE  usage <= outBudget * MaxIterations
<1>1. outBudget * Turns <= outBudget * MaxIterations /\ outBudget * Turns \in Nat
      /\ outBudget * MaxIterations \in Nat
  BY WithinTypes, Products
<1> QED BY <1>1, WithinTypes DEF Within

(* and stays so with an answer of its own limit *)
LEMMA WithinNext ==
  ASSUME IInv, Within, pc = "answered", ~ Overspent
  PROVE  /\ usage + output <= outBudget * (iteration + 1)
         /\ usage + output <= outBudget * MaxIterations
<1>1. usage <= outBudget * iteration /\ output <= outBudget
  BY WithinTypes DEF Within, Over, Turns, Overspent
<1>2. /\ outBudget * (iteration + 1) = outBudget * iteration + outBudget
      /\ outBudget * iteration \in Nat
  BY WithinTypes, Products
<1>3. iteration + 1 \in Nat /\ iteration + 1 <= MaxIterations BY WithinTypes
<1>4. /\ outBudget * (iteration + 1) <= outBudget * MaxIterations
      /\ outBudget * MaxIterations \in Nat /\ outBudget * (iteration + 1) \in Nat
  BY <1>3, WithinTypes, Products
<1> QED BY <1>1, <1>2, <1>4, WithinTypes

LEMMA ReturnWithin ==
  ASSUME Within, NEW code, Return(code), outBudget' = outBudget,
         code # "BUDGET_EXCEEDED" => usage' <= outBudget * MaxIterations
  PROVE  Within'
BY DEF Return, Goto, Within, Over

LEMMA ChatWithin ==
  ASSUME IInv, Within, NEW code,
         \/ \E first, second \in Prompts : Prepare(first, second)
         \/ OutOfIterations \/ ContextIsOver \/ DropResult
         \/ ChatFails(code) \/ Backoff
         \/ \E answer \in Answers, tokens \in Outputs : ChatAnswers(answer, tokens)
  PROVE  Within'
<1>1. /\ usage' = usage /\ iteration' = iteration /\ outBudget' = outBudget
      /\ ~ Over
  BY DEF Prepare, OutOfIterations, ContextIsOver, DropResult, ChatFails, Backoff,
     ChatAnswers, Retry, report, Over
<1>2. CASE \E c : Return(c) BY <1>1, <1>2, ReturnWithin, WithinAll
<1>3. CASE /\ pc \in {"prepare", "chat", "backoff"}
           /\ pc' \in {"chat", "backoff", "answered"} /\ maxOutput' <= outBudget
  <2>1. ~ Over' /\ Turns' = iteration /\ Turns = iteration
    BY <1>1, <1>3 DEF Over, Turns
  <2>2. usage <= outBudget * iteration BY <1>1, <2>1 DEF Within
  <2> QED BY <1>1, <1>3, <2>1, <2>2 DEF Within
<1>4. CASE \E first, second \in Prompts : Prepare(first, second) /\ ~ NoRoom(second)
  <2>1. PICK first \in Prompts, second \in Prompts :
          Prepare(first, second) /\ ~ NoRoom(second)
    BY <1>4
  <2>2. second \in Nat BY TokensNat
  <2>3. Limit(second) <= outBudget
    BY <2>2, TokensNat, WithinTypes DEF Limit, Room, Within
  <2>4. pc = "prepare" /\ pc' = "chat" /\ maxOutput' = Limit(second)
    BY <2>1 DEF Prepare, Goto
  <2> QED BY <1>3, <2>3, <2>4
<1>5. CASE ChatFails(code) \/ Backoff
           \/ \E answer \in Answers, tokens \in Outputs : ChatAnswers(answer, tokens)
  <2>1. \/ \E c : Return(c)
        \/ /\ pc \in {"chat", "backoff"} /\ pc' \in {"chat", "backoff", "answered"}
           /\ maxOutput' = maxOutput
    BY <1>5 DEF ChatFails, Backoff, ChatAnswers, Retry, Goto, SmallerRequest,
       DelayedRequest
  <2> QED BY <1>2, <1>3, <2>1 DEF Within
<1>6. ASSUME NEW first \in Prompts, NEW second \in Prompts, Prepare(first, second),
             NoRoom(second)
      PROVE  Return("CONTEXT_OVERFLOW")
  BY <1>6 DEF Prepare
<1>7. CASE OutOfIterations \/ ContextIsOver \/ DropResult
  BY <1>2, <1>7 DEF OutOfIterations, ContextIsOver, DropResult
<1> QED BY <1>2, <1>4, <1>5, <1>6, <1>7

LEMMA JudgementsWithin ==
  ASSUME IInv, Within, Overrun \/ Finish \/ DemandWrite \/ RejectAnswer
  PROVE  Within'
<1>1. /\ pc = "answered" /\ usage' = usage + output /\ outBudget' = outBudget
  BY DEF Overrun, Finish, DemandWrite, RejectAnswer, Accepted
<1>2. CASE Overrun BY <1>1, <1>2, ReturnWithin DEF Overrun
<1>3. CASE ~ Overspent
  <2>1. /\ usage' <= outBudget * (iteration + 1)
        /\ usage' <= outBudget * MaxIterations
    BY <1>1, <1>3, WithinNext
  <2>2. CASE \E c : Return(c) BY <1>1, <2>1, <2>2, ReturnWithin
  <2>3. CASE NextIteration
    <3>1. pc' = "prepare" /\ iteration' = iteration + 1
      BY <2>3 DEF NextIteration, Goto
    <3> QED BY <1>1, <2>1, <3>1 DEF Within, Over, Turns
  <2>4. NextIteration \/ \E c : Return(c)
    BY DEF Overrun, Finish, DemandWrite, RejectAnswer, Instruct
  <2> QED BY <2>2, <2>3, <2>4
<1> QED BY <1>2, <1>3 DEF Finish, DemandWrite, RejectAnswer, Overrun

LEMMA BatchWithin ==
  ASSUME IInv, Within, StartBatch \/ Replay
  PROVE  Within'
<1>1. CASE StartBatch
  <2>1. /\ pc' = "batch" /\ usage' = usage + output /\ outBudget' = outBudget
        /\ iteration' = iteration
    BY <1>1 DEF StartBatch, Goto
  <2>2. usage' <= outBudget * (iteration + 1)
    BY <1>1, <2>1, WithinNext DEF StartBatch
  <2> QED BY <2>1, <2>2 DEF Within, Over, Turns
<1>2. CASE Replay
  BY <1>2 DEF Replay, Goto, Within, Over, Turns
<1> QED BY <1>1, <1>2

LEMMA InvokeWithin ==
  ASSUME IInv, Within, NEW status \in Status, NEW early \in BOOLEAN,
         Invoke(status, early)
  PROVE  Within'
<1>1. /\ pc = "batch" /\ pc' = "batch" /\ usage' = usage /\ iteration' = iteration
      /\ ~ Over
  BY DEF Invoke, Goto, report, Over
<1>2. outBudget' \in Nat /\ outBudget <= outBudget'
  BY TokensNat, WithinTypes DEF Invoke, Granted
<1>3. /\ outBudget * Turns <= outBudget' * Turns
      /\ outBudget * Turns \in Nat /\ outBudget' * Turns \in Nat
  BY <1>2, WithinTypes, Products
<1>4. usage <= outBudget' * Turns BY <1>1, <1>3, WithinTypes DEF Within
<1>5. Turns' = Turns BY <1>1 DEF Turns
<1>6. outBudget' > 0 BY <1>2, WithinTypes DEF Within
<1> QED BY <1>1, <1>4, <1>5, <1>6 DEF Within, Over

LEMMA BatchEndsWithin ==
  ASSUME IInv, Within, Collect \/ EndBatch
  PROVE  Within'
<1>1. /\ pc = "batch" /\ ~ Over /\ usage' = usage /\ outBudget' = outBudget
  BY DEF Collect, EndBatch, Over
<1>2. CASE \E c : Return(c) BY <1>1, <1>2, ReturnWithin, WithinAll
<1>3. CASE Collect /\ Remember(current.act)
  <2>1. pc' = "batch" /\ iteration' = iteration
    BY <1>3 DEF Collect, Remember, Goto
  <2> QED BY <1>1, <2>1 DEF Within, Over, Turns
<1>4. CASE NextIteration
  <2>1. pc' = "prepare" /\ iteration' = iteration + 1
    BY <1>4 DEF NextIteration, Goto
  <2> QED BY <1>1, <2>1 DEF Within, Over, Turns
<1> QED BY <1>2, <1>3, <1>4 DEF Collect, EndBatch

LEMMA AfterwardsWithin ==
  ASSUME IInv, Within,
         \/ \E stored \in BOOLEAN : Settle(stored)
         \/ ContextEnds \/ UNCHANGED vars
  PROVE  Within'
<1>1. CASE \E stored \in BOOLEAN : Settle(stored)
  BY <1>1 DEF Settle, Goto, report, Within, Over
<1>2. CASE ContextEnds
  BY <1>2 DEF ContextEnds, http, report, Within, Over, Turns
<1>3. CASE UNCHANGED vars
  BY <1>3 DEF vars, http, report, Within, Over, Turns
<1> QED BY <1>1, <1>2, <1>3

(* OutputWithinBudget: with an output budget of its own a step spends no    *)
(* more than that budget in each of its iterations, whatever the model says *)
(* and however the budget is raised; only an answer over its own limit ends *)
(* the run with more.                                                       *)
THEOREM OutputBounded == Spec => []OutputWithinBudget
<1> DEFINE Own == 0 \notin Budgets
<1>1. Own /\ Init => Within
  <2> SUFFICES ASSUME Own, Init PROVE Within OBVIOUS
  <2>1. outBudget \in Nat \ {0} /\ usage = 0 /\ pc = "prepare" /\ iteration = 0
    BY TokensNat DEF Init
  <2>2. outBudget * iteration = 0 BY <2>1
  <2> QED BY <2>1, <2>2 DEF Within, Over, Turns
<1>2. IInv /\ Within /\ [Next]_vars => Within'
  <2> SUFFICES ASSUME IInv, Within, Run PROVE Within'
    BY AfterwardsWithin DEF Next
  <2>1. \A status \in Status : \A early \in BOOLEAN : Invoke(status, early) => Within'
    BY InvokeWithin
  <2>2. {"SUCCEEDED", "FAILED", "RETRYABLE"} \cup Waiting = Status BY DEF Status
  <2> QED
    BY <2>1, <2>2, ChatWithin, JudgementsWithin, BatchWithin, BatchEndsWithin,
       AfterwardsWithin
    DEF Run
<1>3. IInv /\ Within => OutputWithinBudget
  BY WithinAll DEF Within, OutputWithinBudget
<1>4. ~ Own => OutputWithinBudget BY DEF OutputWithinBudget
<1>5. CASE Own BY <1>1, <1>2, <1>3, <1>5, Invariance, PTL DEF Spec
<1>6. CASE ~ Own
  <2>1. IInv => OutputWithinBudget BY <1>4, <1>6
  <2> QED BY <2>1, Invariance, PTL
<1> QED BY <1>5, <1>6
----
(* A valid conversation: every answer's calls are answered right after it,  *)
(* and only there.                                                          *)
Answer(talked, k) == talked[k].role = "assistant"

Placed(talked, j) ==
  \E k \in 1 .. j - 1 :
     Answer(talked, k) /\ j <= k + Len(talked[k].ids)

ValidTalk(talked) ==
  /\ \A k \in DOMAIN talked : Answer(talked, k) => AnsweredAt(talked, k)
  /\ \A j \in DOMAIN talked : talked[j].role = "tool" => Placed(talked, j)

(* The replies of a batch are tool messages, one for each call that is no   *)
(* longer to be worked on.                                                  *)
Replied(replied, asked, left) ==
  /\ \A j \in DOMAIN replied : replied[j].role = "tool"
  /\ {replied[j].ids : j \in DOMAIN replied}
       = {<<asked[k].id>> : k \in DOMAIN asked \ left}
  /\ Len(replied) + Cardinality(left) = Len(asked)

Conversation ==
  /\ ValidTalk(messages) /\ ValidTalk(request)
  /\ pc # "batch" => replies = << >>
  /\ pc = "batch" =>
       /\ queue \cap replays = {}
       /\ ran # NONE => replays = {}
       /\ Replied(replies, calls, queue \cup replays)

(* the IDs of the n messages after the a-th; that these are tool messages; *)
(* that they are those of g                                                 *)
Ids(f, a, n)       == {f[j].ids : j \in a + 1 .. a + n}
Tools(f, a, n)     == \A j \in a + 1 .. a + n : f[j].role = "tool"
Stretch(f, a, n, g) == \A i \in 1 .. n : f[a + i] = g[i]

(* a stretch of one sequence that is the whole of another *)
LEMMA StretchIs ==
  ASSUME NEW f, NEW g, NEW a \in Nat, NEW n \in Nat, Stretch(f, a, n, g)
  PROVE  /\ Ids(f, a, n) = {g[i].ids : i \in 1 .. n}
         /\ Tools(f, a, n) <=> \A i \in 1 .. n : g[i].role = "tool"
<1> USE DEF Stretch
<1>1. \A i \in 1 .. n : a + i \in a + 1 .. a + n OBVIOUS
<1>2. ASSUME NEW j \in a + 1 .. a + n PROVE j - a \in 1 .. n /\ f[j] = g[j - a]
  <2>1. j - a \in 1 .. n /\ a + (j - a) = j OBVIOUS
  <2>2. f[a + (j - a)] = g[j - a] BY <2>1
  <2> QED BY <2>1, <2>2
<1>3. ASSUME NEW x \in {f[j].ids : j \in a + 1 .. a + n}
      PROVE  x \in {g[i].ids : i \in 1 .. n}
  <2>1. PICK j \in a + 1 .. a + n : x = f[j].ids OBVIOUS
  <2>2. j - a \in 1 .. n /\ x = g[j - a].ids BY <1>2, <2>1
  <2> QED BY <2>2
<1>4. ASSUME NEW x \in {g[i].ids : i \in 1 .. n}
      PROVE  x \in {f[j].ids : j \in a + 1 .. a + n}
  <2>1. PICK i \in 1 .. n : x = g[i].ids OBVIOUS
  <2>2. a + i \in a + 1 .. a + n /\ x = f[a + i].ids BY <1>1, <2>1
  <2> QED BY <2>2
<1>5. ASSUME \A j \in a + 1 .. a + n : f[j].role = "tool", NEW i \in 1 .. n
      PROVE  g[i].role = "tool"
  <2>1. f[a + i].role = "tool" BY <1>1, <1>5
  <2> QED BY <2>1
<1>6. ASSUME \A i \in 1 .. n : g[i].role = "tool", NEW j \in a + 1 .. a + n
      PROVE  f[j].role = "tool"
  <2>1. j - a \in 1 .. n /\ f[j] = g[j - a] BY <1>2
  <2> QED BY <1>6, <2>1
<1>7. Ids(f, a, n) = {g[i].ids : i \in 1 .. n} BY <1>3, <1>4 DEF Ids
<1> QED BY <1>5, <1>6, <1>7 DEF Tools

(* AnsweredAt, position by position *)
LEMMA AnsweredByPosition ==
  ASSUME NEW talked \in Seq(Messages), NEW k \in DOMAIN talked
  PROVE  AnsweredAt(talked, k) <=>
           LET n == Len(talked[k].ids)
           IN  /\ k + n <= Len(talked)
               /\ Tools(talked, k, n)
               /\ Ids(talked, k, n) = {<<id>> : id \in Range(talked[k].ids)}
<1> DEFINE n == Len(talked[k].ids)
           tools == SubSeq(talked, k + 1, k + n)
<1>1. k \in Nat /\ talked[k] \in Messages BY Elements
<1>2. n \in Nat
  <2>1. talked[k].ids \in Seq(Nat) BY <1>1 DEF Messages
  <2> QED BY <2>1, LenProperties
<1>3. CASE k + n <= Len(talked)
  <2>1. \A j \in k + 1 .. k + n : talked[j] \in Messages
    <3> TAKE j \in k + 1 .. k + n
    <3>1. j \in DOMAIN talked BY <1>1, <1>2, <1>3, Elements
    <3> QED BY <3>1, Elements
  <2>2. k + 1 \in Int /\ k + n \in Int BY <1>1, <1>2
  <2>3. /\ tools \in Seq(Messages)
        /\ Len(tools) = n
        /\ \A i \in 1 .. n : tools[i] = talked[k + i]
    <3> HIDE DEF n
    <3>1. /\ tools \in Seq(Messages)
          /\ Len(tools) = IF k + 1 <= k + n THEN (k + n) - (k + 1) + 1 ELSE 0
          /\ \A i \in 1 .. (k + n) - (k + 1) + 1 : tools[i] = talked[(k + 1) + i - 1]
      BY <2>1, <2>2, SubSeqProperties
    <3>2. (k + n) - (k + 1) + 1 = n BY <1>1, <1>2
    <3>3. \A i \in 1 .. n : (k + 1) + i - 1 = k + i BY <1>1, <1>2
    <3>4. Len(tools) = n BY <3>1, <1>1, <1>2
    <3> HIDE DEF tools
    <3> QED BY <3>1, <3>2, <3>3, <3>4
  <2>4. DOMAIN tools = 1 .. n
    <3> HIDE DEF tools, n
    <3> QED BY <2>3, Elements
  <2> HIDE DEF tools, n
  <2>5. Stretch(talked, k, n, tools) BY <2>3 DEF Stretch
  <2>6. /\ Ids(talked, k, n) = {tools[i].ids : i \in 1 .. n}
        /\ Tools(talked, k, n) <=> \A i \in 1 .. n : tools[i].role = "tool"
    BY <1>1, <1>2, <2>5, StretchIs
  <2> QED BY <1>3, <2>4, <2>6 DEF AnsweredAt, n, tools
<1>4. CASE ~ (k + n <= Len(talked)) BY <1>4 DEF AnsweredAt
<1> QED BY <1>3, <1>4

(* what is answered stays answered when the conversation goes on *)
LEMMA LongerTalk ==
  ASSUME NEW talked \in Seq(Messages), NEW longer \in Seq(Messages),
         Len(talked) <= Len(longer),
         \A k \in DOMAIN talked : /\ longer[k].role = talked[k].role
                                  /\ longer[k].ids = talked[k].ids,
         ValidTalk(talked)
  PROVE  /\ \A k \in DOMAIN talked : Answer(longer, k) => AnsweredAt(longer, k)
         /\ \A j \in DOMAIN talked : longer[j].role = "tool" => Placed(longer, j)
<1>1. /\ Len(talked) \in Nat /\ DOMAIN talked = 1 .. Len(talked)
      /\ Len(longer) \in Nat /\ DOMAIN longer = 1 .. Len(longer)
  BY Elements
<1>2. ASSUME NEW k \in DOMAIN talked, Answer(longer, k)
      PROVE  AnsweredAt(longer, k)
  <2> DEFINE n == Len(talked[k].ids)
  <2>1. AnsweredAt(talked, k) BY <1>2 DEF ValidTalk, Answer
  <2>2. /\ k + n <= Len(talked) /\ Tools(talked, k, n)
        /\ Ids(talked, k, n) = {<<id>> : id \in Range(talked[k].ids)}
    BY <2>1, AnsweredByPosition
  <2>3. talked[k].ids = longer[k].ids /\ k \in DOMAIN longer /\ k \in Nat BY <1>1
  <2>4. n \in Nat
    <3>1. talked[k] \in Messages BY Elements
    <3>2. talked[k].ids \in Seq(Nat) BY <3>1 DEF Messages
    <3> QED BY <3>2, LenProperties
  <2> HIDE DEF n
  <2>5. \A j \in k + 1 .. k + n : j \in DOMAIN talked BY <1>1, <2>2, <2>3, <2>4
  <2>6. Ids(longer, k, n) = Ids(talked, k, n) BY <2>5 DEF Ids
  <2>7. k + n <= Len(longer) /\ Tools(longer, k, n)
    BY <1>1, <2>2, <2>3, <2>4, <2>5 DEF Tools
  <2>8. n = Len(longer[k].ids) BY <2>3 DEF n
  <2> QED BY <2>2, <2>3, <2>6, <2>7, <2>8, AnsweredByPosition
<1>3. ASSUME NEW j \in DOMAIN talked, longer[j].role = "tool"
      PROVE  Placed(longer, j)
  <2>1. Placed(talked, j) BY <1>3 DEF ValidTalk
  <2>2. PICK k \in 1 .. j - 1 : Answer(talked, k) /\ j <= k + Len(talked[k].ids)
    BY <2>1 DEF Placed
  <2>3. k \in DOMAIN talked BY <1>1
  <2> QED BY <2>2, <2>3 DEF Placed, Answer
<1> QED BY <1>2, <1>3

LEMMA CompactValid ==
  ASSUME NEW talked \in Seq(Messages), ValidTalk(talked)
  PROVE  ValidTalk(Compact(talked))
<1>1. Compact(talked) \in Seq(Messages) BY CompactTyped
<1>2. DOMAIN Compact(talked) = DOMAIN talked BY DEF Compact
<1>3. Len(Compact(talked)) = Len(talked) BY <1>1, <1>2, Elements
<1>4. \A k \in DOMAIN talked : /\ Compact(talked)[k].role = talked[k].role
                               /\ Compact(talked)[k].ids = talked[k].ids
  BY DEF Compact, Message
<1>5. Len(talked) <= Len(Compact(talked)) BY <1>3, Elements
<1> QED BY <1>1, <1>2, <1>4, <1>5, LongerTalk DEF ValidTalk

(* an instruction of the controller *)
LEMMA InstructionValid ==
  ASSUME NEW talked \in Seq(Messages), ValidTalk(talked)
  PROVE  ValidTalk(Append(talked, Message("user", << >>)))
<1> DEFINE said == Message("user", << >>)
           longer == Append(talked, said)
<1>1. said \in Messages BY OneMessage, EmptySeq DEF Roles
<1>2. said.role = "user" BY DEF Message
<1> HIDE DEF said
<1>3. /\ longer \in Seq(Messages)
      /\ DOMAIN longer = DOMAIN talked \cup {Len(talked) + 1}
      /\ longer[Len(talked) + 1] = said
      /\ \A k \in DOMAIN talked : longer[k] = talked[k]
  BY <1>1, Added
<1>4. Len(talked) <= Len(longer) BY <1>1, AppendProperties, Elements
<1> HIDE DEF longer
<1>5. /\ \A k \in DOMAIN talked : Answer(longer, k) => AnsweredAt(longer, k)
      /\ \A j \in DOMAIN talked : longer[j].role = "tool" => Placed(longer, j)
  BY <1>3, <1>4, LongerTalk
<1>6. ValidTalk(longer) BY <1>2, <1>3, <1>5 DEF ValidTalk, Answer
<1> QED BY <1>6 DEF longer, said

(* a batch all of whose calls are answered joins the conversation *)
LEMMA BatchValid ==
  ASSUME NEW talked \in Seq(Messages), ValidTalk(talked),
         NEW asked \in Seq(Call), NEW replied \in Seq(Messages),
         Replied(replied, asked, {})
  PROVE  ValidTalk(Append(talked, Message("assistant", [k \in DOMAIN asked |-> asked[k].id]))
                   \o replied)
<1> DEFINE ids == [k \in DOMAIN asked |-> asked[k].id]
           said == Message("assistant", ids)
           begun == Append(talked, said)
           longer == begun \o replied
           t == Len(talked)
           n == Len(asked)
<1>1. /\ DOMAIN ids = DOMAIN asked
      /\ \A k \in DOMAIN asked : ids[k] = asked[k].id
      /\ ids = [k \in DOMAIN asked |-> ids[k]]
  OBVIOUS
<1>2. said.role = "assistant" /\ said.ids = ids BY DEF Message
<1> HIDE DEF ids
<1>3. ids \in Seq(Nat)
  <2>1. \A k \in DOMAIN asked : asked[k] \in Call BY Elements
  <2>2. \A k \in DOMAIN asked : ids[k] \in Nat BY <1>1, <2>1 DEF Call
  <2> QED BY <1>1, <2>2, Mapped
<1>4. n \in Nat /\ DOMAIN asked = 1 .. n /\ t \in Nat /\ DOMAIN talked = 1 .. t
  BY Elements
<1>5. Len(ids) = n BY <1>1, <1>3, <1>4, Elements
<1>6. said \in Messages BY <1>3, OneMessage DEF Roles
<1> HIDE DEF said
<1>7. /\ begun \in Seq(Messages) /\ Len(begun) = t + 1
      /\ begun[t + 1] = said
      /\ \A k \in 1 .. t : begun[k] = talked[k]
  BY <1>4, <1>6, Added, AppendProperties
<1> HIDE DEF begun
<1>8. Len(replied) = n /\ DOMAIN replied = 1 .. n
  <2>1. Len(replied) + Cardinality({}) = n BY DEF Replied
  <2>2. Cardinality({}) = 0 BY FS_EmptySet
  <2> QED BY <1>4, <2>1, <2>2, Elements
<1>9. /\ longer \in Seq(Messages)
      /\ Len(longer) = (t + 1) + n
      /\ \A i \in 1 .. (t + 1) + n :
           longer[i] = IF i <= t + 1 THEN begun[i] ELSE replied[i - (t + 1)]
  <2>1. /\ longer \in Seq(Messages)
        /\ Len(longer) = Len(begun) + Len(replied)
        /\ \A i \in 1 .. Len(begun) + Len(replied) :
             longer[i] = IF i <= Len(begun) THEN begun[i]
                         ELSE replied[i - Len(begun)]
    BY <1>7, ConcatProperties
  <2> HIDE DEF longer
  <2> QED BY <1>7, <1>8, <2>1
<1> HIDE DEF longer
<1>10. DOMAIN longer = 1 .. t + 1 + n BY <1>4, <1>9, Elements
<1>11. \A k \in 1 .. t : longer[k] = talked[k] BY <1>4, <1>7, <1>9
<1>12. longer[t + 1] = said BY <1>4, <1>7, <1>9
<1>13. \A j \in 1 .. n : longer[(t + 1) + j] = replied[j]
  <2> TAKE j \in 1 .. n
  <2>1. /\ (t + 1) + j \in 1 .. (t + 1) + n /\ ~ ((t + 1) + j <= t + 1)
        /\ ((t + 1) + j) - (t + 1) = j
    BY <1>4
  <2> QED BY <1>9, <2>1
<1>14. \A i \in (t + 1) + 1 .. (t + 1) + n :
         i - (t + 1) \in 1 .. n /\ longer[i] = replied[i - (t + 1)]
  <2> TAKE i \in (t + 1) + 1 .. (t + 1) + n
  <2>1. i - (t + 1) \in 1 .. n /\ i = (t + 1) + (i - (t + 1)) BY <1>4
  <2> QED BY <1>13, <2>1
<1>15. /\ \A k \in 1 .. t : Answer(longer, k) => AnsweredAt(longer, k)
       /\ \A j \in 1 .. t : longer[j].role = "tool" => Placed(longer, j)
  <2>1. t <= Len(longer) BY <1>4, <1>9
  <2>2. \A k \in DOMAIN talked : /\ longer[k].role = talked[k].role
                                 /\ longer[k].ids = talked[k].ids
    BY <1>4, <1>11
  <2> QED BY <1>4, <1>9, <2>1, <2>2, LongerTalk
<1>16. AnsweredAt(longer, t + 1)
  <2>1. t + 1 \in DOMAIN longer BY <1>4, <1>10
  <2>2. longer[t + 1].ids = ids /\ (t + 1) + Len(longer[t + 1].ids) = (t + 1) + n
    BY <1>2, <1>5, <1>12
  <2>3. Stretch(longer, t + 1, n, replied) BY <1>13 DEF Stretch
  <2>4. /\ Ids(longer, t + 1, n) = {replied[j].ids : j \in 1 .. n}
        /\ Tools(longer, t + 1, n) <=> \A j \in 1 .. n : replied[j].role = "tool"
    <3>1. t + 1 \in Nat BY <1>4
    <3> QED BY <1>4, <2>3, <3>1, StretchIs
  <2>5. /\ {replied[j].ids : j \in 1 .. n} = {<<asked[k].id>> : k \in DOMAIN asked}
        /\ \A j \in 1 .. n : replied[j].role = "tool"
    BY <1>8 DEF Replied
  <2>6. {<<asked[k].id>> : k \in DOMAIN asked} = {<<id>> : id \in Range(ids)}
    BY <1>1 DEF Range
  <2>7. Ids(longer, t + 1, n) = {<<id>> : id \in Range(longer[t + 1].ids)}
    BY <2>2, <2>4, <2>5, <2>6
  <2>8. (t + 1) + n <= Len(longer) BY <1>4, <1>9
  <2> QED BY <1>5, <1>9, <2>1, <2>2, <2>4, <2>5, <2>7, <2>8, AnsweredByPosition
<1>17. \A j \in (t + 1) + 1 .. (t + 1) + n : Placed(longer, j)
  <2> TAKE j \in (t + 1) + 1 .. (t + 1) + n
  <2>1. t + 1 \in 1 .. j - 1 /\ j <= (t + 1) + n BY <1>4
  <2>2. longer[t + 1].ids = ids BY <1>2, <1>12
  <2>3. Answer(longer, t + 1) /\ j <= (t + 1) + Len(longer[t + 1].ids)
    BY <1>2, <1>5, <1>12, <2>1, <2>2 DEF Answer
  <2> QED BY <2>1, <2>3 DEF Placed
<1>18. longer[t + 1].role # "tool" BY <1>2, <1>12
<1>19. ValidTalk(longer)
  <2>1. ASSUME NEW k \in 1 .. t + 1 + n, Answer(longer, k)
        PROVE  AnsweredAt(longer, k)
    <3>1. CASE k \in 1 .. t BY <1>15, <2>1, <3>1
    <3>2. CASE k = t + 1 BY <1>16, <3>2
    <3>3. CASE k \in (t + 1) + 1 .. (t + 1) + n
      <4>1. longer[k].role = "tool" BY <1>8, <1>14, <3>3 DEF Replied
      <4> QED BY <2>1, <4>1 DEF Answer
    <3> QED BY <1>4, <3>1, <3>2, <3>3
  <2>2. ASSUME NEW j \in 1 .. t + 1 + n, longer[j].role = "tool"
        PROVE  Placed(longer, j)
    <3>1. CASE j \in 1 .. t BY <1>15, <2>2, <3>1
    <3>2. CASE j = t + 1 BY <1>18, <2>2, <3>2
    <3>3. CASE j \in (t + 1) + 1 .. (t + 1) + n BY <1>17, <3>3
    <3> QED BY <1>4, <3>1, <3>2, <3>3
  <2> QED BY <1>10, <2>1, <2>2 DEF ValidTalk
<1> QED BY <1>19 DEF longer, begun, said, ids

LEMMA EmptyTalk == ValidTalk(<< >>)
BY DEF ValidTalk

(* one more call of the batch is answered *)
LEMMA OneMoreReply ==
  ASSUME NEW asked \in Seq(Call), NEW replied \in Seq(Messages),
         NEW left \in SUBSET DOMAIN asked, NEW k \in left,
         Replied(replied, asked, left)
  PROVE  Replied(Append(replied, Message("tool", <<asked[k].id>>)), asked, left \ {k})
<1> DEFINE said == Message("tool", <<asked[k].id>>)
           more == Append(replied, said)
<1>1. said.role = "tool" /\ said.ids = <<asked[k].id>> BY DEF Message
<1>2. said \in Messages
  <2>1. asked[k] \in Call BY Elements
  <2>2. <<asked[k].id>> \in Seq(Nat) BY <2>1 DEF Call
  <2> QED BY <2>2, OneMessage DEF Roles
<1> HIDE DEF said
<1>3. /\ more \in Seq(Messages) /\ Len(more) = Len(replied) + 1
      /\ DOMAIN more = DOMAIN replied \cup {Len(replied) + 1}
      /\ more[Len(replied) + 1] = said
      /\ \A j \in DOMAIN replied : more[j] = replied[j]
  BY <1>2, Added, AppendProperties
<1> HIDE DEF more
<1>4. Cardinality(left \ {k}) + 1 = Cardinality(left) /\ Cardinality(left \ {k}) \in Nat
  <2>1. Len(asked) \in Nat /\ DOMAIN asked = 1 .. Len(asked) BY Elements
  <2>2. IsFiniteSet(1 .. Len(asked)) BY <2>1, FS_Interval
  <2>3. IsFiniteSet(left) BY <2>1, <2>2, FS_Subset
  <2>4. IsFiniteSet(left \ {k}) /\ Cardinality(left \ {k}) = Cardinality(left) - 1
    BY <2>3, FS_RemoveElement
  <2>5. Cardinality(left) \in Nat /\ Cardinality(left \ {k}) \in Nat
    BY <2>3, <2>4, FS_CardinalityType
  <2> QED BY <2>4, <2>5
<1>5. Len(more) + Cardinality(left \ {k}) = Len(asked)
  <2>1. Len(replied) \in Nat BY Elements
  <2> QED BY <1>3, <1>4, <2>1 DEF Replied
<1>6. {more[j].ids : j \in DOMAIN more}
        = {replied[j].ids : j \in DOMAIN replied} \cup {<<asked[k].id>>}
  BY <1>1, <1>3
<1>7. {<<asked[i].id>> : i \in DOMAIN asked \ (left \ {k})}
        = {<<asked[i].id>> : i \in DOMAIN asked \ left} \cup {<<asked[k].id>>}
  OBVIOUS
<1>8. \A j \in DOMAIN more : more[j].role = "tool" BY <1>1, <1>3 DEF Replied
<1>9. Replied(more, asked, left \ {k}) BY <1>5, <1>6, <1>7, <1>8 DEF Replied
<1> QED BY <1>9 DEF more, said

----
LEMMA ReturnConversation ==
  ASSUME NEW code, Return(code)
  PROVE  Conversation'
<1>1. /\ messages' = << >> /\ request' = << >> /\ replies' = << >>
      /\ pc' = "returned"
  BY DEF Return, NoRequest, NoBatch, Goto
<1> QED BY <1>1, EmptyTalk DEF Conversation, ValidTalk

LEMMA NextIterationConversation ==
  ASSUME NextIteration, ValidTalk(messages')
  PROVE  Conversation'
<1>1. request' = << >> /\ replies' = << >> /\ pc' = "prepare"
  BY DEF NextIteration, NoRequest, NoBatch, Goto
<1> QED BY <1>1, EmptyTalk DEF Conversation, ValidTalk

LEMMA RequestConversation ==
  ASSUME Conversation, pc # "batch", pc' # "batch",
         messages' = messages, ValidTalk(request'), replies' = replies
  PROVE  Conversation'
BY DEF Conversation

LEMMA ChatConversation ==
  ASSUME IInv, Conversation, NEW code,
         \/ \E first, second \in Prompts : Prepare(first, second)
         \/ OutOfIterations \/ ContextIsOver \/ DropResult
         \/ ChatFails(code) \/ Backoff
         \/ \E answer \in Answers, tokens \in Outputs : ChatAnswers(answer, tokens)
  PROVE  Conversation'
<1>1. /\ messages \in Seq(Messages) /\ request \in Seq(Messages)
      /\ ValidTalk(messages) /\ ValidTalk(request)
  BY DEF IInv, Types, TalkTypes, HttpTypes, Conversation
<1>2. CASE \E first, second \in Prompts : Prepare(first, second)
  <2>1. PICK first \in Prompts, second \in Prompts : Prepare(first, second) BY <1>2
  <2>2. CASE NoRoom(second) BY <2>1, <2>2, ReturnConversation DEF Prepare
  <2>3. CASE ~ NoRoom(second)
    <3>1. /\ messages' = messages \/ messages' = Compact(messages)
          /\ request' = messages' /\ pc = "prepare" /\ pc' = "chat"
          /\ replies' = replies
      BY <2>1, <2>3 DEF Prepare, Goto, batch
    <3>2. ValidTalk(messages') BY <1>1, <3>1, CompactValid
    <3> QED BY <3>1, <3>2 DEF Conversation
  <2> QED BY <2>2, <2>3
<1>3. CASE \E c : Return(c) BY <1>3, ReturnConversation
<1>4. CASE ChatFails(code) /\ (SmallerRequest \/ DelayedRequest)
  <2>1. /\ pc = "chat" /\ pc' \in {"chat", "backoff"} /\ messages' = messages
        /\ replies' = replies /\ (request' = request \/ request' = Compact(request))
    BY <1>4 DEF ChatFails, SmallerRequest, DelayedRequest, Retry, Goto, talk, batch
  <2>2. ValidTalk(request') BY <1>1, <2>1, CompactValid
  <2> QED BY <2>1, <2>2, RequestConversation
<1>5. CASE Backoff
  <2>1. /\ pc = "backoff" /\ pc' = "chat" /\ messages' = messages
        /\ replies' = replies /\ request' = request
    BY <1>5 DEF Backoff, Retry, Goto, talk, batch
  <2> QED BY <1>1, <2>1, RequestConversation
<1>6. CASE \E answer \in Answers, tokens \in Outputs : ChatAnswers(answer, tokens)
  <2>1. /\ pc = "chat" /\ pc' = "answered" /\ messages' = messages
        /\ replies' = replies /\ request' = << >>
    BY <1>6 DEF ChatAnswers, Goto, talk
  <2> QED BY <2>1, EmptyTalk, RequestConversation DEF ValidTalk
<1>7. CASE OutOfIterations \/ ContextIsOver \/ DropResult
  BY <1>3, <1>7 DEF OutOfIterations, ContextIsOver, DropResult
<1>8. CASE ChatFails(code) BY <1>3, <1>4, <1>8 DEF ChatFails
<1> QED BY <1>2, <1>5, <1>6, <1>7, <1>8

LEMMA JudgementsConversation ==
  ASSUME IInv, Conversation, Overrun \/ Finish \/ DemandWrite \/ RejectAnswer
  PROVE  Conversation'
<1>1. CASE \E c : Return(c) BY <1>1, ReturnConversation
<1>2. CASE Instruct
  <2>1. messages \in Seq(Messages) /\ ValidTalk(messages)
    BY DEF IInv, Types, TalkTypes, Conversation
  <2>2. messages' = Append(messages, Message("user", << >>)) /\ NextIteration
    BY <1>2 DEF Instruct
  <2>3. ValidTalk(messages') BY <2>1, <2>2, InstructionValid
  <2> QED BY <2>2, <2>3, NextIterationConversation
<1>3. Instruct \/ \E c : Return(c)
  BY DEF Overrun, Finish, DemandWrite, RejectAnswer
<1> QED BY <1>1, <1>2, <1>3

LEMMA StartBatchConversation ==
  ASSUME IInv, Conversation, StartBatch
  PROVE  Conversation'
<1>1. /\ pc' = "batch" /\ messages' = messages /\ request' = << >>
      /\ replies' = << >> /\ calls' = calls /\ ran' = NONE
      /\ queue' = {k \in DOMAIN calls : ~ Repeated(k)}
      /\ replays' = {k \in DOMAIN calls : Repeated(k)}
  BY DEF StartBatch, Goto, NoRequest, talk, Conversation, IInv, Shape
<1>2. queue' \cap replays' = {} /\ queue' \cup replays' = DOMAIN calls BY <1>1
<1>3. Replied(<< >>, calls, DOMAIN calls)
  <2>1. Len(calls) \in Nat /\ DOMAIN calls = 1 .. Len(calls)
    BY Elements DEF IInv, Types, BatchTypes
  <2> DEFINE n == Len(calls)
  <2>2. Cardinality(1 .. n) = n
    <3> HIDE DEF n
    <3>1. n \in Nat BY <2>1 DEF n
    <3>2. Cardinality(1 .. n) = IF 1 > n THEN 0 ELSE n - 1 + 1
      BY <3>1, FS_Interval
    <3> QED BY <3>1, <3>2
  <2>3. Len(<< >>) = 0 /\ DOMAIN << >> = {} BY EmptySeq
  <2> QED BY <2>1, <2>2, <2>3 DEF Replied
<1>4. Replied(replies', calls', queue' \cup replays') BY <1>1, <1>2, <1>3
<1>5. ValidTalk(messages') /\ ValidTalk(request')
  BY <1>1, EmptyTalk DEF Conversation, ValidTalk
<1> QED BY <1>1, <1>2, <1>4, <1>5 DEF Conversation

LEMMA ReplayConversation ==
  ASSUME IInv, Conversation, Replay
  PROVE  Conversation'
<1> DEFINE k == Min(replays)
           left == queue \cup replays
<1>1. k \in replays /\ k \in DOMAIN calls BY Positions DEF Replay
<1>2. /\ pc = "batch" /\ pc' = "batch" /\ messages' = messages /\ request' = request
      /\ calls' = calls /\ queue' = queue /\ ran' = ran /\ replays' = replays \ {k}
      /\ replies' = Append(replies, Message("tool", <<calls[k].id>>))
  BY DEF Replay, Goto, Reply, talk, http
<1>3. /\ calls \in Seq(Call) /\ replies \in Seq(Messages)
      /\ left \in SUBSET DOMAIN calls
  BY DEF IInv, Types, BatchTypes
<1>4. queue \cap replays = {} /\ (ran # NONE => replays = {}) /\ Replied(replies, calls, left)
  BY <1>2 DEF Conversation
<1> HIDE DEF k
<1>5. queue' \cup replays' = left \ {k} BY <1>1, <1>2, <1>4
<1> HIDE DEF left
<1>6. k \in left BY <1>1 DEF left
<1>7. Replied(replies', calls', queue' \cup replays')
  BY <1>2, <1>3, <1>4, <1>5, <1>6, OneMoreReply
<1>8. ValidTalk(messages') /\ ValidTalk(request') BY <1>2 DEF Conversation
<1> QED BY <1>2, <1>4, <1>7, <1>8 DEF Conversation

LEMMA InvokeConversation ==
  ASSUME Conversation, NEW status, NEW early, Invoke(status, early)
  PROVE  Conversation'
<1>1. /\ pc = "batch" /\ pc' = "batch" /\ messages' = messages /\ request' = request
      /\ calls' = calls /\ queue' = queue /\ replays' = replays /\ replays = {}
      /\ replies' = replies
  BY DEF Invoke, Goto, talk, http
<1>2. ValidTalk(messages') /\ ValidTalk(request') /\ Replied(replies', calls', queue' \cup replays')
  BY <1>1 DEF Conversation
<1> QED BY <1>1, <1>2 DEF Conversation

LEMMA CollectConversation ==
  ASSUME IInv, Conversation, Collect
  PROVE  Conversation'
<1>1. CASE Return("ok") BY <1>1, ReturnConversation
<1>2. CASE Remember(current.act)
  <2> DEFINE k == Min(queue)
  <2>1. pc = "batch" /\ ran # NONE /\ queue # {} BY DEF Collect, IInv, Shape
  <2>2. k \in queue /\ k \in DOMAIN calls BY <2>1, Positions
  <2>3. /\ pc' = "batch" /\ messages' = messages /\ request' = request
        /\ calls' = calls /\ queue' = queue \ {k} /\ ran' = NONE
        /\ replays' = replays
        /\ replies' = Append(replies, Message("tool", <<calls[k].id>>))
    BY <1>2 DEF Remember, Goto, Reply, talk, http
  <2>4. /\ calls \in Seq(Call) /\ replies \in Seq(Messages)
        /\ queue \in SUBSET DOMAIN calls
    BY DEF IInv, Types, BatchTypes
  <2>5. replays = {} /\ Replied(replies, calls, queue \cup replays)
    BY <2>1 DEF Conversation
  <2> HIDE DEF k
  <2>6. Replied(replies, calls, queue)
    <3>1. queue \cup replays = queue BY <2>5
    <3> QED BY <2>5, <3>1
  <2>7. Replied(replies', calls, queue \ {k}) BY <2>2, <2>3, <2>4, <2>6, OneMoreReply
  <2>8. queue' \cup replays' = queue \ {k} BY <2>3, <2>5
  <2>9. Replied(replies', calls', queue' \cup replays') BY <2>3, <2>7, <2>8
  <2>10. ValidTalk(messages') /\ ValidTalk(request') BY <2>3 DEF Conversation
  <2> QED BY <2>3, <2>5, <2>9, <2>10 DEF Conversation
<1> QED BY <1>1, <1>2 DEF Collect

LEMMA EndBatchConversation ==
  ASSUME IInv, Conversation, EndBatch
  PROVE  Conversation'
<1>1. CASE \E c : Return(c) BY <1>1, ReturnConversation
<1>2. CASE /\ NextIteration
           /\ messages' = Append(messages,
                           Message("assistant", [k \in DOMAIN calls |-> calls[k].id]))
                         \o replies
  <2>1. /\ messages \in Seq(Messages) /\ ValidTalk(messages)
        /\ calls \in Seq(Call) /\ replies \in Seq(Messages)
    BY DEF IInv, Types, TalkTypes, BatchTypes, Conversation
  <2>2. queue \cup replays = {} /\ pc = "batch" BY DEF EndBatch
  <2>3. Replied(replies, calls, {}) BY <2>2 DEF Conversation
  <2>4. ValidTalk(messages') BY <1>2, <2>1, <2>3, BatchValid
  <2> QED BY <1>2, <2>4, NextIterationConversation
<1> QED BY <1>1, <1>2 DEF EndBatch

LEMMA AfterwardsConversation ==
  ASSUME Conversation,
         \/ \E stored \in BOOLEAN : Settle(stored)
         \/ ContextEnds \/ UNCHANGED vars
  PROVE  Conversation'
<1>1. /\ messages' = messages /\ request' = request /\ replies' = replies
      /\ calls' = calls /\ queue' = queue /\ replays' = replays /\ ran' = ran
      /\ pc' = "batch" <=> pc = "batch"
  BY DEF Settle, Goto, ContextEnds, vars, talk, http, batch
<1> QED BY <1>1 DEF Conversation

(* Every step of a run keeps the conversation it will send in order, be it  *)
(* by answering, repairing, replaying, compacting or giving up.             *)
THEOREM ConversationInvariance == Spec => []Conversation
<1>1. Init => Conversation
  <2> SUFFICES ASSUME Init PROVE Conversation OBVIOUS
  <2>1. /\ messages = <<Message("system", << >>), Message("user", << >>)>>
        /\ request = << >> /\ replies = << >> /\ pc = "prepare"
    BY DEF Init
  <2>2. DOMAIN messages = {1, 2} /\ messages[1].role = "system"
        /\ messages[2].role = "user"
    BY <2>1 DEF Message
  <2>3. ValidTalk(messages) BY <2>2 DEF ValidTalk, Answer
  <2> QED BY <2>1, <2>3, EmptyTalk DEF Conversation
<1>2. IInv /\ Conversation /\ [Next]_vars => Conversation'
  <2> SUFFICES ASSUME IInv, Conversation, Run PROVE Conversation'
    BY AfterwardsConversation DEF Next
  <2> QED
    BY ChatConversation, JudgementsConversation, StartBatchConversation,
       ReplayConversation, InvokeConversation, CollectConversation,
       EndBatchConversation, AfterwardsConversation
    DEF Run
<1> QED BY <1>1, <1>2, Invariance, PTL DEF Spec

(* ConversationValid: whatever is repaired, replayed, retried or compacted, *)
(* every request answers each answer's calls right after it, and nowhere    *)
(* else.                                                                    *)
THEOREM ConversationHolds == Spec => []ConversationValid
<1>1. Conversation => ConversationValid
  BY DEF Conversation, ValidTalk, ConversationValid, Placed, Answer
<1> QED BY <1>1, ConversationInvariance, PTL

=============================================================================
