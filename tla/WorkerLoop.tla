----------------------------- MODULE WorkerLoop -----------------------------
(***************************************************************************)
(* The bounded model/tool conversation of one step (Worker.Run,            *)
(* internal/worker/worker.go) and what RunModelStep makes of its result    *)
(* (internal/app/service.go).                                              *)
(*                                                                         *)
(* An iteration sends the conversation to the provider, checks the whole   *)
(* answer, and only then invokes the tools it asks for, one by one.  The   *)
(* model answers anything; the provider fails in every way Provider names; *)
(* a tool fails, asks the user or leaves a proposal; the step's context    *)
(* ends (deadline, cancellation) between any two of these.                 *)
(*                                                                         *)
(* An action is a tool with its normalised arguments (actionKey).  Sizes   *)
(* of prompts and answers are drawn from small sets of token counts.       *)
(***************************************************************************)
EXTENDS Provider, SequencesExt

CONSTANTS
  Reads,          (* READ actions that only look                           *)
  Adjust,         (* adjust_context_budget, a READ action                  *)
  Asks,           (* ask_user, a READ action that waits for the user       *)
  Writes,         (* WRITE and DANGEROUS actions                           *)
  BadArguments,   (* a call of a READ tool, its ID or arguments refused     *)
  Malformed,      (* a call whose arguments are no JSON                    *)
  Answers,        (* sequences of calls a model may answer with            *)
  Endpoint,       (* statuses and failures the endpoint may answer with    *)
  Prompts,        (* token counts a conversation may have                  *)
  Outputs,        (* token counts an answer may report                     *)
  Budgets,        (* MaxOutputTokens of the step, 0: none                  *)
  Raised,         (* the output budget adjust_context_budget grants        *)
  Window,         (* reliable context tokens of the deployment             *)
  Safety,         (* promptSafetyTokens                                    *)
  Minimum,        (* minimumResponseTokens                                 *)
  MaxIterations,  (* Budget.MaxIterations of the step                      *)
  CallLimit       (* tool calls allowed in one answer                      *)

NONE == "NONE"

ReadRisk == Reads \cup {Adjust} \cup Asks
Actions  == ReadRisk \cup Writes
Call     == [id : Nat, act : Actions \cup {BadArguments, Malformed}]

ASSUME ActionsDistinct ==
  /\ ReadRisk \cap Writes = {}
  /\ {BadArguments, Malformed} \cap Actions = {}

ASSUME TokensNat ==
  /\ Prompts \subseteq Nat /\ Outputs \subseteq Nat /\ Budgets \subseteq Nat
  /\ Raised \in Nat \ {0} /\ Window \in Nat \ {0}
  /\ Safety \in Nat /\ Minimum \in Nat \ {0}

ASSUME BoundsPositive ==
  MaxIterations \in Nat \ {0} /\ CallLimit \in Nat \ {0}

ASSUME EndpointFails == Endpoint \subseteq (Statuses \ {"ok"}) \cup Failures

ASSUME AnswersAreCalls == Answers \subseteq Seq(Call)

VARIABLES
  mode,        (* permission mode of the task                              *)
  duty,        (* what the step must not end without: see Duties           *)
  allowed,     (* actions of the tools the step allows                     *)
  pc, context, (* where Run is; the state of its context                   *)
  iteration,   (* iterations begun before this one                         *)
  messages,    (* the conversation                                         *)
  request,     (* the messages of the request under way                    *)
  maxOutput, retries, shrunk,   (* its output limit; transientRetries and  *)
               (* contextRetried of chatWithRetry                          *)
  calls, output,                (* the answer: its calls, output tokens    *)
  queue, replays,  (* positions of the calls to invoke, of repeated reads  *)
  replies,         (* the tool messages of the batch                       *)
  ran,         (* the tool result not yet looked at                        *)
  seen, cached,                 (* actions invoked; results of READ ones   *)
  mutated, repaired, pushed,    (* hasMutatingResult, repairAttempted,     *)
               (* writeRepairAttempted                                     *)
  results, batchStart,          (* result.ToolResults                      *)
  outBudget, usage,             (* EffectiveBudget, result.Usage (output)  *)
  outcome,     (* what Run returned: NONE, "ok" or an error code           *)
  pending, intents,             (* RunModelStep: pending proposal, records *)
  step,        (* what RunModelStep makes of the step                      *)
  effects,     (* history: side effects begun, per mutating action         *)
  invoked      (* history: calls of the current answer invoked             *)

setup  == <<mode, duty, allowed>>
http   == <<request, maxOutput, output, retries, shrunk>>
talk   == <<messages, repaired, pushed>>
batch  == <<calls, queue, replays, replies, batchStart, invoked, ran>>
memory == <<seen, cached, mutated>>
report == <<iteration, results, usage>>
record == <<pending, intents, effects, step>>
vars   == <<setup, pc, context, http, talk, batch, memory, report, outBudget,
            outcome, record>>

(* "write": a long-horizon WRITE step with a mutating tool must call one;   *)
(* "action": a single plan for a goal that asks for an action must perform  *)
(* or propose one                                                           *)
Duties == {"none", "write", "action"}

(* a message: its role, and the IDs of the calls it makes or answers *)
Message(role, ids) == [role |-> role, ids |-> ids]

Nothing == [a \in {} |-> NONE]

Init ==
  /\ mode \in {"PLAN", "EDIT", "DEVELOPMENT"}
  /\ duty \in IF mode = "PLAN" THEN {"none"} ELSE Duties
  /\ allowed \in {ReadRisk, Actions}
  /\ mode = "PLAN" => allowed = ReadRisk
  /\ duty = "write" => allowed = Actions
  /\ pc = "prepare" /\ context = "live" /\ iteration = 0
  /\ messages = <<Message("system", << >>), Message("user", << >>)>>
  /\ request = << >> /\ maxOutput = 0 /\ output = 0 /\ retries = 0 /\ shrunk = FALSE
  /\ calls = << >> /\ queue = {} /\ replays = {} /\ replies = << >> /\ ran = NONE
  /\ seen = {} /\ cached = Nothing
  /\ mutated = FALSE /\ repaired = FALSE /\ pushed = FALSE
  /\ results = << >> /\ batchStart = 0
  /\ outBudget \in Budgets /\ usage = 0
  /\ outcome = NONE /\ step = "RUNNING"
  /\ pending = FALSE
  /\ intents = [w \in Writes |-> NONE]
  /\ effects = [w \in Writes |-> 0]
  /\ invoked = {}

Goto(label) == pc' = label /\ UNCHANGED <<setup, context>>

NoRequest ==
  request' = << >> /\ maxOutput' = 0 /\ output' = 0 /\ retries' = 0 /\ shrunk' = FALSE

NoBatch ==
  /\ calls' = << >> /\ queue' = {} /\ replays' = {} /\ replies' = << >>
  /\ batchStart' = 0 /\ invoked' = {} /\ ran' = NONE

(* Run returns: its locals go, its result stays *)
Return(code) ==
  /\ Goto("returned")
  /\ outcome' = code
  /\ NoRequest /\ NoBatch
  /\ messages' = << >> /\ repaired' = FALSE /\ pushed' = FALSE
  /\ seen' = {} /\ cached' = Nothing /\ mutated' = FALSE

(* a long content loses its middle (contents are not modelled); every       *)
(* message stays, with its role and the calls it makes or answers           *)
Compact(talked) ==
  [k \in DOMAIN talked |-> Message(talked[k].role, talked[k].ids)]

-----------------------------------------------------------------------------
(* The top of the loop: context, soft limit, hard limit, output limit.  The *)
(* prompt is counted twice, the second time after a compaction at 80% of    *)
(* the window.                                                              *)
AtSoftLimit(prompt) == prompt * 10 >= Window * 8
Room(prompt) == Window - prompt - Safety
NoRoom(prompt) ==
  \/ prompt * 10 >= Window * 9
  \/ Room(prompt) < Minimum

Limit(prompt) ==
  IF outBudget = 0 \/ outBudget > Room(prompt) THEN Room(prompt) ELSE outBudget

Prepare(first, second) ==
  /\ pc = "prepare"
  /\ iteration < MaxIterations
  /\ context = "live"
  /\ ~ AtSoftLimit(first) => second = first
  /\ IF NoRoom(second)
     THEN Return("CONTEXT_OVERFLOW")
     ELSE /\ messages' = IF AtSoftLimit(first) THEN Compact(messages) ELSE messages
          /\ request' = messages'
          /\ maxOutput' = Limit(second)
          /\ Goto("chat")
          /\ UNCHANGED <<output, retries, shrunk, repaired, pushed, batch, memory,
                         outcome>>
  /\ UNCHANGED <<report, outBudget, record>>

OutOfIterations ==
  /\ pc = "prepare"
  /\ iteration = MaxIterations
  /\ Return("BUDGET_EXCEEDED")
  /\ UNCHANGED <<report, outBudget, record>>

(* runContext.Err() is looked at before a request, after an answer, during  *)
(* the delay before a retry                                                 *)
ContextIsOver ==
  /\ pc \in {"prepare", "backoff", "answered"}
  /\ pc = "prepare" => iteration < MaxIterations
  /\ context # "live"
  /\ Return(ContextError(context))
  /\ UNCHANGED <<report, outBudget, record>>

-----------------------------------------------------------------------------
(* chatWithRetry: one smaller request after an overflow, two delayed ones   *)
(* after transient failures.                                                *)
Transient == {"ENDPOINT_UNREACHABLE", "RATE_LIMITED", "REQUEST_TIMEOUT",
              "MODEL_UNAVAILABLE", "PROVIDER_INTERNAL"}

(* the errors Chat may answer with *)
ChatErrors ==
  {StatusError(s) : s \in Endpoint \cap Statuses}
  \cup {ReadError("live", f) : f \in Endpoint \cap Failures}

Retry(label) ==
  /\ Goto(label)
  /\ UNCHANGED <<maxOutput, output, talk, batch, memory, report, outBudget,
                 outcome, record>>

\* Mutant: the second attempt forgets that it is one.
DelayedForever ==
  /\ retries < 2
  /\ Retry("backoff") /\ UNCHANGED <<request, retries, shrunk>>

SmallerRequest ==
  /\ ~ shrunk
  /\ request' = Compact(request) /\ shrunk' = TRUE
  /\ Retry("chat") /\ UNCHANGED retries

DelayedRequest ==
  /\ retries < 2
  /\ retries' = retries + 1
  /\ Retry("backoff") /\ UNCHANGED <<request, shrunk>>

ChatFails(code) ==
  /\ pc = "chat"
  /\ \/ context # "live" /\ Return(ContextError(context))
     \/ context = "live" /\ code = "CONTEXT_OVERFLOW" /\ SmallerRequest
     \/ context = "live" /\ code \in Transient /\ DelayedRequest
     \/ /\ context = "live"
        /\ code = "CONTEXT_OVERFLOW" => shrunk
        /\ code \in Transient => retries = 2
        /\ Return(code)
  /\ UNCHANGED <<report, outBudget, record>>

Backoff ==
  /\ pc = "backoff"
  /\ context = "live"
  /\ Retry("chat") /\ UNCHANGED <<request, retries, shrunk>>

(* normalizeCompletion gives the calls consecutive indexes and refuses one  *)
(* without JSON arguments: the worker never sees it                         *)
Wire(answer) ==
  [index \in 0 .. Len(answer) - 1 |->
     [name |-> <<answer[index + 1].act>>,
      args |-> IF answer[index + 1].act = Malformed
               THEN <<"open">> ELSE <<"open", "close">>]]

ChatAnswers(answer, tokens) ==
  /\ pc = "chat"
  /\ Orderable(Wire(answer))
  /\ calls' = answer
  /\ output' = tokens
  /\ request' = << >> /\ retries' = 0 /\ shrunk' = FALSE
  /\ Goto("answered")
  /\ UNCHANGED <<maxOutput, talk, queue, replays, replies, batchStart, invoked,
                 ran, memory, report, outBudget, outcome, record>>

-----------------------------------------------------------------------------
(* validateToolCalls: the error of the k-th call, given those before it *)
Repeats(k) ==
  \E j \in 1 .. k - 1 : calls[j].act = calls[k].act /\ calls[j].act \notin seen

CallError(k) ==
  IF \E j \in 1 .. k - 1 : calls[j].id = calls[k].id THEN "INVALID_TOOL_CALL"
  ELSE IF calls[k].act = BadArguments THEN "INVALID_TOOL_CALL"
  ELSE IF calls[k].act \notin allowed THEN "TOOL_NOT_ALLOWED"
  ELSE IF calls[k].act \in seen /\ calls[k].act \notin DOMAIN cached
       THEN "REPEATED_ACTION"
  ELSE IF Repeats(k) THEN "REPEATED_ACTION"
  ELSE NONE

Rejected == {k \in DOMAIN calls : CallError(k) # NONE}
\* Mutant: the answer is only as good as its first call.
FirstValid == 1 \in DOMAIN calls \ Rejected

TooMany  == Len(calls) > CallLimit
Valid    == ~ TooMany /\ Rejected = {}

FirstError ==
  IF TooMany THEN "INVALID_TOOL_CALL"
  ELSE CallError(CHOOSE k \in Rejected : \A j \in Rejected : k <= j)

OnlyReads ==
  \A k \in DOMAIN calls : calls[k].act \in (ReadRisk \cap allowed) \cup {BadArguments}

Repairable ==
  \/ FirstError \in {"INVALID_TOOL_CALL", "TOOL_NOT_ALLOWED"}
  \/ FirstError = "REPEATED_ACTION" /\ OnlyReads

LastIteration == iteration + 1 = MaxIterations

(* The answer is counted, then judged as a whole before any call runs. *)
\* Mutant: a provider that ignores max_tokens is believed.
NeverOverspent == FALSE

Overspent == output > maxOutput

Accepted ==
  /\ pc = "answered"
  /\ context = "live"
  /\ usage' = usage + output
  /\ UNCHANGED <<results, record>>

NextIteration ==
  /\ Goto("prepare")
  /\ iteration' = iteration + 1
  /\ NoRequest /\ NoBatch
  /\ UNCHANGED <<memory, outcome>>

\* Mutant: the rejected message is kept before its repair.
InstructAfterAnswer ==
  /\ messages' = messages \o
       <<Message("assistant", [k \in DOMAIN calls |-> calls[k].id]),
         Message("user", << >>)>>
  /\ NextIteration

(* `continue` with one more instruction of the controller *)
Instruct ==
  /\ messages' = Append(messages, Message("user", << >>))
  /\ NextIteration

Overrun ==
  /\ Accepted /\ Overspent
  /\ Return("BUDGET_EXCEEDED")
  /\ UNCHANGED <<iteration, outBudget>>

Owing == duty = "write" /\ ~ mutated

(* no calls: the answer ends the step, unless a write is still owed *)
Finish ==
  /\ Accepted /\ ~ Overspent
  /\ calls = << >> /\ ~ Owing
  /\ Return("ok")
  /\ UNCHANGED <<iteration, outBudget>>

DemandWrite ==
  /\ Accepted /\ ~ Overspent
  /\ calls = << >> /\ Owing
  /\ IF ~ pushed /\ ~ LastIteration
     THEN pushed' = TRUE /\ Instruct /\ UNCHANGED repaired
     ELSE Return("BUDGET_EXCEEDED") /\ UNCHANGED iteration
  /\ UNCHANGED outBudget

(* a rejected answer is not repeated to the provider; its repair is asked   *)
(* for once                                                                 *)
RejectAnswer ==
  /\ Accepted /\ ~ Overspent
  /\ calls # << >> /\ ~ Valid
  /\ IF ~ repaired /\ ~ LastIteration /\ Repairable
     THEN repaired' = TRUE /\ Instruct /\ UNCHANGED pushed
     ELSE Return(FirstError) /\ UNCHANGED iteration
  /\ UNCHANGED outBudget

Repeated(k) == calls[k].act \in seen
Result(act, status) == [act |-> act, status |-> status]

(* repeated reads are answered from the cache, the others queued in order *)
StartBatch ==
  /\ pc = "answered" /\ context = "live" /\ ~ Overspent
  /\ calls # << >> /\ Valid
  /\ usage' = usage + output
  /\ queue' = {k \in DOMAIN calls : ~ Repeated(k)}
  /\ replays' = {k \in DOMAIN calls : Repeated(k)}
  /\ batchStart' = Len(results)
  /\ Goto("batch") /\ NoRequest
  /\ UNCHANGED <<calls, replies, invoked, ran, memory, outBudget, iteration,
                 results, talk, outcome, record>>

Reply(k) == replies' = Append(replies, Message("tool", <<calls[k].id>>))

Replay ==
  /\ pc = "batch" /\ replays # {}
  /\ LET act == calls[Min(replays)].act
     IN  results' = Append(results, Result(act, cached[act]))
  /\ Reply(Min(replays))
  /\ replays' = replays \ {Min(replays)}
  /\ Goto("batch")
  /\ UNCHANGED <<http, talk, calls, queue, batchStart, invoked, ran, memory,
                 iteration, usage, outBudget, outcome, record>>

(* the call being invoked *)
current == calls[Min(queue)]

-----------------------------------------------------------------------------
(* What a tool may answer.  In EDIT a mutating tool only leaves a proposal; *)
(* in DEVELOPMENT it records its intent and then acts.                      *)
Answerable(act) ==
  IF act \in Asks THEN {"WAITING_USER", "FAILED"}
  ELSE IF act \in ReadRisk THEN {"SUCCEEDED", "FAILED", "RETRYABLE"}
  ELSE IF mode = "EDIT" THEN {"WAITING_APPROVAL", "FAILED"}
  ELSE {"SUCCEEDED", "FAILED"}

Waiting == {"WAITING_USER", "WAITING_APPROVAL"}

Propose(act, status) ==
  IF status = "WAITING_APPROVAL" THEN pending' = TRUE ELSE UNCHANGED pending

(* a direct tool that is refused, or finds nothing to change, before its    *)
(* intent is recorded leaves no trace                                       *)
Act(act, early) ==
  IF act \in Writes /\ mode = "DEVELOPMENT" /\ ~ early
  THEN /\ intents' = [intents EXCEPT ![act] = "INTENT_RECORDED"]
       /\ effects' = [effects EXCEPT ![act] = @ + 1]
  ELSE UNCHANGED <<intents, effects>>

(* adjust_context_budget raises a budget and never lowers it *)
Granted(act, status) ==
  IF act = Adjust /\ status = "SUCCEEDED" /\ Raised > outBudget
  THEN Raised ELSE outBudget

\* Mutant: an action that failed may be tried again.
SeeSucceeded(act, status) ==
  seen' = IF status = "SUCCEEDED" THEN seen \cup {act} ELSE seen

See(act, status) == seen' = seen \cup {act}

Invoke(status, early) ==
  LET act == current.act
  IN  /\ pc = "batch" /\ replays = {} /\ queue # {} /\ ran = NONE
      /\ status \in Answerable(act)
      /\ See(act, status)
      /\ invoked' = invoked \cup {current}
      /\ ran' = status
      /\ Propose(act, status)
      /\ Act(act, early)
      /\ outBudget' = Granted(act, status)
      /\ Goto("batch")
      /\ UNCHANGED <<http, talk, calls, queue, replays, replies, batchStart,
                     cached, mutated, report, outcome, step>>

(* the result of a call that outlived the context is dropped with it *)
DropResult ==
  /\ pc = "batch" /\ ran # NONE
  /\ context # "live"
  /\ Return(ContextError(context))
  /\ UNCHANGED <<report, outBudget, record>>

Cache(act) ==
  [a \in DOMAIN cached \cup {act} |-> IF a = act THEN ran ELSE cached[a]]

Remember(act) ==
  /\ cached' = IF act \in ReadRisk THEN Cache(act) ELSE cached
  /\ mutated' = (mutated \/ act \in Writes)
  /\ Reply(Min(queue))
  /\ queue' = queue \ {Min(queue)}
  /\ ran' = NONE
  /\ Goto("batch")
  /\ UNCHANGED <<http, talk, calls, replays, batchStart, invoked, seen, outcome>>

(* a waiting result ends the run, any other joins the batch *)
Collect ==
  /\ pc = "batch" /\ ran # NONE
  /\ context = "live"
  /\ results' = Append(results, Result(current.act, ran))
  /\ IF ran \in Waiting THEN Return("ok") ELSE Remember(current.act)
  /\ UNCHANGED <<iteration, usage, outBudget, record>>

(* cumulativeExceeded: the step's budget times its iterations *)
Spent == outBudget > 0 /\ usage > outBudget * MaxIterations

(* finalizableReadBatch: all of the batch are reads with a stable outcome *)
ReadEvidence ==
  /\ batchStart < Len(results)
  /\ \A k \in batchStart + 1 .. Len(results) :
        results[k].act \in ReadRisk /\ results[k].status \in {"SUCCEEDED", "FAILED"}

EndBatch ==
  /\ pc = "batch" /\ replays = {} /\ queue = {} /\ ran = NONE
  /\ IF Spent \/ (LastIteration /\ ReadEvidence /\ Owing)
     THEN Return("BUDGET_EXCEEDED") /\ UNCHANGED iteration
     ELSE IF LastIteration /\ ReadEvidence
     THEN Return("ok") /\ UNCHANGED iteration
     ELSE /\ messages' = Append(messages,
                           Message("assistant", [k \in DOMAIN calls |-> calls[k].id]))
                         \o replies
          /\ NextIteration
          /\ UNCHANGED <<repaired, pushed>>
  /\ UNCHANGED <<results, usage, outBudget, record>>

-----------------------------------------------------------------------------
(* RunModelStep after Run: the intents of direct actions take the status of *)
(* their results, then the step moves on.                                   *)
Reported(w) == {k \in DOMAIN results : results[k].act = w}

\* Mutant: a direct result counts whatever it says.
AnyDirectResult ==
  \E k \in DOMAIN results :
     results[k].act \in Writes /\ intents[results[k].act] # NONE

DirectSuccess ==
  \E k \in DOMAIN results :
     /\ results[k].act \in Writes /\ results[k].status = "SUCCEEDED"
     /\ intents[results[k].act] # NONE

UpdatedIntents(stored) ==
  [w \in Writes |->
     IF stored /\ intents[w] # NONE /\ Reported(w) # {}
     THEN results[CHOOSE k \in Reported(w) : \A j \in Reported(w) : j <= k].status
     ELSE intents[w]]

Asked == \E k \in DOMAIN results : results[k].status = "WAITING_USER"

StepAfter(stored) ==
  LET ok == /\ outcome = "ok"
            /\ stored \/ \A w \in Writes : intents[w] = NONE \/ Reported(w) = {}
  IN  IF ok /\ Asked THEN "WAITING_USER"
      ELSE IF pending THEN "WAITING_APPROVAL"
      ELSE IF ok /\ (duty = "action" => DirectSuccess) THEN "VERIFYING"
      ELSE "FAILED"

(* a cancelled caller writes nothing: the step stays as it is until the task *)
(* is recovered (TaskRuntime)                                               *)
Settle(stored) ==
  /\ pc = "returned"
  /\ context = "cancelled" => ~ stored
  /\ intents' = UpdatedIntents(stored)
  /\ step' = IF context = "cancelled" THEN step ELSE StepAfter(stored)
  /\ Goto("settled")
  /\ UNCHANGED <<http, talk, batch, memory, report, outBudget, outcome, pending,
                 effects>>

(* the deadline is the run's own, the cancellation its caller's *)
ContextEnds ==
  /\ pc # "settled"
  /\ context = "live"
  /\ context' \in IF pc = "returned" THEN {"cancelled"} ELSE Contexts \ {"live"}
  /\ UNCHANGED <<setup, pc, http, talk, batch, memory, report, outBudget,
                 outcome, record>>

Run ==
  \/ \E first, second \in Prompts : Prepare(first, second)
  \/ OutOfIterations \/ ContextIsOver
  \/ \E code \in ChatErrors : ChatFails(code)
  \/ Backoff
  \/ \E answer \in Answers :
       \/ \E tokens \in Outputs : ChatAnswers(answer, tokens)
       \/ ~ Orderable(Wire(answer)) /\ ChatFails("INVALID_TOOL_CALL")
  \/ Overrun \/ Finish \/ DemandWrite \/ RejectAnswer \/ StartBatch \/ Replay
  \/ \E status \in {"SUCCEEDED", "FAILED", "RETRYABLE"} \cup Waiting :
        \E early \in BOOLEAN : Invoke(status, early)
  \/ DropResult \/ Collect \/ EndBatch
  \/ \E stored \in BOOLEAN : Settle(stored)

Next == Run \/ ContextEnds

Spec == Init /\ [][Next]_vars /\ WF_vars(Run)
-----------------------------------------------------------------------------
Status == {"SUCCEEDED", "FAILED", "RETRYABLE"} \cup Waiting
Roles == {"system", "user", "assistant", "tool"}
Messages == [role : Roles, ids : Seq(Nat)]
Codes ==
  {"AUTHENTICATION_FAILED", "RATE_LIMITED", "REQUEST_TIMEOUT", "CONTEXT_OVERFLOW",
   "INVALID_INPUT", "MODEL_UNAVAILABLE", "PROVIDER_INTERNAL", "REQUEST_CANCELLED",
   "ENDPOINT_UNREACHABLE", "INVALID_RESPONSE", "INVALID_TOOL_CALL",
   "TOOL_NOT_ALLOWED", "REPEATED_ACTION", "BUDGET_EXCEEDED"}

TypeOK ==
  /\ mode \in {"PLAN", "EDIT", "DEVELOPMENT"} /\ duty \in Duties
  /\ allowed \in SUBSET Actions
  /\ pc \in {"prepare", "chat", "backoff", "answered", "batch", "returned",
             "settled"}
  /\ context \in Contexts
  /\ iteration \in 0 .. MaxIterations
  /\ messages \in Seq(Messages) /\ request \in Seq(Messages)
  /\ replies \in Seq(Messages)
  /\ maxOutput \in Nat /\ output \in Nat /\ usage \in Nat /\ outBudget \in Nat
  /\ retries \in 0 .. 2 /\ shrunk \in BOOLEAN
  /\ calls \in Seq(Call)
  /\ queue \subseteq DOMAIN calls /\ replays \subseteq DOMAIN calls
  /\ ran \in Status \cup {NONE}
  /\ seen \subseteq Actions
  /\ DOMAIN cached \subseteq ReadRisk
  /\ \A a \in DOMAIN cached : cached[a] \in Status
  /\ mutated \in BOOLEAN /\ repaired \in BOOLEAN /\ pushed \in BOOLEAN
  /\ results \in Seq([act : Actions, status : Status])
  /\ batchStart \in Nat
  /\ outcome \in {NONE, "ok"} \cup Codes
  /\ pending \in BOOLEAN
  /\ intents \in [Writes -> {NONE, "INTENT_RECORDED"} \cup Status]
  /\ effects \in [Writes -> Nat]
  /\ step \in {"RUNNING", "VERIFYING", "WAITING_USER", "WAITING_APPROVAL",
               "FAILED"}
  /\ invoked \subseteq Call

(* Every request is one the provider accepts: an assistant message that     *)
(* asked for tools is followed at once by one tool message per call it made *)
(* (in any order), and no tool message stands anywhere else, whatever was   *)
(* repaired, replayed or compacted before.                                  *)
AnsweredAt(talked, k) ==
  LET last == k + Len(talked[k].ids)
      tools == SubSeq(talked, k + 1, last)
  IN  /\ last <= Len(talked)
      /\ \A j \in DOMAIN tools : tools[j].role = "tool"
      /\ {tools[j].ids : j \in DOMAIN tools} = {<<id>> : id \in Range(talked[k].ids)}

ConversationValid ==
  /\ \A k \in DOMAIN request :
        request[k].role = "assistant" => AnsweredAt(request, k)
  /\ \A j \in DOMAIN request : request[j].role = "tool" =>
        \E k \in 1 .. j - 1 : /\ request[k].role = "assistant"
                              /\ j <= k + Len(request[k].ids)

(* No answer is executed by halves: once one of its calls has run, all of   *)
(* them were within the limit, had IDs of their own, allowed tools and      *)
(* arguments that fit, also those that come after it.                       *)
NothingHalfExecuted ==
  invoked # {} =>
    /\ Len(calls) <= CallLimit
    /\ \A j, k \in DOMAIN calls : calls[j].id = calls[k].id => j = k
    /\ \A k \in DOMAIN calls : calls[k].act \in allowed

(* A mutating action begins at most once in a step, over all its            *)
(* iterations, retries and repairs, even after it has failed.               *)
MutatingOnce == \A w \in Writes : effects[w] <= 1

(* What cumulativeExceeded compares after the fact cannot happen: an answer *)
(* within its own limit keeps the step within its budget times its          *)
(* iterations, the budget being raised on the way or not.                   *)
OutputWithinBudget ==
  0 \notin Budgets /\ outcome # "BUDGET_EXCEEDED" =>
    usage <= outBudget * MaxIterations

(* A step goes on to its verification only with its duty done: a            *)
(* long-horizon WRITE step after the result of a mutating call, a single    *)
(* plan asked to act after a direct action that took effect and whose       *)
(* durable record says so.                                                  *)
DutyDone ==
  step = "VERIFYING" =>
    /\ duty = "write" => \E k \in DOMAIN results : results[k].act \in Writes
    /\ duty = "action" =>
         \E w \in Writes : effects[w] > 0 /\ intents[w] = "SUCCEEDED"

(* Every run of the worker returns and RunModelStep with it: repairs,       *)
(* retries and replays are all bounded.                                     *)
StepSettles == <>(pc = "settled")
=============================================================================
