------------------------- MODULE LongHorizonProofs -------------------------
(***************************************************************************)
(* Theorems about LongHorizon, for any stages, segments and budgets.  The  *)
(* first half holds for any number of callers doing anything; the second   *)
(* for one driving loop beside one user.                                   *)
(***************************************************************************)
EXTENDS LongHorizon, SequenceTheorems, TLAPS

(* where an approval can be, and where a call has a copy of the horizon *)
Approving == {"load_waiting", "approve_task", "approve_step", "apply",
              "reject", "verify", "decide"}
Copying ==
  {"resolve", "try_task", "load_plan", "plan", "load_steps", "assess", "park",
   "run", "start", "claim", "execute", "settle", "settle_task", "drop_step",
   "drop_task", "record", "fail", "auto_pause", "auto_ready", "pause", "save",
   "resume_plan", "drop_asked", "resume_task", "cancel_task"}
Working == {"resolve", "load_plan", "plan", "load_steps", "assess"}
Resuming == {"resume_plan", "drop_asked", "resume_task"}

Holds(k) ==
  k.at \in Copying \/ (k.at \in {"verify", "decide"} /\ k.op # "ApproveWrite")

(* a stage that begins with a user's consent *)
Asked(k) == k \in 2..Len(Stages) /\ Checkpoint(Stages[k - 1])

(* What is true of the horizon row and of every copy of it, while the task  *)
(* is in status st and A are the stages users let begin.  A stage that      *)
(* wants consent is either still awaited or has it.                         *)
Good(h, st, A) ==
  /\ h.status = "COMPLETED" => st = "COMPLETED"
  /\ h.awaiting => h.stage \in 2..Len(Stages)
  /\ Asked(h.stage) /\ ~h.awaiting => h.stage \in A

(* what a call knows at the statement it is at *)
Sane(k, st, A) ==
  /\ k.op \in Approvals => k.at \in Approving
  /\ k.at \in Approving \ {"verify", "decide"} => k.op \in Approvals
  /\ Holds(k) => k.my \in Horizon /\ Good(k.my, st, A)
  /\ k.at \in Working => ~k.my.awaiting
  /\ k.at \in Resuming =>
       /\ k.my.awaiting => k.my.stage \in A
       /\ k.item \in {"WAITING_USER", "PAUSED"}
  /\ k.at \in {"try_task", "pause"} => k.item \in {"READY", "RUNNING"}
  /\ k.at = "try_task" => k.to \in {"BLOCKED", "PAUSED"}
  /\ k.at = "cancel_task" => k.item \notin TaskTerminal
  /\ k.at = "settle" =>
       k.to \in {"COMPLETED", "WAITING_USER", "WAITING_APPROVAL"}
  /\ k.at = "settle_task" => k.to \in {"WAITING_USER", "WAITING_APPROVAL"}

(* CallState, with the number of plans and the known steps as parameters *)
Fits(k, n, D) ==
  k \in [at : Label, op : Operations \cup {NONE, "ERROR"},
         item : TaskStatus \cup {NONE}, my : Horizon \cup {NoHorizon},
         rev : 0..n, step : D \cup {NoStep},
         to : TaskStatus \cup {NONE}, exhausted : BOOLEAN]

Sound(k) ==
  Fits(k, Latest, DOMAIN steps) /\ Sane(k, status, answered)

StoreInv ==
  /\ StoreTypes /\ plans # << >>
  /\ Good(horizon, status, answered)
  /\ CheckpointRespected

IInv ==
  /\ StoreInv
  /\ DOMAIN call = Callers /\ call = [c \in Callers |-> call[c]]
  /\ \A c \in Callers : Sound(call[c])

(* What no step takes back, of what the calls rely on. *)
Grows ==
  /\ status = "COMPLETED" => status' = "COMPLETED"
  /\ answered \subseteq answered'
  /\ Latest <= Latest'
  /\ DOMAIN steps \subseteq DOMAIN steps'

----
LEMMA FitsGrows ==
  ASSUME NEW k, NEW n \in Nat, NEW m \in Nat, NEW D, NEW E,
         Fits(k, n, D), n <= m, D \subseteq E
  PROVE  Fits(k, m, E)
BY DEF Fits

LEMMA SaneGrows ==
  ASSUME NEW k, NEW st, NEW st2, NEW A, NEW B, Sane(k, st, A),
         st = "COMPLETED" => st2 = "COMPLETED", A \subseteq B
  PROVE  Sane(k, st2, B)
BY DEF Sane, Good

LEMMA LatestNat == ASSUME StoreTypes PROVE Latest \in Nat
BY DEF StoreTypes, Latest

(* One call goes from a state to another that is Sound. *)
LEMMA Moves ==
  ASSUME IInv, Grows, StoreInv', NEW c \in Callers, NEW n,
         Fits(n, Latest', DOMAIN steps'), Sane(n, status', answered'),
         call' = [call EXCEPT ![c] = n]
  PROVE  IInv'
<1>1. DOMAIN call' = Callers /\ call' = [d \in Callers |-> call'[d]]
  BY DEF IInv
<1>2. ASSUME NEW d \in Callers PROVE Sound(call[d])'
  <2>1. CASE d = c
    <3>1. call'[d] = n
      BY <2>1 DEF IInv
    <3> QED BY <3>1 DEF Sound
  <2>2. CASE d # c
    <3>1. call'[d] = call[d] /\ Sound(call[d])
      BY <2>2 DEF IInv
    <3>2. Latest \in Nat /\ Latest' \in Nat
      BY LatestNat DEF IInv, StoreInv, StoreTypes, Latest
    <3>3. Fits(call'[d], Latest', DOMAIN steps')
      BY <3>1, <3>2, FitsGrows DEF Sound, Grows
    <3>4. Sane(call'[d], status', answered')
      BY <3>1, SaneGrows DEF Sound, Grows
    <3> QED BY <3>3, <3>4 DEF Sound
  <2> QED BY <2>1, <2>2
<1> QED BY <1>1, <1>2 DEF IInv

(* Such a step, unless it plans a segment or asks a user. *)
LEMMA Writes ==
  ASSUME IInv, NEW c \in Callers, NEW n, Become(c, n),
         Fits(n, Latest, DOMAIN steps), Sane(n, status', answered),
         UNCHANGED <<plans, late, answered>>,
         status' \in TaskStatus,
         status = "COMPLETED" => status' = "COMPLETED",
         horizon' \in Horizon, Good(horizon', status', answered),
         DOMAIN steps' = DOMAIN steps,
         \A s \in DOMAIN steps : steps'[s] \in StepStatus
  PROVE  IInv'
<1>1. StoreTypes'
  BY DEF IInv, StoreInv, StoreTypes, Ids
<1>2. StoreInv'
  BY <1>1 DEF IInv, StoreInv, CheckpointRespected
<1>3. Grows
  BY LatestNat DEF IInv, StoreInv, Grows, Latest
<1>4. Latest' = Latest
  BY DEF Latest
<1> QED BY <1>2, <1>3, <1>4, Moves DEF Become

LEMMA Local ==
  ASSUME IInv, NEW c \in Callers, NEW n, Become(c, n),
         Fits(n, Latest, DOMAIN steps), Sane(n, status, answered),
         UNCHANGED <<store, answered>>
  PROVE  IInv'
<1>1. status' = status /\ horizon' = horizon /\ plans' = plans
      /\ steps' = steps /\ late' = late
  BY DEF store
<1>2. /\ status \in TaskStatus /\ horizon \in Horizon
      /\ Good(horizon, status, answered)
      /\ \A s \in DOMAIN steps : steps[s] \in StepStatus
  BY DEF IInv, StoreInv, StoreTypes
<1> QED BY <1>1, <1>2, Writes

(* Such a step that only writes the task status. *)
LEMMA StatusWrite ==
  ASSUME IInv, NEW c \in Callers, NEW n, Become(c, n),
         Fits(n, Latest, DOMAIN steps), Sane(n, status', answered),
         UNCHANGED <<horizon, plans, steps, late, answered>>,
         status' \in TaskStatus, status # "COMPLETED"
  PROVE  IInv'
<1>1. /\ horizon \in Horizon /\ Good(horizon, status', answered)
      /\ \A s \in DOMAIN steps : steps[s] \in StepStatus
  BY DEF IInv, StoreInv, StoreTypes, Good
<1> QED BY <1>1, Writes

(* ... or only a step. *)
LEMMA StepWrite ==
  ASSUME IInv, NEW c \in Callers, NEW n, Become(c, n),
         Fits(n, Latest, DOMAIN steps), Sane(n, status, answered),
         NEW s, NEW from, NEW to \in StepStatus,
         StepCAS(s, from, to) \/ UNCHANGED steps,
         UNCHANGED <<status, horizon, plans, late, answered>>
  PROVE  IInv'
<1>1. /\ status \in TaskStatus /\ horizon \in Horizon
      /\ Good(horizon, status, answered)
      /\ \A r \in DOMAIN steps : steps[r] \in StepStatus
  BY DEF IInv, StoreInv, StoreTypes
<1>2. DOMAIN steps' = DOMAIN steps
      /\ \A r \in DOMAIN steps : steps'[r] \in StepStatus
  BY <1>1 DEF StepCAS
<1> QED BY <1>1, <1>2, Writes

----
(* The next states of a call, as records. *)
LEMMA IdleSound ==
  ASSUME NEW n \in Nat, NEW D, NEW st, NEW A
  PROVE  Fits(Idle, n, D) /\ Sane(Idle, st, A)
BY DEF Fits, Sane, Idle, Label, Holds, Copying, Approving, Approvals, Working,
       Resuming, NONE

LEMMA SaveSound ==
  ASSUME NEW n \in Nat, NEW D, NEW st, NEW A,
         NEW h \in Horizon, Good(h, st, A)
  PROVE  LET k == [Idle EXCEPT !.my = h, !.at = "save"]
         IN  Fits(k, n, D) /\ Sane(k, st, A)
<1> DEFINE k == [Idle EXCEPT !.my = h, !.at = "save"]
<1>1. Fits(Idle, n, D) /\ "save" \in Label /\ Idle.op = NONE
  BY IdleSound DEF Label, Idle
<1>2. Fits(k, n, D) /\ k.at = "save" /\ k.op = NONE /\ k.my = h
  BY <1>1 DEF Fits
<1>3. Sane(k, st, A)
  BY <1>2 DEF Sane, Holds, Copying, Approving, Approvals, Working, Resuming,
    NONE
<1> QED BY <1>2, <1>3

(* A call can always return, or save a copy that is Good. *)
LEMMA Returns ==
  ASSUME IInv, NEW c \in Callers, Return(c), UNCHANGED <<store, answered>>
  PROVE  IInv'
BY LatestNat, IdleSound, Local DEF IInv, StoreInv, Return

LEMMA Saves ==
  ASSUME IInv, NEW c \in Callers, NEW h \in Horizon,
         Good(h, status, answered), ToSave(c, h), UNCHANGED <<store, answered>>
  PROVE  IInv'
BY LatestNat, SaveSound, Local DEF IInv, StoreInv, ToSave

LEMMA WritesAndSaves ==
  ASSUME IInv, NEW c \in Callers, NEW h \in Horizon,
         Good(h, status', answered), ToSave(c, h),
         UNCHANGED <<horizon, plans, steps, late, answered>>,
         status' \in TaskStatus, status # "COMPLETED"
  PROVE  IInv'
BY LatestNat, SaveSound, StatusWrite DEF IInv, StoreInv, ToSave

(* m is what call c becomes when it goes on with the statement l *)
Going(m, c, l) ==
  /\ m.at = l /\ m.op = call[c].op /\ m.my = call[c].my
  /\ m.item = call[c].item /\ m.rev = call[c].rev /\ m.to = call[c].to

LEMMA ToFits ==
  ASSUME IInv, NEW c \in Callers, NEW l \in Label, To(c, l)
  PROVE  \E m : /\ Become(c, m) /\ Fits(m, Latest, DOMAIN steps)
                /\ Going(m, c, l)
<1> DEFINE m == [call[c] EXCEPT !.at = l]
<1>1. Become(c, m)
  BY DEF To, Become, IInv
<1>2. Fits(m, Latest, DOMAIN steps) /\ Going(m, c, l)
  BY DEF IInv, Sound, Fits, Going
<1> QED BY <1>1, <1>2

LEMMA ToMoves ==
  ASSUME IInv, NEW c \in Callers, NEW l \in Label, To(c, l),
         UNCHANGED <<store, answered>>,
         \A m : Going(m, c, l) => Sane(m, status, answered)
  PROVE  IInv'
BY ToFits, Local

LEMMA ToMovesTask ==
  ASSUME IInv, NEW c \in Callers, NEW l \in Label, To(c, l),
         UNCHANGED <<horizon, plans, steps, late, answered>>,
         status' \in TaskStatus, status # "COMPLETED",
         \A m : Going(m, c, l) => Sane(m, status', answered)
  PROVE  IInv'
BY ToFits, StatusWrite

LEMMA ToMovesStep ==
  ASSUME IInv, NEW c \in Callers, NEW l \in Label, To(c, l),
         NEW s, NEW from, NEW to \in StepStatus,
         StepCAS(s, from, to) \/ UNCHANGED steps,
         UNCHANGED <<status, horizon, plans, late, answered>>,
         \A m : Going(m, c, l) => Sane(m, status, answered)
  PROVE  IInv'
BY ToFits, StepWrite

LEMMA HoldFits ==
  ASSUME IInv, NEW c \in Callers, NEW h \in Horizon, NEW l \in Label,
         Hold(c, h, l)
  PROVE  \E m : /\ Become(c, m) /\ Fits(m, Latest, DOMAIN steps)
                /\ m.at = l /\ m.my = h /\ m.op = call[c].op
                /\ m.item = call[c].item /\ m.rev = call[c].rev
                /\ m.to = call[c].to
<1> DEFINE m == [call[c] EXCEPT !.my = h, !.at = l]
<1>1. /\ Become(c, m) /\ Fits(m, Latest, DOMAIN steps)
      /\ m.at = l /\ m.my = h /\ m.op = call[c].op
      /\ m.item = call[c].item /\ m.rev = call[c].rev /\ m.to = call[c].to
  BY DEF IInv, Sound, Fits, Hold
<1> QED BY <1>1

LEMMA HoldMoves ==
  ASSUME IInv, NEW c \in Callers, NEW h \in Horizon, NEW l \in Label,
         Hold(c, h, l), UNCHANGED <<store, answered>>,
         \A m : /\ m.at = l /\ m.my = h /\ m.op = call[c].op
                /\ m.item = call[c].item /\ m.to = call[c].to
                => Sane(m, status, answered)
  PROVE  IInv'
BY HoldFits, Local

(* What a call holds is a Horizon, and Good. *)
LEMMA Held ==
  ASSUME IInv, NEW c \in Callers, Holds(call[c])
  PROVE  call[c].my \in Horizon /\ Good(call[c].my, status, answered)
BY DEF IInv, Sound, Sane

LEMMA RowGood ==
  ASSUME IInv
  PROVE  /\ horizon \in Horizon /\ Good(horizon, status, answered)
         /\ status \in TaskStatus
BY DEF IInv, StoreInv, StoreTypes

LEMMA CallFits ==
  ASSUME IInv, NEW c \in Callers
  PROVE  /\ call[c].at \in Label /\ call[c].item \in TaskStatus \cup {NONE}
         /\ call[c].rev \in 0..Latest /\ call[c].to \in TaskStatus \cup {NONE}
         /\ call[c].step \in DOMAIN steps \cup {NoStep}
         /\ Fits(call[c], Latest, DOMAIN steps)
         /\ Sane(call[c], status, answered)
BY DEF IInv, Sound, Fits

----
LEMMA AdvanceReads ==
  ASSUME IInv, NEW c \in Callers,
         \/ AdvanceOver(c) \/ AdvanceResolved(c) \/ AdvanceWaits(c)
         \/ AdvanceWorks(c)
  PROVE  IInv'
<1>1. CASE AdvanceOver(c)
  BY <1>1, Returns DEF AdvanceOver
<1>2. CASE AdvanceResolved(c)
  <2> DEFINE h == [horizon EXCEPT !.status = "ACTIVE"]
  <2>1. /\ h \in Horizon /\ Good(h, status, answered) /\ ~h.awaiting
        /\ Hold(c, h, "resolve")
    BY <1>2, RowGood DEF AdvanceResolved, Horizon, HorizonStatus, Good
  <2> HIDE DEF h
  <2>2. ASSUME NEW m, m.at = "resolve", m.my = h, m.op = "Advance"
        PROVE  Sane(m, status, answered)
    BY <2>1, <2>2 DEF Sane, Approving, Approvals, Working, Resuming
  <2>3. "resolve" \in Label /\ call[c].op = "Advance"
    BY <1>2 DEF Label, AdvanceResolved, Reading
  <2> QED BY <1>2, <2>1, <2>2, <2>3, HoldMoves DEF AdvanceResolved
<1>3. CASE AdvanceWaits(c)
  BY <1>3, RowGood, Returns, Saves
  DEF AdvanceWaits, Horizon, HorizonStatus, Good
<1>4. CASE AdvanceWorks(c)
  <2>1. CASE Hold(c, horizon, "load_plan") /\ ~horizon.awaiting
    <3>1. ASSUME NEW m, m.at = "load_plan", m.my = horizon, m.op = "Advance"
          PROVE  Sane(m, status, answered)
      BY <2>1, <3>1, RowGood DEF Sane, Approving, Approvals, Working, Resuming
    <3>2. "load_plan" \in Label /\ call[c].op = "Advance"
      BY <1>4 DEF Label, AdvanceWorks, Reading
    <3> QED BY <1>4, <2>1, <3>1, <3>2, RowGood, HoldMoves DEF AdvanceWorks
  <2> QED BY <1>4, <2>1, Returns DEF AdvanceWorks
<1> QED BY <1>1, <1>2, <1>3, <1>4

(* A call that works on a copy of the horizon is no approval. *)
LEMMA Copies ==
  ASSUME IInv, NEW c \in Callers, call[c].at \in Copying
  PROVE  /\ call[c].op \notin Approvals
         /\ call[c].my \in Horizon /\ Good(call[c].my, status, answered)
BY DEF IInv, Sound, Sane, Holds, Copying, Approving

LEMMA Blocks ==
  ASSUME IInv, NEW c \in Callers, NEW h \in Horizon,
         Good(h, status, answered), call[c].op \notin Approvals,
         NEW target \in {"BLOCKED", "PAUSED", NONE},
         target # NONE => call[c].item \in {"READY", "RUNNING"},
         Block(c, h, target), UNCHANGED <<store, answered>>
  PROVE  IInv'
<1> DEFINE b == [h EXCEPT !.status = "BLOCKED"]
<1>1. /\ b \in Horizon /\ Good(b, status, answered)
      /\ IF target = NONE THEN ToSave(c, b)
         ELSE Become(c, [call[c] EXCEPT !.at = "try_task", !.my = b,
                                        !.to = target])
  BY DEF Block, Good, Horizon, HorizonStatus
<1> HIDE DEF b
<1>2. CASE target = NONE
  BY <1>1, <1>2, Saves
<1>3. CASE target # NONE
  <2> DEFINE m == [call[c] EXCEPT !.at = "try_task", !.my = b, !.to = target]
  <2>1. Fits(call[c], Latest, DOMAIN steps) /\ "try_task" \in Label
        /\ target \in TaskStatus
    BY <1>3, CallFits DEF Label, TaskStatus
  <2>2. /\ Fits(m, Latest, DOMAIN steps) /\ m.at = "try_task" /\ m.my = b
        /\ m.op = call[c].op /\ m.item = call[c].item /\ m.to = target
    BY <1>1, <2>1 DEF Fits
  <2>3. Become(c, m)
    BY <1>1, <1>3
  <2> HIDE DEF m
  <2>4. Sane(m, status, answered)
    BY <1>1, <1>3, <2>2 DEF Sane, Approving, Approvals, Working, Resuming
  <2> QED BY <2>2, <2>3, <2>4, Local
<1> QED BY <1>2, <1>3

LEMMA TriesTask ==
  ASSUME IInv, NEW c \in Callers, TryTask(c)
  PROVE  IInv'
<1>1. /\ call[c].my \in Horizon /\ Good(call[c].my, status, answered)
      /\ call[c].item \in {"READY", "RUNNING"}
      /\ call[c].to \in {"BLOCKED", "PAUSED"}
  BY Copies, CallFits DEF TryTask, Copying, Sane
<1>2. CASE TaskCAS(call[c].item, call[c].to)
  <2>1. Good(call[c].my, status', answered)
    BY <1>1, <1>2 DEF Good, TaskCAS
  <2> QED BY <1>1, <1>2, <2>1, WritesAndSaves
      DEF TryTask, TaskCAS, TaskStatus
<1>3. CASE UNCHANGED status
  BY <1>1, <1>3, Saves DEF TryTask, store
<1> QED BY <1>2, <1>3 DEF TryTask

LEMMA LoadsPlan ==
  ASSUME IInv, NEW c \in Callers, LoadPlan(c)
  PROVE  IInv'
<1>1. /\ call[c].my \in Horizon /\ Good(call[c].my, status, answered)
      /\ call[c].op \notin Approvals /\ ~call[c].my.awaiting
      /\ UNCHANGED <<store, answered>>
  BY Copies, CallFits DEF LoadPlan, Copying, Sane, Working
<1>2. CASE OutOfBudget(c, call[c].my)
  <2> DEFINE target == CASE call[c].item = "RUNNING" -> "BLOCKED"
                         [] call[c].item = "READY"   -> "PAUSED"
                         [] OTHER                    -> NONE
  <2>1. /\ target \in {"BLOCKED", "PAUSED", NONE}
        /\ target # NONE => call[c].item \in {"READY", "RUNNING"}
        /\ Block(c, call[c].my, target)
    BY <1>2 DEF OutOfBudget
  <2> HIDE DEF target
  <2> QED BY <1>1, <2>1, Blocks
<1>3. CASE GoOn(c)
  <2>1. PICK l \in {"load_steps", "plan"} :
          Become(c, [call[c] EXCEPT !.rev = Latest, !.at = l])
    BY <1>3 DEF GoOn
  <2> DEFINE m == [call[c] EXCEPT !.rev = Latest, !.at = l]
  <2>2. /\ Fits(call[c], Latest, DOMAIN steps) /\ l \in Label
        /\ Latest \in 0..Latest
    BY CallFits, LatestNat DEF Label, IInv, StoreInv
  <2>3. /\ Fits(m, Latest, DOMAIN steps) /\ m.at = l /\ m.my = call[c].my
        /\ m.op = call[c].op
    BY <2>2 DEF Fits
  <2>4. Become(c, m)
    BY <2>1
  <2> HIDE DEF m
  <2>5. Sane(m, status, answered)
    BY <1>1, <2>3 DEF Sane, Approving, Approvals, Working, Resuming
  <2> QED BY <1>1, <2>3, <2>4, <2>5, Local
<1> QED BY <1>2, <1>3 DEF LoadPlan

LEMMA Fails ==
  ASSUME IInv, NEW c \in Callers, ModelFails(c) \/ RunFails(c)
  PROVE  IInv'
<1>1. /\ call[c].at \in Copying
      /\ UNCHANGED <<store, answered>> /\ To(c, "fail")
  BY DEF ModelFails, RunFails, Lost, Copying
<1>2. ASSUME NEW m, Going(m, c, "fail") PROVE Sane(m, status, answered)
  BY <1>1, <1>2, Copies
  DEF Going, Sane, Approving, Working, Resuming
<1>3. "fail" \in Label
  BY DEF Label
<1> QED BY <1>1, <1>2, <1>3, ToMoves

LEMMA LoadsSteps ==
  ASSUME IInv, NEW c \in Callers, LoadSteps(c)
  PROVE  IInv'
<1>1. ASSUME NEW m, Going(m, c, "run") PROVE Sane(m, status, answered)
  BY <1>1, Copies
  DEF LoadSteps, Copying, Going, Sane, Approving, Working, Resuming
<1>2. "run" \in Label
  BY DEF Label
<1> QED BY <1>1, <1>2, ToMoves DEF LoadSteps

LEMMA RevNat == ASSUME IInv, NEW c \in Callers PROVE call[c].rev \in Nat
BY CallFits, LatestNat DEF IInv, StoreInv

(* Counting changes neither the stage nor the status of a copy. *)
LEMMA MoreReplansGood ==
  ASSUME NEW h \in Horizon, NEW st, NEW A, Good(h, st, A)
  PROVE  /\ MoreReplans(h) \in Horizon /\ Good(MoreReplans(h), st, A)
         /\ MoreReplans(h).stage = h.stage
         /\ MoreReplans(h).processed = h.processed
<1> DEFINE n == Least(h.replans + 1, MaxReplans + 1)
<1>1. n \in 0..MaxReplans + 1
  BY BudgetsNat DEF Least, Horizon
<1>2. MoreReplans(h) = [h EXCEPT !.replans = n]
  BY DEF MoreReplans
<1> HIDE DEF n
<1> QED BY <1>1, <1>2 DEF Horizon, Good

LEMMA MoreIdleGood ==
  ASSUME NEW h \in Horizon, NEW st, NEW A, Good(h, st, A)
  PROVE  /\ MoreIdle(h) \in Horizon /\ Good(MoreIdle(h), st, A)
         /\ MoreIdle(h).stage = h.stage
         /\ MoreIdle(h).processed = h.processed
<1> DEFINE n == Least(h.idle + 1, 3)
<1>1. n \in 0..3
  BY DEF Least, Horizon
<1>2. MoreIdle(h) = [h EXCEPT !.idle = n]
  BY DEF MoreIdle
<1> HIDE DEF n
<1> QED BY <1>1, <1>2 DEF Horizon, Good

LEMMA ClosesFailed ==
  ASSUME IInv, NEW c \in Callers, CloseFailed(c)
  PROVE  IInv'
<1> DEFINE h == MoreReplans([call[c].my EXCEPT !.processed = call[c].rev])
           target == IF call[c].item = "RUNNING" THEN "BLOCKED" ELSE NONE
<1>1. /\ call[c].my \in Horizon /\ Good(call[c].my, status, answered)
      /\ call[c].op \notin Approvals /\ call[c].rev \in Nat
  BY Copies, RevNat DEF CloseFailed, Copying
<1>2. h \in Horizon /\ Good(h, status, answered)
  <2> DEFINE closed == [call[c].my EXCEPT !.processed = call[c].rev]
  <2>1. closed \in Horizon /\ Good(closed, status, answered)
    BY <1>1 DEF Horizon, Good
  <2> HIDE DEF closed
  <2>2. MoreReplans(closed) \in Horizon
        /\ Good(MoreReplans(closed), status, answered)
    BY <2>1, MoreReplansGood
  <2> QED BY <2>2 DEF closed
<1>3. /\ IF h.replans > MaxReplans THEN Block(c, h, target)
         ELSE ToSave(c, [h EXCEPT !.status = "ACTIVE"])
      /\ UNCHANGED <<store, answered>>
  BY DEF CloseFailed
<1> HIDE DEF h
<1>4. CASE Block(c, h, target)
  BY <1>1, <1>2, <1>3, <1>4, Blocks
<1>5. CASE ToSave(c, [h EXCEPT !.status = "ACTIVE"])
  <2>1. [h EXCEPT !.status = "ACTIVE"] \in Horizon
        /\ Good([h EXCEPT !.status = "ACTIVE"], status, answered)
    BY <1>2 DEF Horizon, HorizonStatus, Good
  <2> QED BY <1>3, <1>5, <2>1, Saves
<1> QED BY <1>3, <1>4, <1>5

LEMMA ClosesCompleted ==
  ASSUME IInv, NEW c \in Callers, CloseCompleted(c)
  PROVE  IInv'
<1> DEFINE h == [call[c].my EXCEPT !.processed = call[c].rev]
<1>1. /\ call[c].my \in Horizon /\ Good(call[c].my, status, answered)
      /\ call[c].op \notin Approvals /\ call[c].rev \in Nat
      /\ ~call[c].my.awaiting
  BY Copies, RevNat, CallFits DEF CloseCompleted, Copying, Sane, Working
<1>2. h \in Horizon /\ Good(h, status, answered) /\ ~h.awaiting
  BY <1>1 DEF Horizon, Good
<1>3. Hold(c, h, "assess") \/ ToSave(c, h)
  BY DEF CloseCompleted
<1> HIDE DEF h
<1>4. CASE Hold(c, h, "assess")
  <2>1. ASSUME NEW m, m.at = "assess", m.my = h, m.op = call[c].op
        PROVE  Sane(m, status, answered)
    BY <1>1, <1>2, <2>1 DEF Sane, Approving, Working, Resuming
  <2>2. "assess" \in Label
    BY DEF Label
  <2> QED BY <1>2, <1>4, <2>1, <2>2, HoldMoves DEF CloseCompleted
<1> QED BY <1>2, <1>3, <1>4, Saves DEF CloseCompleted

----
LEMMA Assesses ==
  ASSUME IInv, NEW c \in Callers, Assess(c)
  PROVE  IInv'
<1> DEFINE my == call[c].my
           h == [my EXCEPT !.stage = @ + 1]
           waiting == [h EXCEPT !.status = "WAITING", !.awaiting = TRUE]
           asks == Checkpoint(CurrentStage(my))
<1>1. /\ my \in Horizon /\ Good(my, status, answered) /\ ~my.awaiting
      /\ call[c].op \notin Approvals
      /\ UNCHANGED <<store, answered>>
  BY Copies, CallFits DEF Assess, Copying, Sane, Working
<1>2. Len(Stages) \in Nat
  BY StagesKnown
<1>3. /\ h \in Horizon /\ waiting \in Horizon
      /\ h.stage = my.stage + 1 /\ waiting.stage = h.stage
      /\ ~h.awaiting /\ waiting.awaiting
      /\ h.status = my.status /\ waiting.status = "WAITING"
  <2>1. /\ h \in Horizon /\ h.stage = my.stage + 1
        /\ ~h.awaiting /\ h.status = my.status
    BY <1>1 DEF Horizon
  <2> HIDE DEF h
  <2>2. /\ waiting \in Horizon /\ waiting.stage = h.stage
        /\ waiting.awaiting /\ waiting.status = "WAITING"
    BY <2>1 DEF Horizon, HorizonStatus
  <2> QED BY <2>1, <2>2
<1>4. Asked(h.stage) => asks
  <2>1. my.stage \in Nat /\ h.stage = my.stage + 1
    BY <1>1, <1>3 DEF Horizon
  <2> HIDE DEF h
  <2> QED BY <1>2, <2>1 DEF Asked, CurrentStage
<1>5. h.stage > Len(Stages) => ~Asked(h.stage)
  BY <1>1, <1>2, <1>3 DEF Asked, Horizon
<1>6. \/ h.stage > Len(Stages) /\ Hold(c, h, "verify")
      \/ h.stage <= Len(Stages) /\ ~asks /\ ToSave(c, h)
      \/ h.stage <= Len(Stages) /\ Hold(c, waiting, "park")
      \/ h.stage <= Len(Stages) /\ ToSave(c, waiting)
  BY DEF Assess
<1>7. my.stage \in Nat \ {0}
  BY <1>1 DEF Horizon
<1> HIDE DEF my, h, waiting, asks
<1>8. h.stage <= Len(Stages) => Good(waiting, status, answered)
  BY <1>2, <1>3, <1>7 DEF Good
<1>9. h.stage > Len(Stages) \/ ~asks => Good(h, status, answered)
  BY <1>1, <1>3, <1>4, <1>5 DEF Good
<1>10. CASE h.stage > Len(Stages) /\ Hold(c, h, "verify")
  <2>1. ASSUME NEW m, m.at = "verify", m.my = h, m.op = call[c].op
        PROVE  Sane(m, status, answered)
    BY <1>1, <1>3, <1>9, <1>10, <2>1 DEF Sane, Approving, Working, Resuming
  <2>2. "verify" \in Label
    BY DEF Label
  <2> QED BY <1>1, <1>3, <1>10, <2>1, <2>2, HoldMoves
<1>11. CASE h.stage <= Len(Stages) /\ Hold(c, waiting, "park")
  <2>1. ASSUME NEW m, m.at = "park", m.my = waiting, m.op = call[c].op
        PROVE  Sane(m, status, answered)
    BY <1>1, <1>3, <1>8, <1>11, <2>1 DEF Sane, Approving, Working, Resuming
  <2>2. "park" \in Label
    BY DEF Label
  <2> QED BY <1>1, <1>3, <1>11, <2>1, <2>2, HoldMoves
<1>12. h.stage <= Len(Stages) \/ h.stage > Len(Stages)
  BY <1>2, <1>3, <1>7
<1> QED BY <1>1, <1>3, <1>6, <1>8, <1>9, <1>10, <1>11, Saves

LEMMA Parks ==
  ASSUME IInv, NEW c \in Callers, Park(c)
  PROVE  IInv'
<1>1. call[c].my \in Horizon /\ Good(call[c].my, status, answered)
  BY Copies DEF Park, Copying
<1>2. Good(call[c].my, status', answered) /\ status' \in TaskStatus
      /\ status # "COMPLETED"
  BY <1>1 DEF Park, TaskCAS, Good, TaskStatus
<1> QED BY <1>1, <1>2, WritesAndSaves DEF Park

LEMMA Verifies ==
  ASSUME IInv, NEW c \in Callers, MoveToVerifying(c) \/ Decide(c)
  PROVE  IInv'
<1>1. CASE MoveToVerifying(c)
  <2>1. status' = "VERIFYING" /\ status = "RUNNING"
    BY <1>1 DEF MoveToVerifying, TaskCAS
  <2>2. ASSUME NEW m, Going(m, c, "decide")
        PROVE  Sane(m, status', answered)
    BY <1>1, <2>1, <2>2, CallFits
    DEF MoveToVerifying, Going, Sane, Good, Holds, Approving, Copying, Working,
        Resuming
  <2>3. "decide" \in Label /\ status' \in TaskStatus
    BY <2>1 DEF Label, TaskStatus
  <2> QED BY <1>1, <2>1, <2>2, <2>3, ToMovesTask DEF MoveToVerifying
<1>2. CASE Decide(c)
  <2>1. PICK passed \in BOOLEAN :
          /\ TaskCAS("VERIFYING", IF passed THEN "COMPLETED" ELSE "FAILED")
          /\ IF call[c].op = "ApproveWrite" THEN Return(c)
             ELSE ToSave(c, [call[c].my EXCEPT !.status =
                               IF passed THEN "COMPLETED" ELSE "BLOCKED"])
    BY <1>2 DEF Decide
  <2>2. /\ status = "VERIFYING" /\ status' \in TaskStatus
        /\ passed => status' = "COMPLETED"
        /\ UNCHANGED <<horizon, plans, steps, late, answered>>
    BY <1>2, <2>1 DEF Decide, TaskCAS, TaskStatus
  <2>3. CASE Return(c)
    BY <2>2, <2>3, LatestNat, IdleSound, StatusWrite
    DEF IInv, StoreInv, Return
  <2>4. CASE call[c].op # "ApproveWrite"
    <3> DEFINE h == [call[c].my EXCEPT !.status =
                       IF passed THEN "COMPLETED" ELSE "BLOCKED"]
    <3>1. call[c].my \in Horizon /\ Good(call[c].my, status, answered)
      BY <1>2, <2>4, CallFits DEF Decide, Sane, Holds
    <3>2. h \in Horizon /\ Good(h, status', answered) /\ ToSave(c, h)
      BY <2>1, <2>2, <2>4, <3>1 DEF Horizon, HorizonStatus, Good
    <3> HIDE DEF h
    <3> QED BY <2>2, <3>2, WritesAndSaves
  <2> QED BY <2>1, <2>3, <2>4
<1> QED BY <1>1, <1>2

----
LEMMA LatestIds == ASSUME IInv PROVE Ids(Latest) \subseteq DOMAIN steps
<1>1. Latest \in DOMAIN plans
  <2>1. plans \in Seq(Plan) /\ plans # << >>
    BY DEF IInv, StoreInv, StoreTypes
  <2>2. Len(plans) \in Nat \ {0} /\ DOMAIN plans = 1..Len(plans)
    BY <2>1, EmptySeq
  <2> QED BY <2>2 DEF Latest
<1> QED BY <1>1 DEF IInv, StoreInv, StoreTypes

LEMMA Runs ==
  ASSUME IInv, NEW c \in Callers, Run(c)
  PROVE  IInv'
<1>1. PICK s \in Ready(Latest), l \in {"start", "claim"} :
        Become(c, [call[c] EXCEPT !.step = s, !.item = NONE, !.at = l])
  BY DEF Run
<1> DEFINE m == [call[c] EXCEPT !.step = s, !.item = NONE, !.at = l]
<1>2. s \in DOMAIN steps /\ l \in Label
  BY LatestIds DEF Ready, Label
<1>3. /\ Fits(m, Latest, DOMAIN steps) /\ m.at = l /\ m.my = call[c].my
      /\ m.op = call[c].op
  BY <1>2, CallFits DEF Fits
<1>4. Become(c, m)
  BY <1>1
<1> HIDE DEF m
<1>5. Sane(m, status, answered)
  BY <1>3, Copies
  DEF Run, Sane, Approving, Copying, Working, Resuming
<1> QED BY <1>3, <1>4, <1>5, Local DEF Run

LEMMA RunsStep ==
  ASSUME IInv, NEW c \in Callers, Execute(c) \/ ExecuteFails(c)
  PROVE  IInv'
<1>1. /\ call[c].op \notin Approvals /\ call[c].my \in Horizon
      /\ Good(call[c].my, status, answered)
      /\ UNCHANGED <<store, answered>>
  BY Copies DEF Execute, ExecuteFails, Copying
<1>2. CASE Execute(c)
  <2>1. PICK outcome \in {"COMPLETED", "WAITING_USER", "WAITING_APPROVAL"} :
          Become(c, [call[c] EXCEPT !.to = outcome, !.at = "settle"])
    BY <1>2 DEF Execute
  <2> DEFINE m == [call[c] EXCEPT !.to = outcome, !.at = "settle"]
  <2>2. "settle" \in Label /\ outcome \in TaskStatus
    BY DEF Label, TaskStatus
  <2>3. /\ Fits(m, Latest, DOMAIN steps) /\ m.at = "settle"
        /\ m.my = call[c].my /\ m.op = call[c].op /\ m.to = outcome
    BY <2>2, CallFits DEF Fits
  <2>4. Become(c, m)
    BY <2>1
  <2> HIDE DEF m
  <2>5. Sane(m, status, answered)
    BY <1>1, <2>3 DEF Sane, Approving, Working, Resuming
  <2> QED BY <1>1, <2>3, <2>4, <2>5, Local
<1>3. CASE ExecuteFails(c)
  <2>1. PICK e \in BOOLEAN :
          Become(c, [call[c] EXCEPT !.exhausted = e, !.at = "drop_step"])
    BY <1>3 DEF ExecuteFails
  <2> DEFINE m == [call[c] EXCEPT !.exhausted = e, !.at = "drop_step"]
  <2>2. "drop_step" \in Label
    BY DEF Label
  <2>3. /\ Fits(m, Latest, DOMAIN steps) /\ m.at = "drop_step"
        /\ m.my = call[c].my /\ m.op = call[c].op
    BY <2>2, CallFits DEF Fits
  <2>4. Become(c, m)
    BY <2>1
  <2> HIDE DEF m
  <2>5. Sane(m, status, answered)
    BY <1>1, <2>3 DEF Sane, Approving, Working, Resuming
  <2> QED BY <1>1, <2>3, <2>4, <2>5, Local
<1> QED BY <1>2, <1>3

(* The statements that write the task or a step and go on. *)
LEMMA WritesTask ==
  ASSUME IInv, NEW c \in Callers,
         StartTask(c) \/ SettleTask(c) \/ DropTask(c) \/ AutoPause(c)
  PROVE  IInv'
<1>1. /\ call[c].op \notin Approvals /\ call[c].my \in Horizon
      /\ Good(call[c].my, status, answered)
  BY Copies DEF StartTask, SettleTask, DropTask, AutoPause, Copying
<1>2. PICK l \in {"claim", "record", "fail", "auto_ready"} : To(c, l)
  BY DEF StartTask, SettleTask, DropTask, AutoPause
<1>3. /\ \/ status' \in TaskStatus /\ status \in {"READY", "RUNNING"}
         \/ UNCHANGED status
      /\ UNCHANGED <<horizon, plans, steps, late, answered>>
  BY CallFits
  DEF StartTask, SettleTask, DropTask, AutoPause, TaskCAS, TaskStatus, Sane
<1>4. ASSUME NEW m, Going(m, c, l) PROVE Sane(m, status', answered)
  BY <1>1, <1>3, <1>4 DEF Going, Sane, Good, Approving, Working, Resuming
<1>5. l \in Label
  BY DEF Label
<1>6. CASE status' \in TaskStatus /\ status \in {"READY", "RUNNING"}
  BY <1>2, <1>3, <1>4, <1>5, <1>6, ToMovesTask
<1>7. CASE UNCHANGED status
  BY <1>2, <1>3, <1>4, <1>5, <1>7, ToMoves DEF store
<1> QED BY <1>3, <1>6, <1>7

LEMMA WritesStep ==
  ASSUME IInv, NEW c \in Callers,
         ClaimStep(c) \/ SettleStep(c) \/ DropStep(c)
  PROVE  IInv'
<1>1. /\ call[c].op \notin Approvals /\ call[c].my \in Horizon
      /\ Good(call[c].my, status, answered)
  BY Copies DEF ClaimStep, SettleStep, DropStep, Copying
<1>2. PICK l \in {"execute", "record", "settle_task", "drop_task"} :
        /\ To(c, l)
        /\ l = "settle_task" => call[c].to \in {"WAITING_USER", "WAITING_APPROVAL"}
  BY CallFits DEF ClaimStep, SettleStep, DropStep, Sane
<1>3. PICK from, to \in StepStatus :
        StepCAS(call[c].step, from, to) \/ UNCHANGED steps
  BY CallFits DEF ClaimStep, SettleStep, DropStep, Sane, StepStatus
<1>4. UNCHANGED <<status, horizon, plans, late, answered>>
  BY DEF ClaimStep, SettleStep, DropStep
<1>5. ASSUME NEW m, Going(m, c, l) PROVE Sane(m, status, answered)
  BY <1>1, <1>2, <1>5 DEF Going, Sane, Approving, Working, Resuming
<1>6. l \in Label
  BY DEF Label
<1> QED BY <1>2, <1>3, <1>4, <1>5, <1>6, ToMovesStep

(* A call that keeps nothing but its copy and the status it has just read. *)
LEMMA LeftMoves ==
  ASSUME IInv, NEW c \in Callers, NEW h \in Horizon,
         Good(h, status, answered), UNCHANGED <<store, answered>>,
         NEW l \in {"pause", "auto_pause", "auto_ready"},
         l = "pause" => status \in {"READY", "RUNNING"}, Left(c, h, l)
  PROVE  IInv'
<1> DEFINE m == [Idle EXCEPT !.at = l, !.my = h, !.item = status]
<1>1. /\ Fits(Idle, Latest, DOMAIN steps) /\ l \in Label
      /\ status \in TaskStatus /\ Idle.op = NONE
  BY IdleSound, LatestNat, RowGood DEF Label, Idle, IInv, StoreInv
<1>2. /\ Fits(m, Latest, DOMAIN steps) /\ m.at = l /\ m.my = h
      /\ m.op = NONE /\ m.item = status
  BY <1>1 DEF Fits
<1>3. Become(c, m)
  BY DEF Left
<1> HIDE DEF m
<1>4. Sane(m, status, answered)
  BY <1>2 DEF Sane, Approvals, Approving, Working, Resuming, NONE
<1> QED BY <1>2, <1>3, <1>4, Local

LEMMA Records ==
  ASSUME IInv, NEW c \in Callers, Record(c)
  PROVE  IInv'
<1>1. /\ call[c].my \in Horizon /\ Good(call[c].my, status, answered)
      /\ UNCHANGED <<store, answered>>
  BY Copies DEF Record, Copying
<1>2. PICK listed \in BOOLEAN :
        LET counted == IF listed THEN [call[c].my EXCEPT !.idle = 0]
                                 ELSE MoreIdle(call[c].my)
            stuck == counted.idle >= 3
            h == [counted EXCEPT !.status =
                    CASE status = "COMPLETED" -> "COMPLETED"
                      [] status \in {"FAILED", "BLOCKED"} -> "BLOCKED"
                      [] OTHER -> IF stuck THEN "PAUSED" ELSE @]
        IN  IF stuck /\ status = "RUNNING"
            THEN Become(c, [Idle EXCEPT !.at = "try_task", !.my = h,
                                        !.item = status, !.to = "PAUSED"])
            ELSE ToSave(c, h)
  BY DEF Record
<1> DEFINE counted == IF listed THEN [call[c].my EXCEPT !.idle = 0]
                                ELSE MoreIdle(call[c].my)
           stuck == counted.idle >= 3
           s == CASE status = "COMPLETED" -> "COMPLETED"
                  [] status \in {"FAILED", "BLOCKED"} -> "BLOCKED"
                  [] OTHER -> IF stuck THEN "PAUSED" ELSE counted.status
           h == [counted EXCEPT !.status = s]
<1>3. counted \in Horizon /\ Good(counted, status, answered)
  <2>1. [call[c].my EXCEPT !.idle = 0] \in Horizon
        /\ Good([call[c].my EXCEPT !.idle = 0], status, answered)
    BY <1>1 DEF Horizon, Good
  <2>2. MoreIdle(call[c].my) \in Horizon
        /\ Good(MoreIdle(call[c].my), status, answered)
    BY <1>1, MoreIdleGood
  <2> QED BY <2>1, <2>2
<1>4. IF stuck /\ status = "RUNNING"
      THEN Become(c, [Idle EXCEPT !.at = "try_task", !.my = h,
                                  !.item = status, !.to = "PAUSED"])
      ELSE ToSave(c, h)
  BY <1>2
<1> HIDE DEF counted
<1>5. s \in HorizonStatus /\ (s = "COMPLETED" => status = "COMPLETED")
  BY <1>3 DEF HorizonStatus, Horizon, Good
<1> HIDE DEF s
<1>6. h \in Horizon /\ Good(h, status, answered)
  BY <1>3, <1>5 DEF Horizon, Good
<1> HIDE DEF h
<1>7. CASE stuck /\ status = "RUNNING"
  <2> DEFINE m == [Idle EXCEPT !.at = "try_task", !.my = h,
                               !.item = status, !.to = "PAUSED"]
  <2>1. /\ Fits(Idle, Latest, DOMAIN steps) /\ "try_task" \in Label
        /\ {status, "PAUSED"} \subseteq TaskStatus /\ Idle.op = NONE
    BY <1>7, IdleSound, LatestNat DEF Label, Idle, TaskStatus, IInv, StoreInv
  <2>2. /\ Fits(m, Latest, DOMAIN steps) /\ m.at = "try_task" /\ m.my = h
        /\ m.op = NONE /\ m.item = status /\ m.to = "PAUSED"
    BY <1>6, <2>1 DEF Fits
  <2>3. Become(c, m)
    BY <1>4, <1>7
  <2> HIDE DEF m
  <2>4. Sane(m, status, answered)
    BY <1>6, <1>7, <2>2 DEF Sane, Approvals, Approving, Working, Resuming, NONE
  <2> QED BY <1>1, <2>2, <2>3, <2>4, Local
<1> QED BY <1>1, <1>4, <1>6, <1>7, Saves

LEMMA GivesUp ==
  ASSUME IInv, NEW c \in Callers, Fail(c)
  PROVE  IInv'
<1> DEFINE h == [MoreReplans(call[c].my) EXCEPT !.failure = TRUE,
                   !.status = "PAUSED", !.processed = call[c].rev]
           a == [h EXCEPT !.status = "ACTIVE"]
<1>1. /\ call[c].my \in Horizon /\ Good(call[c].my, status, answered)
      /\ call[c].rev \in Nat /\ UNCHANGED <<store, answered>>
  BY Copies, RevNat DEF Fail, Copying
<1>2. h \in Horizon /\ Good(h, status, answered)
  <2> DEFINE more == MoreReplans(call[c].my)
  <2>1. more \in Horizon /\ Good(more, status, answered)
    BY <1>1, MoreReplansGood
  <2> HIDE DEF more
  <2>2. /\ [more EXCEPT !.failure = TRUE, !.status = "PAUSED",
                        !.processed = call[c].rev] \in Horizon
        /\ Good([more EXCEPT !.failure = TRUE, !.status = "PAUSED",
                             !.processed = call[c].rev], status, answered)
    BY <1>1, <2>1 DEF Horizon, HorizonStatus, Good
  <2> QED BY <2>2 DEF more
<1>3. \/ ToSave(c, a) \/ ToSave(c, h)
      \/ \E l \in {"auto_pause", "auto_ready", "pause"} :
           /\ l = "pause" => status \in {"READY", "RUNNING"}
           /\ Left(c, h, l)
  BY DEF Fail
<1> HIDE DEF h
<1>4. a \in Horizon /\ Good(a, status, answered)
  BY <1>2 DEF Horizon, HorizonStatus, Good
<1> HIDE DEF a
<1> QED BY <1>1, <1>2, <1>3, <1>4, Saves, LeftMoves

LEMMA Resolves ==
  ASSUME IInv, NEW c \in Callers, Resolve(c) \/ Save(c)
  PROVE  IInv'
<1>1. /\ call[c].op \notin Approvals /\ call[c].my \in Horizon
      /\ Good(call[c].my, status, answered) /\ horizon' = call[c].my
      /\ UNCHANGED <<status, plans, steps, late, answered>>
  BY Copies DEF Resolve, Save, Copying
<1>2. status \in TaskStatus /\ \A s \in DOMAIN steps : steps[s] \in StepStatus
  BY DEF IInv, StoreInv, StoreTypes
<1>3. CASE Resolve(c)
  <2>1. "load_plan" \in Label /\ ~call[c].my.awaiting
    BY <1>3, CallFits DEF Label, Resolve, Sane, Working
  <2>2. PICK m : /\ Become(c, m) /\ Fits(m, Latest, DOMAIN steps)
                 /\ Going(m, c, "load_plan")
    BY <1>3, <2>1, ToFits DEF Resolve, Going
  <2>3. Sane(m, status, answered)
    BY <1>1, <2>1, <2>2 DEF Going, Sane, Approving, Working, Resuming
  <2> QED BY <1>1, <1>2, <2>2, <2>3, Writes
<1>4. CASE Save(c)
  <2>1. Fits(Idle, Latest, DOMAIN steps) /\ Sane(Idle, status, answered)
    BY IdleSound, LatestNat DEF IInv, StoreInv
  <2> QED BY <1>1, <1>2, <1>4, <2>1, Writes DEF Save, Return
<1> QED BY <1>3, <1>4

LEMMA PausesAndResumes ==
  ASSUME IInv, NEW c \in Callers, AutoReady(c) \/ PauseTask(c)
  PROVE  IInv'
<1>1. /\ call[c].my \in Horizon /\ Good(call[c].my, status, answered)
      /\ UNCHANGED <<horizon, plans, steps, late, answered>>
      /\ status' \in TaskStatus /\ status \in {"PAUSED", "READY", "RUNNING"}
  BY Copies, CallFits
  DEF AutoReady, PauseTask, Copying, TaskCAS, TaskStatus, Sane
<1>2. PICK h \in {call[c].my, [call[c].my EXCEPT !.status = "ACTIVE"]} :
        ToSave(c, h)
  BY DEF AutoReady, PauseTask
<1>3. h \in Horizon /\ Good(h, status', answered)
  BY <1>1, <1>2 DEF Horizon, HorizonStatus, Good
<1> QED BY <1>1, <1>2, <1>3, WritesAndSaves

----
LEMMA ResumeStarts ==
  ASSUME IInv, NEW c \in Callers, ResumeReads(c)
  PROVE  IInv'
<1> DEFINE h == Resumed(horizon)
<1>1. /\ horizon \in Horizon /\ Good(horizon, status, answered)
      /\ Fits(call[c], Latest, DOMAIN steps) /\ Latest \in Nat
      /\ call[c].op = "Resume"
      /\ status' = status /\ horizon' = horizon /\ plans' = plans
      /\ steps' = steps /\ late' = late
  BY RowGood, CallFits, LatestNat DEF ResumeReads, Reading, store, IInv, StoreInv
<1>2. /\ answered \subseteq answered' /\ answered' \subseteq 1..Len(Stages)
      /\ horizon.awaiting => horizon.stage \in answered'
  BY <1>1, StagesKnown DEF ResumeReads, Good, IInv, StoreInv, StoreTypes
<1>3. Good(horizon, status', answered')
  BY <1>1, <1>2 DEF Good
<1>4. StoreInv'
  <2>1. StoreTypes'
    BY <1>1, <1>2 DEF IInv, StoreInv, StoreTypes, Ids
  <2> QED BY <1>1, <1>2, <1>3, <2>1 DEF IInv, StoreInv, CheckpointRespected
<1>5. Grows /\ Latest' = Latest
  BY <1>1, <1>2 DEF Grows, Latest
<1>6. CASE ToSave(c, h)
  <2>1. h \in Horizon /\ Good(h, status', answered')
    BY <1>1, <1>2 DEF Resumed, Horizon, HorizonStatus, Good
  <2> HIDE DEF h
  <2> DEFINE m == [Idle EXCEPT !.my = h, !.at = "save"]
  <2>2. Fits(m, Latest', DOMAIN steps') /\ Sane(m, status', answered')
    BY <1>1, <1>5, <2>1, SaveSound
  <2>3. call' = [call EXCEPT ![c] = m]
    BY <1>6 DEF ToSave, Become
  <2> HIDE DEF m
  <2> QED BY <1>4, <1>5, <2>2, <2>3, Moves
<1>7. ASSUME NEW l \in {"resume_plan", "resume_task"}, Hold(c, horizon, l),
             call[c].item \in {"WAITING_USER", "PAUSED"}
      PROVE  IInv'
  <2> DEFINE m == [call[c] EXCEPT !.my = horizon, !.at = l]
  <2>1. /\ Fits(m, Latest', DOMAIN steps') /\ m.at = l /\ m.my = horizon
        /\ m.op = "Resume" /\ m.item = call[c].item
    BY <1>1, <1>5 DEF Fits, Label
  <2>2. call' = [call EXCEPT ![c] = m]
    BY <1>7 DEF Hold, Become
  <2> HIDE DEF m
  <2>3. Sane(m, status', answered')
    BY <1>1, <1>2, <1>3, <1>7, <2>1
    DEF Sane, Approvals, Approving, Working, Resuming
  <2> QED BY <1>4, <1>5, <2>1, <2>2, <2>3, Moves
<1>8. \/ ToSave(c, h)
      \/ /\ call[c].item \in {"WAITING_USER", "PAUSED"}
         /\ \E l \in {"resume_plan", "resume_task"} : Hold(c, horizon, l)
  BY DEF ResumeReads
<1> QED BY <1>6, <1>7, <1>8

LEMMA ResumeGoesOn ==
  ASSUME IInv, NEW c \in Callers,
         ResumeLoadsPlan(c) \/ DropAsked(c) \/ ResumeTask(c)
  PROVE  IInv'
<1>1. /\ call[c].op \notin Approvals /\ call[c].my \in Horizon
      /\ Good(call[c].my, status, answered)
      /\ call[c].my.awaiting => call[c].my.stage \in answered
      /\ call[c].item \in {"WAITING_USER", "PAUSED"}
      /\ Fits(call[c], Latest, DOMAIN steps) /\ Latest \in Nat
  BY Copies, CallFits, LatestNat
  DEF ResumeLoadsPlan, DropAsked, ResumeTask, Copying, Resuming, Sane,
      IInv, StoreInv
<1>2. ASSUME NEW m, NEW l \in {"resume_task", "drop_asked"}, m.at = l,
             m.op = call[c].op, m.item = call[c].item,
             NEW h \in Horizon, m.my = h, h.stage = call[c].my.stage,
             h.awaiting = call[c].my.awaiting, h.status = call[c].my.status
      PROVE  Sane(m, status, answered)
  BY <1>1, <1>2 DEF Sane, Good, Approving, Working, Resuming
<1>3. {"resume_task", "drop_asked"} \subseteq Label
  BY DEF Label
<1>4. CASE ResumeLoadsPlan(c)
  <2>1. CASE Become(c, [call[c] EXCEPT !.rev = Latest, !.at = "drop_asked"])
    <3> DEFINE m == [call[c] EXCEPT !.rev = Latest, !.at = "drop_asked"]
    <3>1. /\ Fits(m, Latest, DOMAIN steps) /\ m.at = "drop_asked"
          /\ m.my = call[c].my /\ m.op = call[c].op /\ m.item = call[c].item
      <4>1. Latest \in 0..Latest
        BY <1>1
      <4> QED BY <1>1, <1>3, <4>1 DEF Fits
    <3>2. Become(c, m)
      BY <2>1
    <3> HIDE DEF m
    <3>3. Sane(m, status, answered)
      BY <1>1, <1>2, <3>1
    <3> QED BY <1>4, <3>1, <3>2, <3>3, Local DEF ResumeLoadsPlan
  <2>2. ASSUME NEW h \in {call[c].my, [call[c].my EXCEPT !.processed = Latest]},
               Hold(c, h, "resume_task")
        PROVE  IInv'
    <3>1. /\ h \in Horizon /\ h.stage = call[c].my.stage
          /\ h.awaiting = call[c].my.awaiting /\ h.status = call[c].my.status
      BY <1>1, <2>2 DEF Horizon
    <3>2. ASSUME NEW m, m.at = "resume_task", m.my = h, m.op = call[c].op,
                 m.item = call[c].item
          PROVE  Sane(m, status, answered)
      BY <1>2, <3>1, <3>2
    <3> QED BY <1>3, <1>4, <2>2, <3>1, <3>2, HoldMoves DEF ResumeLoadsPlan
  <2> QED BY <1>4, <2>1, <2>2 DEF ResumeLoadsPlan
<1>5. CASE DropAsked(c)
  <2>1. ASSUME NEW m, m.at \in {"resume_task", "drop_asked"},
               m.op = call[c].op, m.item = call[c].item, m.my = call[c].my
        PROVE  Sane(m, status, answered)
    BY <1>1, <1>2, <2>1
  <2>2. CASE To(c, "resume_task") /\ UNCHANGED steps
    BY <1>3, <1>5, <2>1, <2>2, ToMoves DEF DropAsked, Going, store
  <2>3. ASSUME NEW s, StepCAS(s, "WAITING_USER", "FAILED"), UNCHANGED call
        PROVE  IInv'
    <3>1. Become(c, call[c])
      BY <2>3 DEF Become, IInv
    <3>2. Sane(call[c], status, answered) /\ "FAILED" \in StepStatus
      BY CallFits DEF StepStatus
    <3> QED BY <1>1, <1>5, <2>3, <3>1, <3>2, StepWrite DEF DropAsked
  <2> QED BY <1>5, <2>2, <2>3 DEF DropAsked
<1>6. CASE ResumeTask(c)
  <2> DEFINE h == Resumed(call[c].my)
  <2>1. /\ status # "COMPLETED" /\ status' \in TaskStatus
        /\ UNCHANGED <<horizon, plans, steps, late, answered>>
    BY <1>1, <1>6 DEF ResumeTask, TaskCAS, TaskStatus
  <2>2. h \in Horizon /\ Good(h, status', answered) /\ ToSave(c, h)
    BY <1>1, <1>6 DEF ResumeTask, Resumed, Horizon, HorizonStatus, Good
  <2> HIDE DEF h
  <2> QED BY <2>1, <2>2, WritesAndSaves
<1> QED BY <1>4, <1>5, <1>6

LEMMA Cancels ==
  ASSUME IInv, NEW c \in Callers, CancelReads(c) \/ CancelTask(c)
  PROVE  IInv'
<1>1. CASE CancelReads(c)
  <2> DEFINE h == [horizon EXCEPT !.status = "CANCELLED"]
  <2>1. /\ h \in Horizon /\ Good(h, status, answered)
        /\ call[c].op = "Cancel" /\ "cancel_task" \in Label
        /\ UNCHANGED <<store, answered>>
    BY <1>1, RowGood
    DEF CancelReads, Reading, Horizon, HorizonStatus, Good, Label
  <2>2. \/ ToSave(c, h)
        \/ Hold(c, h, "cancel_task") /\ call[c].item \notin TaskTerminal
    BY <1>1 DEF CancelReads
  <2> HIDE DEF h
  <2>3. CASE Hold(c, h, "cancel_task") /\ call[c].item \notin TaskTerminal
    <3>1. ASSUME NEW m, m.at = "cancel_task", m.my = h, m.op = "Cancel",
                 m.item = call[c].item
          PROVE  Sane(m, status, answered)
      BY <2>1, <2>3, <3>1 DEF Sane, Approvals, Approving, Working, Resuming
    <3> QED BY <2>1, <2>3, <3>1, HoldMoves
  <2> QED BY <2>1, <2>2, <2>3, Saves
<1>2. CASE CancelTask(c)
  <2>1. /\ call[c].my \in Horizon /\ Good(call[c].my, status, answered)
        /\ status # "COMPLETED" /\ status' = "CANCELLED"
        /\ status' \in TaskStatus
    BY <1>2, Copies, CallFits
    DEF CancelTask, Copying, TaskCAS, TaskStatus, TaskTerminal, Sane
  <2>2. Good(call[c].my, status', answered)
    BY <2>1 DEF Good
  <2> QED BY <1>2, <2>1, <2>2, WritesAndSaves DEF CancelTask
<1> QED BY <1>1, <1>2

LEMMA Approves ==
  ASSUME IInv, NEW c \in Callers,
         \/ PickWaiting(c) \/ ApproveTask(c) \/ ApproveStep(c)
         \/ Apply(c) \/ ApplyFails(c) \/ Reject(c)
  PROVE  IInv'
<1>1. call[c].op \in Approvals /\ Latest \in Nat
  BY CallFits, LatestNat
  DEF PickWaiting, ApproveTask, ApproveStep, Apply, ApplyFails, Reject, Sane,
      Approving, IInv, StoreInv
<1>2. ASSUME NEW m, NEW st, m.op = call[c].op,
             m.at \in {"approve_task", "approve_step", "apply", "reject"}
      PROVE  Sane(m, st, answered)
  BY <1>1, <1>2 DEF Sane, Holds, Approving, Copying, Working, Resuming
<1>3. {"approve_task", "approve_step", "apply", "reject", "verify"}
        \subseteq Label
  BY DEF Label
<1>4. CASE PickWaiting(c)
  <2>1. PICK s \in Ids(Latest) :
          /\ steps[s] = "WAITING_APPROVAL"
          /\ Become(c, [call[c] EXCEPT !.step = s, !.at = "approve_task"])
    BY <1>4 DEF PickWaiting
  <2> DEFINE m == [call[c] EXCEPT !.step = s, !.at = "approve_task"]
  <2>2. s \in DOMAIN steps
    BY LatestIds
  <2>3. /\ Fits(m, Latest, DOMAIN steps) /\ m.at = "approve_task"
        /\ m.op = call[c].op
    BY <1>3, <2>2, CallFits DEF Fits
  <2>4. Become(c, m)
    BY <2>1
  <2> HIDE DEF m
  <2> QED BY <1>2, <1>4, <2>3, <2>4, Local DEF PickWaiting
<1>5. CASE ApproveTask(c)
  <2>1. /\ status = "WAITING_APPROVAL" /\ status' \in TaskStatus
        /\ To(c, "approve_step")
        /\ UNCHANGED <<horizon, plans, steps, late, answered>>
    BY <1>5 DEF ApproveTask, TaskCAS, TaskStatus
  <2> QED BY <1>2, <1>3, <2>1, ToMovesTask DEF Going
<1>6. CASE ApproveStep(c)
  <2>1. /\ StepCAS(call[c].step, "WAITING_APPROVAL", "RUNNING")
        /\ To(c, "apply") /\ "RUNNING" \in StepStatus
        /\ UNCHANGED <<status, horizon, plans, late, answered>>
    BY <1>6 DEF ApproveStep, StepStatus
  <2> QED BY <1>2, <1>3, <2>1, ToMovesStep DEF Going
<1>7. CASE Apply(c)
  <2>1. /\ StepCAS(call[c].step, "RUNNING", "COMPLETED")
        /\ "COMPLETED" \in StepStatus
        /\ UNCHANGED <<status, horizon, plans, late, answered>>
    BY <1>7 DEF Apply, StepStatus
  <2>2. CASE Return(c)
    BY <1>1, <2>1, <2>2, IdleSound, StepWrite DEF Return
  <2>3. CASE To(c, "verify") /\ call[c].op = "ApproveWrite"
    <3>1. ASSUME NEW m, Going(m, c, "verify") PROVE Sane(m, status, answered)
      BY <1>1, <2>3, <3>1
      DEF Going, Sane, Holds, Approving, Copying, Working, Resuming
    <3> QED BY <1>3, <2>1, <2>3, <3>1, ToMovesStep
  <2> QED BY <1>1, <1>7, <2>2, <2>3 DEF Apply, Approvals
<1>8. CASE ApplyFails(c)
  <2>1. /\ StepCAS(call[c].step, "RUNNING", "FAILED") \/ UNCHANGED steps
        /\ To(c, "reject") /\ "FAILED" \in StepStatus
        /\ UNCHANGED <<status, horizon, plans, late, answered>>
    BY <1>8 DEF ApplyFails, StepStatus
  <2> QED BY <1>2, <1>3, <2>1, ToMovesStep DEF Going
<1>9. CASE Reject(c)
  <2>1. CASE TaskCAS("RUNNING", "FAILED")
    BY <1>1, <1>9, <2>1, IdleSound, StatusWrite
    DEF Reject, Return, TaskCAS, TaskStatus
  <2> QED BY <1>9, <2>1, Returns DEF Reject, store
<1> QED BY <1>4, <1>5, <1>6, <1>7, <1>8, <1>9

(* A call is made, is cut off, or time passes. *)
LEMMA Comes ==
  ASSUME IInv, NEW c \in Callers, NEW o \in Operations, Call(c, o)
  PROVE  IInv'
<1> DEFINE l == IF o \in Approvals THEN "load_waiting" ELSE "load_horizon"
           m == [Idle EXCEPT !.op = o, !.item = status, !.at = l]
<1>1. /\ Fits(Idle, Latest, DOMAIN steps) /\ l \in Label
      /\ status \in TaskStatus /\ l \in {"load_waiting", "load_horizon"}
      /\ o \in Approvals <=> l = "load_waiting"
  BY IdleSound, LatestNat, RowGood DEF Label, IInv, StoreInv
<1>2. Become(c, m) /\ UNCHANGED <<store, answered>>
  BY DEF Call
<1> HIDE DEF l
<1>3. /\ Fits(m, Latest, DOMAIN steps) /\ m.at = l /\ m.op = o
  BY <1>1 DEF Fits
<1> HIDE DEF m
<1>4. Sane(m, status, answered)
  BY <1>1, <1>3 DEF Sane, Holds, Approving, Copying, Working, Resuming
<1> QED BY <1>2, <1>3, <1>4, Local

LEMMA Aborts ==
  ASSUME IInv, NEW c \in Callers, Abort(c)
  PROVE  IInv'
<1> DEFINE m == [Idle EXCEPT !.op = "ERROR"]
<1>1. Fits(Idle, Latest, DOMAIN steps) /\ Idle.at = "idle"
  BY IdleSound, LatestNat DEF IInv, StoreInv, Idle
<1>2. Fits(m, Latest, DOMAIN steps) /\ m.at = "idle" /\ m.op = "ERROR"
  BY <1>1 DEF Fits
<1>3. Become(c, m) /\ UNCHANGED <<store, answered>>
  BY DEF Abort
<1> HIDE DEF m
<1>4. Sane(m, status, answered)
  BY <1>2 DEF Sane, Holds, Approvals, Approving, Copying, Working, Resuming
<1> QED BY <1>2, <1>3, <1>4, Local

LEMMA Waits == ASSUME IInv, TimePasses \/ UNCHANGED vars PROVE IInv'
<1>1. /\ UNCHANGED <<status, horizon, plans, steps, call, answered>>
      /\ late' \in BOOLEAN
  BY DEF TimePasses, vars, store, IInv, StoreInv, StoreTypes
<1>2. StoreTypes'
  BY <1>1 DEF IInv, StoreInv, StoreTypes, Ids
<1> QED BY <1>1, <1>2
        DEF IInv, StoreInv, CheckpointRespected, Sound, Latest

----
(* CreateSegment: what it stores and becomes *)
LEMMA Plans ==
  ASSUME StoreTypes, plans # << >>, NEW c \in Callers,
         call[c].my \in Horizon, CreateSegment(c)
  PROVE  \E segment \in Segments :
           /\ plans' = Append(plans, [stage |-> call[c].my.stage,
                                      steps |-> segment.steps,
                                      terminal |-> segment.terminal])
           /\ Latest' = Latest + 1
           /\ DOMAIN plans' = DOMAIN plans \cup {Latest + 1}
           /\ \A r \in DOMAIN plans : plans'[r] = plans[r]
           /\ plans'[Latest + 1] = [stage |-> call[c].my.stage,
                                    steps |-> segment.steps,
                                    terminal |-> segment.terminal]
           /\ plans' \in Seq(Plan) /\ plans' # << >>
           /\ DOMAIN steps' = DOMAIN steps \cup
                                {Latest + 1} \X (1..Len(segment.steps))
           /\ \A s \in DOMAIN steps : steps'[s] = steps[s]
           /\ \A s \in DOMAIN steps' : s \notin DOMAIN steps =>
                                        steps'[s] = "PENDING"
<1>1. PICK segment \in Segments :
        /\ plans' = Append(plans, [stage |-> call[c].my.stage,
                                   steps |-> segment.steps,
                                   terminal |-> segment.terminal])
        /\ steps' = [s \in DOMAIN steps \cup
                            {Latest + 1} \X (1..Len(segment.steps)) |->
                      IF s \in DOMAIN steps THEN steps[s] ELSE "PENDING"]
  BY DEF CreateSegment
<1> DEFINE p == [stage |-> call[c].my.stage, steps |-> segment.steps,
                 terminal |-> segment.terminal]
<1>2. p \in Plan
  <2>1. call[c].my.stage \in Nat \ {0} /\ segment.terminal \in BOOLEAN
        /\ segment.steps \in {g.steps : g \in Segments}
    BY SegmentsArePlans DEF Horizon
  <2> QED BY <2>1 DEF Plan
<1>3. plans' = Append(plans, p)
  BY <1>1
<1> HIDE DEF p
<1>4. plans \in Seq(Plan)
  BY DEF StoreTypes
<1>5. /\ Latest' = Latest + 1 /\ Latest \in Nat
      /\ DOMAIN plans' = DOMAIN plans \cup {Latest + 1}
      /\ \A r \in DOMAIN plans : plans'[r] = plans[r]
      /\ plans'[Latest + 1] = p
      /\ plans' \in Seq(Plan) /\ plans' # << >>
  BY <1>2, <1>3, <1>4 DEF Latest
<1> QED BY <1>1, <1>5 DEF p

LEMMA Creates ==
  ASSUME IInv, NEW c \in Callers, CreateSegment(c)
  PROVE  IInv'
<1> DEFINE my == call[c].my
<1>1. /\ my \in Horizon /\ Good(my, status, answered) /\ ~my.awaiting
      /\ StoreTypes /\ plans # << >> /\ Latest \in Nat
      /\ UNCHANGED <<status, horizon, late, answered>>
  BY Copies, CallFits, LatestNat
  DEF CreateSegment, Copying, Sane, Working, IInv, StoreInv
<1>2. PICK segment \in Segments :
        /\ Latest' = Latest + 1
        /\ DOMAIN plans' = DOMAIN plans \cup {Latest + 1}
        /\ \A r \in DOMAIN plans : plans'[r] = plans[r]
        /\ plans'[Latest + 1] = [stage |-> my.stage, steps |-> segment.steps,
                                 terminal |-> segment.terminal]
        /\ plans' \in Seq(Plan) /\ plans' # << >>
        /\ DOMAIN steps' = DOMAIN steps \cup
                             {Latest + 1} \X (1..Len(segment.steps))
        /\ \A s \in DOMAIN steps : steps'[s] = steps[s]
        /\ \A s \in DOMAIN steps' : s \notin DOMAIN steps =>
                                     steps'[s] = "PENDING"
  BY <1>1, Plans
<1>3. DOMAIN steps' = UNION {Ids(r)' : r \in DOMAIN plans'}
  <2>1. ASSUME NEW r \in DOMAIN plans PROVE Ids(r)' = Ids(r)
    BY <1>2 DEF Ids
  <2>2. ASSUME NEW r, r = Latest + 1
        PROVE  Ids(r)' = {Latest + 1} \X (1..Len(segment.steps))
    <3>1. DOMAIN segment.steps = 1..Len(segment.steps)
      BY SegmentsArePlans
    <3>2. DOMAIN plans'[r].steps = 1..Len(segment.steps)
      BY <1>2, <2>2, <3>1
    <3> QED BY <2>2, <3>2 DEF Ids
  <2>3. DOMAIN steps = UNION {Ids(r) : r \in DOMAIN plans}
    BY <1>1 DEF StoreTypes
  <2> QED BY <1>2, <2>1, <2>2, <2>3
<1>4. \A s \in DOMAIN steps' : steps'[s] \in StepStatus
  BY <1>1, <1>2 DEF StoreTypes, StepStatus
<1>5. StoreTypes'
  BY <1>1, <1>2, <1>3, <1>4 DEF StoreTypes
<1>6. CheckpointRespected'
  <2>1. SUFFICES ASSUME NEW r \in DOMAIN plans', plans'[r].stage \in 2..Len(Stages),
                        \/ Policy = "EVERY_STAGE"
                        \/ /\ Policy = "KEY_STAGES"
                           /\ Stages[plans'[r].stage - 1] = "DESIGN"
                 PROVE  plans'[r].stage \in answered'
    BY DEF CheckpointRespected
  <2>2. CASE r \in DOMAIN plans
    BY <1>1, <1>2, <2>1, <2>2 DEF CheckpointRespected, IInv, StoreInv
  <2>3. CASE r = Latest + 1
    <3>1. plans'[r].stage = my.stage /\ Asked(my.stage)
      BY <1>2, <2>1, <2>3 DEF Asked, Checkpoint
    <3> QED BY <1>1, <3>1 DEF Good
  <2> QED BY <1>2, <2>2, <2>3
<1>7. StoreInv' /\ Grows
  BY <1>1, <1>2, <1>5, <1>6 DEF IInv, StoreInv, Grows
<1>8. PICK n \in 1..4 : ToSave(c, MoreIdle([my EXCEPT !.planned = @ + n]))
  <2>1. PICK g \in Segments :
          ToSave(c, MoreIdle([my EXCEPT !.planned = @ + Len(g.steps)]))
    BY DEF CreateSegment
  <2> QED BY <2>1, SegmentsArePlans
<1> DEFINE counted == [my EXCEPT !.planned = @ + n]
           h == MoreIdle(counted)
           m == [Idle EXCEPT !.my = h, !.at = "save"]
<1>9. counted \in Horizon /\ Good(counted, status, answered)
  BY <1>1 DEF Horizon, Good
<1> HIDE DEF counted
<1>10. h \in Horizon /\ Good(h, status', answered')
  BY <1>1, <1>9, MoreIdleGood
<1>11. call' = [call EXCEPT ![c] = m]
  BY <1>8 DEF ToSave, Become, counted
<1> HIDE DEF h
<1>12. Fits(m, Latest', DOMAIN steps') /\ Sane(m, status', answered')
  <2>1. Latest' \in Nat
    BY <1>1, <1>2
  <2> QED BY <1>10, <2>1, SaveSound
<1> HIDE DEF m
<1> QED BY <1>7, <1>11, <1>12, Moves

----
LEMMA Initial == ASSUME Init PROVE IInv
<1>1. horizon \in Horizon /\ horizon.stage = 1 /\ ~horizon.awaiting
      /\ horizon.status = "ACTIVE"
  BY BudgetsNat DEF Init, Horizon, HorizonStatus
<1>2. /\ plans \in Seq(Plan) /\ plans # << >> /\ DOMAIN plans = {1}
      /\ Latest = 1 /\ plans[1].stage = 0 /\ plans[1].steps = << >>
  BY DEF Init, Plan, Latest
<1>3. DOMAIN steps = {} /\ Ids(1) = {}
  BY <1>2 DEF Init, Ids
<1>4. StoreTypes
  BY <1>1, <1>2, <1>3 DEF StoreTypes, Init, TaskStatus
<1>5. Good(horizon, status, answered) /\ CheckpointRespected
  BY <1>1, <1>2 DEF Good, Asked, CheckpointRespected
<1>6. ASSUME NEW c \in Callers PROVE Sound(call[c])
  BY <1>2, IdleSound DEF Init, Sound
<1> QED BY <1>2, <1>4, <1>5, <1>6 DEF IInv, StoreInv, Init

LEMMA Continues == ASSUME IInv, NEW c \in Callers, Continue(c) PROVE IInv'
BY AdvanceReads, TriesTask, LoadsPlan, Fails, LoadsSteps, ClosesFailed,
   ClosesCompleted, Assesses, Parks, Verifies, Runs, RunsStep, WritesTask,
   WritesStep, Records, GivesUp, Resolves, PausesAndResumes, ResumeStarts,
   ResumeGoesOn, Cancels, Approves, Creates
DEF Continue

LEMMA Inductive == ASSUME IInv, [Next]_vars PROVE IInv'
BY Waits, Comes, Aborts, Continues DEF Next

THEOREM Invariant == Spec => []IInv
<1>1. Init => IInv
  BY Initial
<1>2. IInv /\ [Next]_vars => IInv'
  BY Inductive
<1> QED BY <1>1, <1>2, PTL DEF Spec

(* Every variable and every call keeps its type: the revision a call works *)
(* on exists, and so does its step.                                        *)
THEOREM TypeCorrect == Spec => []TypeOK
<1>1. IInv => TypeOK
  <2>1. ASSUME IInv PROVE TypeOK
    <3>1. \A c \in Callers : call[c] \in CallState
      BY <2>1 DEF IInv, Sound, Fits, CallState
    <3> QED BY <2>1, <3>1 DEF IInv, StoreInv, TypeOK, CallTypes
  <2> QED BY <2>1
<1> QED BY <1>1, Invariant, PTL

(* A segment of the stage after a checkpoint is planned only when a user   *)
(* has resumed the horizon while it awaited that: nextStage, the copies    *)
(* SaveHorizon overwrites each other with, ResumeLongHorizonTask.          *)
THEOREM CheckpointHolds == Spec => []CheckpointRespected
<1>1. IInv => CheckpointRespected
  BY DEF IInv, StoreInv
<1> QED BY <1>1, Invariant, PTL

(* A horizon whose row says COMPLETED belongs to a completed task, whoever *)
(* saved the row last.                                                     *)
THEOREM CompletedTogetherHolds == Spec => []CompletedTogether
<1>1. IInv => CompletedTogether
  BY DEF IInv, StoreInv, Good, CompletedTogether
<1> QED BY <1>1, Invariant, PTL

----
(***************************************************************************)
(* One driving loop beside one user: stages are passed in order.           *)
(*                                                                         *)
(* LongHorizonSkippedStage.cfg is what two loops do instead.               *)
(***************************************************************************)
OneOfEach ==
  /\ \A c, d \in Drivers : c = d
  /\ \A c, d \in Users : c = d

(* statements between GetLatestPlan and the end of a call that advances *)
Staged == {"plan", "load_steps", "assess", "run", "start", "claim", "execute",
           "settle", "settle_task", "drop_step", "drop_task", "record", "fail"}

(* where a call that never advances can be *)
Resting == {"save", "resume_plan", "drop_asked", "resume_task", "cancel_task"}
UserAt == {"idle", "load_horizon"} \cup Resting \cup Approving

(* the stages passed so far, and the stage of the latest plan *)
Passages == {k \in Nat : \E r \in DOMAIN plans : Passed(k, r)}
Front == plans[Latest].stage

(* All stages before the one a copy is at were passed.  If the copy says    *)
(* that the latest plan is still to be closed, this is not a plan of an     *)
(* earlier stage.                                                           *)
Below(h, P) == 1..h.stage - 1 \subseteq P
Ahead(h, n, f) == f # 0 /\ h.processed # n => f >= h.stage
Abreast(h, P, n, f) == Below(h, P) /\ Ahead(h, n, f)

(* What the driving call knows: nobody else plans, and no other copy, nor   *)
(* the row, is at a later stage than its own.                               *)
Led(k, P, n, f, row) ==
  /\ Holds(k) => row <= k.my.stage
  /\ k.at \in Staged => k.rev = n
  /\ k.at = "load_steps" => f >= k.my.stage
  /\ k.at = "assess" => k.my.processed = n /\ k.my.stage \in P
  /\ k.at \in {"verify", "decide"} /\ Holds(k) => k.my.stage > Len(Stages)

(* ... and any other call *)
Follows(k, row) ==
  /\ Holds(k) => k.my.stage <= row
  /\ k.at \in UserAt
  /\ k.at = "load_horizon" => k.op # "Advance"
  /\ k.at \in {"verify", "decide"} => k.op = "ApproveWrite"

Fine(c, k, P, n, f, row) ==
  /\ Holds(k) => Abreast(k.my, P, n, f)
  /\ IF c \in Drivers THEN Led(k, P, n, f, row)
     ELSE Follows(k, row) /\ (c \notin Users => k.at = "idle")

(* StagesInOrder for all earlier stages *)
InOrder ==
  \A r \in DOMAIN plans : \A j \in 1..plans[r].stage - 1 :
    \E q \in 1..r - 1 : Passed(j, q)

SInv ==
  /\ InOrder
  /\ Abreast(horizon, Passages, Latest, Front)
  /\ \A c \in Callers :
       Fine(c, call[c], Passages, Latest, Front, horizon.stage)

(* A step that plans nothing and keeps every completed step. *)
Kept ==
  /\ plans' = plans
  /\ \A s \in DOMAIN steps : steps[s] = "COMPLETED" => steps'[s] = "COMPLETED"

LEMMA PassagesKept ==
  ASSUME IInv, Kept
  PROVE  /\ Latest' = Latest /\ Front' = Front
         /\ \A k \in Nat, r \in DOMAIN plans : Passed(k, r) => Passed(k, r)'
         /\ Passages \subseteq Passages'
<1>1. ASSUME NEW k \in Nat, NEW r \in DOMAIN plans, Passed(k, r)
      PROVE  Passed(k, r)'
  <2>1. Ids(r) \subseteq DOMAIN steps
    BY DEF IInv, StoreInv, StoreTypes
  <2> QED BY <1>1, <2>1 DEF Passed, Kept, Ids
<1>2. Latest' = Latest /\ Front' = Front
  BY DEF Kept, Latest, Front
<1>3. Passages \subseteq Passages'
  BY <1>1 DEF Passages, Kept
<1> QED BY <1>1, <1>2, <1>3

LEMMA AbreastGrows ==
  ASSUME NEW h, NEW P, NEW Q, P \subseteq Q, NEW n, NEW f, Abreast(h, P, n, f)
  PROVE  Abreast(h, Q, n, f)
BY DEF Abreast, Below

LEMMA FineGrows ==
  ASSUME NEW c, NEW k, NEW P, NEW Q, P \subseteq Q, NEW n, NEW f, NEW row,
         Fine(c, k, P, n, f, row)
  PROVE  Fine(c, k, Q, n, f, row)
BY AbreastGrows DEF Fine, Led

LEMMA InOrderKept == ASSUME IInv, InOrder, Kept PROVE InOrder'
<1>1. SUFFICES ASSUME NEW r \in DOMAIN plans, NEW j \in 1..plans[r].stage - 1
               PROVE  \E q \in 1..r - 1 : Passed(j, q)'
  BY DEF InOrder, Kept
<1>2. PICK q \in 1..r - 1 : Passed(j, q)
  BY DEF InOrder
<1>3. DOMAIN plans = 1..Len(plans) /\ Len(plans) \in Nat
  BY DEF IInv, StoreInv, StoreTypes
<1>4. q \in DOMAIN plans /\ j \in Nat
  BY <1>3
<1> QED BY <1>2, <1>4, PassagesKept

(* A step of one call that writes no horizon. *)
LEMMA Quiet ==
  ASSUME IInv, SInv, Kept, UNCHANGED horizon, NEW c \in Callers, NEW m,
         Become(c, m), Fine(c, m, Passages, Latest, Front, horizon.stage)
  PROVE  SInv'
<1>1. InOrder'
  BY InOrderKept DEF SInv
<1>2. Abreast(horizon', Passages', Latest', Front')
  BY PassagesKept, AbreastGrows DEF SInv
<1>3. ASSUME NEW d \in Callers
      PROVE  Fine(d, call'[d], Passages', Latest', Front', horizon'.stage)
  <2>1. Fine(d, call'[d], Passages, Latest, Front, horizon.stage)
    <3>1. CASE d = c
      BY <3>1 DEF Become, IInv
    <3>2. CASE d # c
      BY <3>2 DEF Become, IInv, SInv
    <3> QED BY <3>1, <3>2
  <2> QED BY <2>1, PassagesKept, FineGrows
<1> QED BY <1>1, <1>2, <1>3 DEF SInv

(* Only one call drives, only one other call is anywhere. *)
LEMMA Drives ==
  ASSUME SInv, NEW c \in Callers, call[c].at \notin UserAt
  PROVE  c \in Drivers
BY DEF SInv, Fine, Follows

(* What the next record of a call may be. *)
LEMMA Frees ==
  ASSUME SInv, NEW c \in Callers, NEW m, ~Holds(m),
         m.at \in {"idle", "load_horizon"} \cup Approving,
         m.at = "load_horizon" /\ c \notin Drivers => m.op # "Advance",
         c \in Drivers \cup Users \/ m.at = "idle"
  PROVE  Fine(c, m, Passages, Latest, Front, horizon.stage)
BY DEF Fine, Led, Follows, UserAt, Holds, Staged, Approving

LEMMA Carries ==
  ASSUME IInv, SInv, NEW c \in Callers, Holds(call[c]), NEW m,
         m.my.stage = call[c].my.stage,
         m.my.processed \in {call[c].my.processed, Latest},
         m.at \in Copying \ {"load_steps", "assess"},
         m.at \in Staged => m.rev = Latest,
         c \in Drivers \/ m.at \in Resting
  PROVE  Fine(c, m, Passages, Latest, Front, horizon.stage)
<1>1. Fine(c, call[c], Passages, Latest, Front, horizon.stage)
  BY DEF SInv
<1>2. Abreast(call[c].my, Passages, Latest, Front)
  BY <1>1 DEF Fine
<1>3. Abreast(m.my, Passages, Latest, Front)
  BY <1>2 DEF Abreast, Below, Ahead
<1>4. CASE c \in Drivers
  BY <1>1, <1>3, <1>4 DEF Fine, Led, Copying
<1>5. CASE c \notin Drivers
  <2>1. c \in Users
    BY <1>1, <1>5 DEF Fine, Follows, Holds, Copying
  <2> QED BY <1>1, <1>3, <1>5, <2>1
          DEF Fine, Follows, UserAt, Holds, Resting, Copying, Approving
<1> QED BY <1>4, <1>5

LEMMA ReadsRow ==
  ASSUME IInv, SInv, NEW c \in Callers, call[c].at # "idle", NEW m,
         m.my.stage = horizon.stage, m.my.processed = horizon.processed,
         m.at \in Copying \ Staged,
         c \in Drivers \/ m.at \in Resting
  PROVE  Fine(c, m, Passages, Latest, Front, horizon.stage)
<1>1. Fine(c, call[c], Passages, Latest, Front, horizon.stage)
  BY DEF SInv
<1>2. Abreast(m.my, Passages, Latest, Front)
  BY DEF SInv, Abreast, Below, Ahead
<1>3. horizon.stage \in Nat
  BY RowGood DEF Horizon
<1>4. CASE c \in Drivers
  BY <1>1, <1>2, <1>3, <1>4 DEF Fine, Led, Copying, Staged
<1>5. CASE c \notin Drivers
  <2>1. c \in Users
    BY <1>1, <1>5 DEF Fine
  <2> QED BY <1>1, <1>2, <1>3, <1>5, <2>1
          DEF Fine, Follows, UserAt, Holds, Resting, Copying, Approving
<1> QED BY <1>4, <1>5

LEMMA Ends ==
  ASSUME IInv, SInv, NEW c \in Callers, Return(c) \/ Abort(c),
         Kept, UNCHANGED horizon
  PROVE  SInv'
<1> DEFINE e == [Idle EXCEPT !.op = "ERROR"]
<1>1. /\ Idle.at = "idle" /\ ~Holds(Idle) /\ e.at = "idle" /\ ~Holds(e)
  BY DEF Idle, Holds, Copying
<1>2. Become(c, Idle) \/ Become(c, e)
  BY DEF Return, Abort
<1> HIDE DEF e
<1> QED BY <1>1, <1>2, Frees, Quiet

LEMMA KeptLocal == ASSUME UNCHANGED <<plans, steps>> PROVE Kept
BY DEF Kept

LEMMA CallOrders ==
  ASSUME IInv, SInv, NEW c \in Callers, NEW o \in Operations, Call(c, o)
  PROVE  SInv'
<1> DEFINE l == IF o \in Approvals THEN "load_waiting" ELSE "load_horizon"
           m == [Idle EXCEPT !.op = o, !.item = status, !.at = l]
<1>1. /\ Become(c, m) /\ UNCHANGED <<plans, steps, horizon>>
      /\ c \in IF o = "Advance" THEN Drivers ELSE Users
  BY DEF Call, store
<1>2. l \in {"load_waiting", "load_horizon"}
  OBVIOUS
<1> HIDE DEF l
<1>3. m.at = l /\ m.op = o
  BY DEF Idle
<1> HIDE DEF m
<1>4. ~Holds(m) /\ m.at \in {"idle", "load_horizon"} \cup Approving
  BY <1>2, <1>3 DEF Holds, Copying, Approving
<1>5. Fine(c, m, Passages, Latest, Front, horizon.stage)
  BY <1>1, <1>3, <1>4, Frees
<1> QED BY <1>1, <1>5, KeptLocal, Quiet

LEMMA SaveFits ==
  ASSUME IInv, NEW c \in Callers, NEW h \in Horizon, ToSave(c, h)
  PROVE  \E m : Become(c, m) /\ m.at = "save" /\ m.my = h
<1> DEFINE m == [Idle EXCEPT !.my = h, !.at = "save"]
<1>1. Fits(Idle, 0, {})
  BY IdleSound
<1>2. m.at = "save" /\ m.my = h
  BY <1>1 DEF Fits
<1> QED BY <1>2 DEF ToSave

(* to save a copy that differs from the row, or the call's own, in neither  *)
(* the stage nor, but for the latest plan being closed, in processed        *)
LEMMA SavesRow ==
  ASSUME IInv, SInv, NEW c \in Callers, call[c].at # "idle",
         NEW h \in Horizon, h.stage = horizon.stage,
         h.processed = horizon.processed, ToSave(c, h),
         UNCHANGED <<plans, steps, horizon>>
  PROVE  SInv'
<1>1. PICK m : Become(c, m) /\ m.at = "save" /\ m.my = h
  BY SaveFits
<1>2. Fine(c, m, Passages, Latest, Front, horizon.stage)
  BY <1>1, ReadsRow DEF Copying, Staged, Resting
<1> QED BY <1>1, <1>2, KeptLocal, Quiet

LEMMA SavesOwn ==
  ASSUME IInv, SInv, NEW c \in Callers, Holds(call[c]),
         NEW h \in Horizon, h.stage = call[c].my.stage,
         h.processed \in {call[c].my.processed, Latest}, ToSave(c, h),
         Kept, UNCHANGED horizon
  PROVE  SInv'
<1>1. PICK m : Become(c, m) /\ m.at = "save" /\ m.my = h
  BY SaveFits
<1>2. Fine(c, m, Passages, Latest, Front, horizon.stage)
  BY <1>1, Carries DEF Copying, Staged, Resting
<1> QED BY <1>1, <1>2, Quiet

(* a call goes on with its copy and nothing else *)
LEMMA GoesOn ==
  ASSUME IInv, SInv, NEW c \in Callers, Holds(call[c]), NEW l \in Label,
         To(c, l), l \in Copying \ {"load_steps", "assess"},
         l \in Staged => call[c].rev = Latest,
         c \in Drivers \/ l \in Resting,
         Kept, UNCHANGED horizon
  PROVE  SInv'
<1>1. PICK m : Become(c, m) /\ Going(m, c, l)
  BY ToFits
<1>2. Fine(c, m, Passages, Latest, Front, horizon.stage)
  BY <1>1, Carries DEF Going
<1> QED BY <1>1, <1>2, Quiet

LEMMA RevLatest ==
  ASSUME SInv, NEW c \in Callers, call[c].at \in Staged
  PROVE  c \in Drivers /\ call[c].rev = Latest /\ Holds(call[c])
<1>1. call[c].at \notin UserAt /\ Holds(call[c])
  BY DEF Staged, UserAt, Resting, Approving, Holds, Copying
<1> QED BY <1>1, Drives DEF SInv, Fine, Led

----
LEMMA AdvanceOrders ==
  ASSUME IInv, SInv, NEW c \in Callers,
         \/ AdvanceOver(c) \/ AdvanceResolved(c) \/ AdvanceWaits(c)
         \/ AdvanceWorks(c)
  PROVE  SInv'
<1>1. /\ call[c].at = "load_horizon" /\ call[c].op = "Advance"
      /\ UNCHANGED <<plans, steps, horizon>> /\ c \in Drivers
      /\ horizon \in Horizon
  BY RowGood
  DEF AdvanceOver, AdvanceResolved, AdvanceWaits, AdvanceWorks, Reading,
      store, SInv, Fine, Follows
<1>2. \/ Return(c)
      \/ Hold(c, [horizon EXCEPT !.status = "ACTIVE"], "resolve")
      \/ \E w \in {"PAUSED", "WAITING"} :
           ToSave(c, [horizon EXCEPT !.status = w])
      \/ Hold(c, horizon, "load_plan")
  BY DEF AdvanceOver, AdvanceResolved, AdvanceWaits, AdvanceWorks
<1>3. CASE Return(c)
  BY <1>1, <1>3, KeptLocal, Ends
<1>4. ASSUME NEW w \in {"PAUSED", "WAITING"},
             ToSave(c, [horizon EXCEPT !.status = w])
      PROVE  SInv'
  <2> DEFINE h == [horizon EXCEPT !.status = w]
  <2>1. /\ h \in Horizon /\ h.stage = horizon.stage
        /\ h.processed = horizon.processed /\ ToSave(c, h)
    BY <1>1, <1>4 DEF Horizon, HorizonStatus
  <2> HIDE DEF h
  <2> QED BY <1>1, <2>1, SavesRow
<1>5. ASSUME NEW h \in Horizon, h.stage = horizon.stage,
             h.processed = horizon.processed, NEW l \in {"resolve", "load_plan"},
             Hold(c, h, l)
      PROVE  SInv'
  <2>1. l \in Label /\ l \in Copying \ Staged
    BY DEF Label, Copying, Staged
  <2>2. PICK m : Become(c, m) /\ m.at = l /\ m.my = h
    BY <1>5, <2>1, HoldFits
  <2>3. Fine(c, m, Passages, Latest, Front, horizon.stage)
    BY <1>1, <1>5, <2>1, <2>2, ReadsRow
  <2> QED BY <1>1, <2>2, <2>3, KeptLocal, Quiet
<1>6. /\ [horizon EXCEPT !.status = "ACTIVE"] \in Horizon
      /\ [horizon EXCEPT !.status = "ACTIVE"].stage = horizon.stage
      /\ [horizon EXCEPT !.status = "ACTIVE"].processed = horizon.processed
  BY <1>1 DEF Horizon, HorizonStatus
<1> QED BY <1>1, <1>2, <1>3, <1>4, <1>5, <1>6

(* The task is written, and then the copy saved. *)
LEMMA WriteOrders ==
  ASSUME IInv, SInv, NEW c \in Callers,
         \/ TryTask(c) \/ Park(c) \/ AutoReady(c) \/ PauseTask(c)
         \/ CancelTask(c) \/ ResumeTask(c)
  PROVE  SInv'
<1>1. /\ Holds(call[c]) /\ call[c].my \in Horizon
      /\ UNCHANGED <<plans, steps, horizon>>
  BY Copies
  DEF TryTask, Park, AutoReady, PauseTask, CancelTask, ResumeTask, Copying,
      Holds
<1>2. PICK h \in {call[c].my, [call[c].my EXCEPT !.status = "ACTIVE"],
                  Resumed(call[c].my)} : ToSave(c, h)
  BY DEF TryTask, Park, AutoReady, PauseTask, CancelTask, ResumeTask
<1>3. /\ h \in Horizon /\ h.stage = call[c].my.stage
      /\ h.processed = call[c].my.processed
  BY <1>1, <1>2 DEF Resumed, Horizon, HorizonStatus
<1> QED BY <1>1, <1>2, <1>3, KeptLocal, SavesOwn

LEMMA BlockOrders ==
  ASSUME IInv, SInv, NEW c \in Drivers, NEW h \in Horizon, Holds(call[c]),
         h.stage = call[c].my.stage,
         h.processed \in {call[c].my.processed, Latest}, NEW target,
         Block(c, h, target), UNCHANGED <<plans, steps, horizon>>
  PROVE  SInv'
<1> DEFINE b == [h EXCEPT !.status = "BLOCKED"]
           m == [call[c] EXCEPT !.at = "try_task", !.my = b, !.to = target]
<1>1. /\ b \in Horizon /\ b.stage = h.stage /\ b.processed = h.processed
      /\ ToSave(c, b) \/ Become(c, m)
      /\ c \in Callers
  BY OperationsKnown DEF Block, Horizon, HorizonStatus
<1> HIDE DEF b
<1>2. m.at = "try_task" /\ m.my = b
  BY <1>1, CallFits, OperationsKnown DEF Fits
<1> HIDE DEF m
<1>3. CASE Become(c, m)
  <2>1. Fine(c, m, Passages, Latest, Front, horizon.stage)
    BY <1>1, <1>2, Carries, OperationsKnown DEF Copying, Staged
  <2> QED BY <1>3, <2>1, KeptLocal, Quiet, OperationsKnown
<1> QED BY <1>1, <1>3, KeptLocal, SavesOwn, OperationsKnown

LEMMA LoadOrders ==
  ASSUME IInv, SInv, NEW c \in Callers, LoadPlan(c)
  PROVE  SInv'
<1>1. /\ Holds(call[c]) /\ call[c].my \in Horizon /\ c \in Drivers
      /\ UNCHANGED <<plans, steps, horizon>>
  BY Copies, Drives
  DEF LoadPlan, Copying, Holds, UserAt, Resting, Approving, store
<1>2. CASE OutOfBudget(c, call[c].my)
  BY <1>1, <1>2, BlockOrders DEF OutOfBudget
<1>3. CASE GoOn(c)
  <2>1. PICK l \in {"load_steps", "plan"} :
          /\ Become(c, [call[c] EXCEPT !.rev = Latest, !.at = l])
          /\ l = "load_steps" => Open(Latest, call[c].my)
    BY <1>3 DEF GoOn
  <2> DEFINE m == [call[c] EXCEPT !.rev = Latest, !.at = l]
  <2>2. Become(c, m)
    BY <2>1
  <2>3. m.at = l /\ m.my = call[c].my /\ m.rev = Latest /\ m.op = call[c].op
    BY CallFits DEF Fits
  <2> HIDE DEF m
  <2>4. Fine(c, m, Passages, Latest, Front, horizon.stage)
    <3>1. CASE l = "plan"
      BY <1>1, <2>3, <3>1, Carries DEF Copying
    <3>2. CASE l = "load_steps"
      <4>1. Fine(c, call[c], Passages, Latest, Front, horizon.stage)
        BY DEF SInv
      <4>2. Front >= call[c].my.stage
        BY <1>1, <2>1, <3>2, <4>1 DEF Fine, Abreast, Ahead, Open, Front
      <4> QED BY <1>1, <2>3, <3>2, <4>1, <4>2 DEF Fine, Led
    <3> QED BY <3>1, <3>2
  <2> QED BY <1>1, <2>2, <2>4, KeptLocal, Quiet
<1> QED BY <1>2, <1>3 DEF LoadPlan

LEMMA FailOrders ==
  ASSUME IInv, SInv, NEW c \in Callers,
         \/ ModelFails(c) \/ RunFails(c) \/ LoadSteps(c)
  PROVE  SInv'
<1>1. call[c].at \in Staged /\ UNCHANGED <<plans, steps, horizon>>
  BY DEF ModelFails, RunFails, Lost, LoadSteps, Staged, store
<1>2. PICK l \in {"fail", "run"} : To(c, l)
  BY DEF ModelFails, RunFails, LoadSteps
<1>3. l \in Label /\ l \in Copying \ {"load_steps", "assess"}
  BY DEF Label, Copying
<1> QED BY <1>1, <1>2, <1>3, RevLatest, KeptLocal, GoesOn

LEMMA CloseFailedOrders ==
  ASSUME IInv, SInv, NEW c \in Callers, CloseFailed(c)
  PROVE  SInv'
<1> DEFINE closed == [call[c].my EXCEPT !.processed = call[c].rev]
           h == MoreReplans(closed)
           active == [h EXCEPT !.status = "ACTIVE"]
<1>1. /\ call[c].at \in Staged /\ call[c].my \in Horizon
      /\ Good(call[c].my, status, answered)
      /\ call[c].rev \in Nat /\ UNCHANGED <<plans, steps, horizon>>
  BY Copies, RevNat DEF CloseFailed, Staged, Copying, store
<1>2. c \in Drivers /\ call[c].rev = Latest /\ Holds(call[c])
  BY <1>1, RevLatest
<1>3. \/ \E target : Block(c, h, target)
      \/ ToSave(c, active)
  BY DEF CloseFailed
<1>4. closed \in Horizon /\ Good(closed, status, answered)
      /\ closed.stage = call[c].my.stage /\ closed.processed = Latest
  BY <1>1, <1>2 DEF Horizon, Good
<1> HIDE DEF closed
<1>5. h \in Horizon /\ h.stage = call[c].my.stage /\ h.processed = Latest
  BY <1>4, MoreReplansGood
<1> HIDE DEF h
<1>6. active \in Horizon /\ active.stage = h.stage
      /\ active.processed = h.processed
  BY <1>5 DEF Horizon, HorizonStatus
<1> HIDE DEF active
<1>7. CASE ToSave(c, active)
  BY <1>1, <1>2, <1>5, <1>6, <1>7, KeptLocal, SavesOwn
<1>8. ASSUME NEW target, Block(c, h, target) PROVE SInv'
  BY <1>1, <1>2, <1>5, <1>8, BlockOrders
<1> QED BY <1>3, <1>7, <1>8

(* The segment that is closed as complete is one of the copy's stage, or of *)
(* a later one, and then the copy's stage was passed before.                *)
LEMMA CloseCompletedOrders ==
  ASSUME IInv, SInv, NEW c \in Callers, CloseCompleted(c)
  PROVE  SInv'
<1> DEFINE my == call[c].my
           h == [my EXCEPT !.processed = call[c].rev]
<1>1. /\ call[c].at \in Staged /\ my \in Horizon
      /\ call[c].rev \in Nat /\ UNCHANGED <<plans, steps, horizon>>
  BY Copies, RevNat DEF CloseCompleted, Staged, Copying, store
<1>2. c \in Drivers /\ call[c].rev = Latest /\ Holds(call[c])
  BY <1>1, RevLatest
<1>3. /\ h \in Horizon /\ h.stage = my.stage /\ h.processed = Latest
  BY <1>1, <1>2 DEF Horizon
<1>4. \/ ToSave(c, h)
      \/ Hold(c, h, "assess") /\ plans[call[c].rev].terminal
         /\ Completed(call[c].rev)
  BY DEF CloseCompleted
<1> HIDE DEF h
<1>5. CASE ToSave(c, h)
  BY <1>1, <1>2, <1>3, <1>5, KeptLocal, SavesOwn
<1>6. CASE Hold(c, h, "assess") /\ plans[call[c].rev].terminal
           /\ Completed(call[c].rev)
  <2>1. "assess" \in Label
    BY DEF Label
  <2>2. PICK m : /\ Become(c, m) /\ m.at = "assess" /\ m.my = h
                 /\ m.op = call[c].op /\ m.rev = call[c].rev
    BY <1>3, <1>6, <2>1, HoldFits
  <2>3. Fine(c, call[c], Passages, Latest, Front, horizon.stage)
        /\ call[c].at = "load_steps"
    BY DEF SInv, CloseCompleted
  <2>4. my.stage \in Passages
    <3>1. Front >= my.stage /\ my.stage \in Nat \ {0}
      BY <1>1, <1>2, <2>3 DEF Fine, Led, Horizon
    <3>2. /\ plans \in Seq(Plan) /\ DOMAIN plans = 1..Latest
          /\ Latest \in Nat /\ Latest \in DOMAIN plans
      BY EmptySeq DEF IInv, StoreInv, StoreTypes, Latest
    <3>3. Front \in Nat
      BY <3>2 DEF Front, Plan
    <3>4. CASE Front = my.stage
      <4>1. Passed(my.stage, Latest)
        BY <1>2, <1>6, <3>4 DEF Passed, Completed, Front
      <4> QED BY <3>1, <3>2, <4>1 DEF Passages
    <3>5. CASE Front > my.stage
      <4>1. PICK q \in 1..Latest - 1 : Passed(my.stage, q)
        <5>1. my.stage \in 1..Front - 1
          BY <3>1, <3>3, <3>5
        <5> HIDE DEF my
        <5> QED BY <3>2, <5>1 DEF SInv, InOrder, Front
      <4> QED BY <3>1, <3>2, <4>1 DEF Passages
    <3> QED BY <3>1, <3>3, <3>4, <3>5
  <2> HIDE DEF my
  <2>5. Fine(c, m, Passages, Latest, Front, horizon.stage)
    <3>1. Abreast(h, Passages, Latest, Front)
      BY <1>2, <1>3, <2>3 DEF Fine, Abreast, Below, Ahead, my
    <3>2. Led(m, Passages, Latest, Front, horizon.stage)
      BY <1>2, <1>3, <2>2, <2>3, <2>4 DEF Fine, Led, my
    <3> QED BY <1>2, <2>2, <3>1, <3>2 DEF Fine
  <2> QED BY <1>1, <2>2, <2>5, KeptLocal, Quiet
<1> QED BY <1>4, <1>5, <1>6

LEMMA AssessOrders ==
  ASSUME IInv, SInv, NEW c \in Callers, Assess(c)
  PROVE  SInv'
<1> DEFINE my == call[c].my
           h == [my EXCEPT !.stage = @ + 1]
           waiting == [h EXCEPT !.status = "WAITING", !.awaiting = TRUE]
<1>1. /\ call[c].at = "assess" /\ call[c].at \in Staged /\ my \in Horizon
      /\ UNCHANGED <<plans, steps, horizon>>
  BY Copies DEF Assess, Staged, Copying, store
<1>2. c \in Drivers /\ call[c].rev = Latest /\ Holds(call[c])
  BY <1>1, RevLatest
<1>3. /\ my.processed = Latest /\ my.stage \in Passages
      /\ Below(my, Passages) /\ horizon.stage <= my.stage
      /\ horizon.stage \in Nat
  BY <1>1, <1>2, RowGood DEF SInv, Fine, Led, Abreast, Horizon
<1>4. /\ h \in Horizon /\ h.stage = my.stage + 1 /\ h.processed = Latest
      /\ my.stage \in Nat \ {0}
  BY <1>1, <1>3 DEF Horizon
<1>5. \/ Hold(c, h, "verify") /\ h.stage > Len(Stages)
      \/ ToSave(c, h) \/ ToSave(c, waiting) \/ Hold(c, waiting, "park")
  BY DEF Assess
<1> HIDE DEF h
<1>6. /\ waiting \in Horizon /\ waiting.stage = h.stage
      /\ waiting.processed = h.processed
  BY <1>4 DEF Horizon, HorizonStatus
<1> HIDE DEF waiting
<1>7. ASSUME NEW m, NEW g \in {h, waiting}, m.my = g, Become(c, m),
             m.at \in {"save", "park", "verify"},
             m.at = "verify" => h.stage > Len(Stages)
      PROVE  SInv'
  <2>1. g.stage = my.stage + 1 /\ g.processed = Latest
    BY <1>4, <1>6
  <2>2. Below(g, Passages)
    BY <1>3, <1>4, <2>1 DEF Below
  <2>3. Abreast(m.my, Passages, Latest, Front)
    BY <1>7, <2>1, <2>2 DEF Abreast, Ahead
  <2>4. horizon.stage <= m.my.stage
    BY <1>3, <1>4, <1>7, <2>1
  <2>5. Fine(c, m, Passages, Latest, Front, horizon.stage)
    BY <1>2, <1>4, <1>6, <1>7, <2>3, <2>4 DEF Fine, Led, Staged
  <2> QED BY <1>1, <1>7, <2>5, KeptLocal, Quiet
<1>8. CASE ToSave(c, h)
  <2>1. PICK m : Become(c, m) /\ m.at = "save" /\ m.my = h
    BY <1>4, <1>8, SaveFits
  <2> QED BY <1>7, <2>1
<1>9. CASE ToSave(c, waiting)
  <2>1. PICK m : Become(c, m) /\ m.at = "save" /\ m.my = waiting
    BY <1>6, <1>9, SaveFits
  <2> QED BY <1>7, <2>1
<1>10. CASE Hold(c, h, "verify") /\ h.stage > Len(Stages)
  <2>1. "verify" \in Label
    BY DEF Label
  <2>2. PICK m : Become(c, m) /\ m.at = "verify" /\ m.my = h
    BY <1>4, <1>10, <2>1, HoldFits
  <2> QED BY <1>7, <1>10, <2>2
<1>11. CASE Hold(c, waiting, "park")
  <2>1. "park" \in Label
    BY DEF Label
  <2>2. PICK m : Become(c, m) /\ m.at = "park" /\ m.my = waiting
    BY <1>6, <1>11, <2>1, HoldFits
  <2> QED BY <1>7, <2>2
<1> QED BY <1>5, <1>8, <1>9, <1>10, <1>11

LEMMA VerifyOrders ==
  ASSUME IInv, SInv, NEW c \in Callers, MoveToVerifying(c) \/ Decide(c)
  PROVE  SInv'
<1>1. UNCHANGED <<plans, steps, horizon>> /\ call[c].at \in {"verify", "decide"}
  BY DEF MoveToVerifying, Decide
<1>2. Fine(c, call[c], Passages, Latest, Front, horizon.stage)
  BY DEF SInv
<1>3. CASE MoveToVerifying(c)
  <2>1. "decide" \in Label
    BY DEF Label
  <2>2. PICK m : Become(c, m) /\ Going(m, c, "decide")
    BY <1>3, <2>1, ToFits DEF MoveToVerifying
  <2>3. Holds(m) <=> Holds(call[c])
    BY <1>1, <2>2 DEF Going, Holds, Copying
  <2>4. Fine(c, m, Passages, Latest, Front, horizon.stage)
    BY <1>1, <1>2, <2>2, <2>3
    DEF Going, Fine, Led, Follows, Staged, UserAt, Approving
  <2> QED BY <1>1, <2>2, <2>4, KeptLocal, Quiet
<1>4. CASE Decide(c)
  <2>1. CASE Return(c)
    BY <1>1, <2>1, KeptLocal, Ends
  <2>2. CASE call[c].op # "ApproveWrite"
    <3>1. PICK s \in {"COMPLETED", "BLOCKED"} :
            ToSave(c, [call[c].my EXCEPT !.status = s])
      BY <1>4, <2>2 DEF Decide
    <3> DEFINE h == [call[c].my EXCEPT !.status = s]
    <3>2. Holds(call[c]) /\ call[c].my \in Horizon
      BY <1>1, <2>2, Held DEF Holds
    <3>3. /\ h \in Horizon /\ h.stage = call[c].my.stage
          /\ h.processed = call[c].my.processed /\ ToSave(c, h)
      BY <3>1, <3>2 DEF Horizon, HorizonStatus
    <3> HIDE DEF h
    <3> QED BY <1>1, <3>2, <3>3, KeptLocal, SavesOwn
  <2> QED BY <1>4, <2>1, <2>2 DEF Decide
<1> QED BY <1>3, <1>4

----
(* a call that becomes m, which has the same copy and plan *)
LEMMA StagedOrders ==
  ASSUME IInv, SInv, NEW c \in Callers, call[c].at \in Staged,
         NEW m, Become(c, m), m.my = call[c].my, m.rev = call[c].rev,
         m.at \in Copying \ {"load_steps", "assess"},
         Kept, UNCHANGED horizon
  PROVE  SInv'
<1>1. Fine(c, m, Passages, Latest, Front, horizon.stage)
  BY RevLatest, Carries
<1> QED BY <1>1, Quiet

LEMMA RunOrders ==
  ASSUME IInv, SInv, NEW c \in Callers,
         Run(c) \/ Execute(c) \/ ExecuteFails(c)
  PROVE  SInv'
<1>1. /\ call[c].at \in Staged /\ UNCHANGED <<plans, steps, horizon>>
      /\ Fits(call[c], Latest, DOMAIN steps)
  BY CallFits DEF Run, Execute, ExecuteFails, Staged, store
<1>2. CASE Run(c)
  <2>1. PICK s \in Ready(Latest), l \in {"start", "claim"} :
          Become(c, [call[c] EXCEPT !.step = s, !.item = NONE, !.at = l])
    BY <1>2 DEF Run
  <2> DEFINE m == [call[c] EXCEPT !.step = s, !.item = NONE, !.at = l]
  <2>2. Become(c, m)
    BY <2>1
  <2>3. /\ m.my = call[c].my /\ m.rev = call[c].rev
        /\ m.at \in {"start", "claim"}
    BY <1>1 DEF Fits
  <2> HIDE DEF m
  <2>4. m.at \in Copying \ {"load_steps", "assess"}
    BY <2>3 DEF Copying
  <2> QED BY <1>1, <2>2, <2>3, <2>4, KeptLocal, StagedOrders
<1>3. CASE Execute(c)
  <2>1. PICK outcome :
          Become(c, [call[c] EXCEPT !.to = outcome, !.at = "settle"])
    BY <1>3 DEF Execute
  <2> DEFINE m == [call[c] EXCEPT !.to = outcome, !.at = "settle"]
  <2>2. Become(c, m)
    BY <2>1
  <2>3. /\ m.my = call[c].my /\ m.rev = call[c].rev
        /\ m.at \in {"settle"}
    BY <1>1 DEF Fits
  <2> HIDE DEF m
  <2>4. m.at \in Copying \ {"load_steps", "assess"}
    BY <2>3 DEF Copying
  <2> QED BY <1>1, <2>2, <2>3, <2>4, KeptLocal, StagedOrders
<1>4. CASE ExecuteFails(c)
  <2>1. PICK e \in BOOLEAN :
          Become(c, [call[c] EXCEPT !.exhausted = e, !.at = "drop_step"])
    BY <1>4 DEF ExecuteFails
  <2> DEFINE m == [call[c] EXCEPT !.exhausted = e, !.at = "drop_step"]
  <2>2. Become(c, m)
    BY <2>1
  <2>3. /\ m.my = call[c].my /\ m.rev = call[c].rev
        /\ m.at \in {"drop_step"}
    BY <1>1 DEF Fits
  <2> HIDE DEF m
  <2>4. m.at \in Copying \ {"load_steps", "assess"}
    BY <2>3 DEF Copying
  <2> QED BY <1>1, <2>2, <2>3, <2>4, KeptLocal, StagedOrders
<1> QED BY <1>2, <1>3, <1>4

LEMMA StepOrders ==
  ASSUME IInv, SInv, NEW c \in Callers,
         \/ StartTask(c) \/ SettleTask(c) \/ DropTask(c)
         \/ ClaimStep(c) \/ SettleStep(c) \/ DropStep(c)
  PROVE  SInv'
<1>1. call[c].at \in Staged /\ UNCHANGED horizon
  BY DEF StartTask, SettleTask, DropTask, ClaimStep, SettleStep, DropStep, Staged
<1>2. Kept
  BY DEF StartTask, SettleTask, DropTask, ClaimStep, SettleStep, DropStep,
         StepCAS, Kept
<1>3. PICK l \in {"claim", "record", "fail", "execute", "settle_task",
                  "drop_task"} : To(c, l)
  BY DEF StartTask, SettleTask, DropTask, ClaimStep, SettleStep, DropStep
<1>4. l \in Label /\ l \in Copying \ {"load_steps", "assess"}
  BY DEF Label, Copying
<1> QED BY <1>1, <1>2, <1>3, <1>4, RevLatest, GoesOn

(* a call that keeps a copy of the same stage, and what it has just read *)
LEMMA LeftOrders ==
  ASSUME IInv, SInv, NEW c \in Drivers, Holds(call[c]), NEW h \in Horizon,
         h.stage = call[c].my.stage,
         h.processed \in {call[c].my.processed, Latest},
         NEW l \in {"try_task", "auto_pause", "auto_ready", "pause"},
         NEW m, m.at = l, m.my = h, Become(c, m),
         UNCHANGED <<plans, steps, horizon>>
  PROVE  SInv'
<1>1. Fine(c, m, Passages, Latest, Front, horizon.stage)
  BY Carries, OperationsKnown DEF Copying, Staged
<1> QED BY <1>1, KeptLocal, Quiet, OperationsKnown

LEMMA RecordOrders ==
  ASSUME IInv, SInv, NEW c \in Callers, Record(c)
  PROVE  SInv'
<1>1. /\ call[c].at \in Staged /\ call[c].my \in Horizon
      /\ Good(call[c].my, status, answered)
      /\ UNCHANGED <<plans, steps, horizon>>
  BY Copies DEF Record, Staged, Copying, store
<1>2. c \in Drivers /\ call[c].rev = Latest /\ Holds(call[c])
  BY <1>1, RevLatest
<1>3. PICK counted \in {[call[c].my EXCEPT !.idle = 0], MoreIdle(call[c].my)} :
        \E s \in HorizonStatus \cup {counted.status} :
          LET h == [counted EXCEPT !.status = s]
          IN  \/ ToSave(c, h)
              \/ Become(c, [Idle EXCEPT !.at = "try_task", !.my = h,
                                        !.item = status, !.to = "PAUSED"])
  <2>1. PICK listed \in BOOLEAN :
          LET counted == IF listed THEN [call[c].my EXCEPT !.idle = 0]
                                   ELSE MoreIdle(call[c].my)
              stuck == counted.idle >= 3
              h == [counted EXCEPT !.status =
                      CASE status = "COMPLETED" -> "COMPLETED"
                        [] status \in {"FAILED", "BLOCKED"} -> "BLOCKED"
                        [] OTHER -> IF stuck THEN "PAUSED" ELSE @]
          IN  IF stuck /\ status = "RUNNING"
              THEN Become(c, [Idle EXCEPT !.at = "try_task", !.my = h,
                                          !.item = status, !.to = "PAUSED"])
              ELSE ToSave(c, h)
    BY DEF Record
  <2> DEFINE counted == IF listed THEN [call[c].my EXCEPT !.idle = 0]
                                  ELSE MoreIdle(call[c].my)
             stuck == counted.idle >= 3
             s == CASE status = "COMPLETED" -> "COMPLETED"
                    [] status \in {"FAILED", "BLOCKED"} -> "BLOCKED"
                    [] OTHER -> IF stuck THEN "PAUSED" ELSE counted.status
             h == [counted EXCEPT !.status = s]
  <2>2. \/ ToSave(c, h)
        \/ Become(c, [Idle EXCEPT !.at = "try_task", !.my = h,
                                  !.item = status, !.to = "PAUSED"])
    BY <2>1
  <2>3. counted \in {[call[c].my EXCEPT !.idle = 0], MoreIdle(call[c].my)}
    OBVIOUS
  <2> HIDE DEF counted
  <2>4. s \in HorizonStatus \cup {counted.status}
    BY DEF HorizonStatus
  <2> HIDE DEF s
  <2> QED BY <2>2, <2>3, <2>4
<1>4. /\ counted \in Horizon /\ counted.stage = call[c].my.stage
      /\ counted.processed = call[c].my.processed
  <2>1. LET zero == [call[c].my EXCEPT !.idle = 0]
        IN  /\ zero \in Horizon /\ zero.stage = call[c].my.stage
            /\ zero.processed = call[c].my.processed
    BY <1>1 DEF Horizon
  <2>2. LET more == MoreIdle(call[c].my)
        IN  /\ more \in Horizon /\ more.stage = call[c].my.stage
            /\ more.processed = call[c].my.processed
    BY <1>1, MoreIdleGood
  <2> QED BY <2>1, <2>2
<1>5. PICK s \in HorizonStatus \cup {counted.status} :
        \/ ToSave(c, [counted EXCEPT !.status = s])
        \/ Become(c, [Idle EXCEPT !.at = "try_task",
                                  !.my = [counted EXCEPT !.status = s],
                                  !.item = status, !.to = "PAUSED"])
  BY <1>3
<1> DEFINE h == [counted EXCEPT !.status = s]
           m == [Idle EXCEPT !.at = "try_task", !.my = h, !.item = status,
                             !.to = "PAUSED"]
<1>6. /\ h \in Horizon /\ h.stage = call[c].my.stage
      /\ h.processed = call[c].my.processed
  BY <1>4 DEF Horizon, HorizonStatus
<1>7. ToSave(c, h) \/ Become(c, m)
  BY <1>5
<1> HIDE DEF h
<1>8. m.at = "try_task" /\ m.my = h
  BY DEF Idle
<1> HIDE DEF m
<1> QED BY <1>1, <1>2, <1>6, <1>7, <1>8, KeptLocal, SavesOwn, LeftOrders

LEMMA GiveUpOrders ==
  ASSUME IInv, SInv, NEW c \in Callers, Fail(c)
  PROVE  SInv'
<1> DEFINE more == MoreReplans(call[c].my)
           h == [more EXCEPT !.failure = TRUE,
                   !.status = "PAUSED", !.processed = call[c].rev]
           a == [h EXCEPT !.status = "ACTIVE"]
<1>1. /\ call[c].at \in Staged /\ call[c].my \in Horizon
      /\ Good(call[c].my, status, answered) /\ call[c].rev \in Nat
      /\ UNCHANGED <<plans, steps, horizon>>
  BY Copies, RevNat DEF Fail, Staged, Copying, store
<1>2. c \in Drivers /\ call[c].rev = Latest /\ Holds(call[c])
  BY <1>1, RevLatest
<1>3. \/ ToSave(c, a) \/ ToSave(c, h)
      \/ \E l \in {"auto_pause", "auto_ready", "pause"} : Left(c, h, l)
  BY DEF Fail, Left
<1>4. more \in Horizon /\ more.stage = call[c].my.stage
  BY <1>1, MoreReplansGood
<1> HIDE DEF more
<1>5. h \in Horizon /\ h.stage = call[c].my.stage /\ h.processed = Latest
  BY <1>1, <1>2, <1>4 DEF Horizon, HorizonStatus
<1> HIDE DEF h
<1>6. a \in Horizon /\ a.stage = call[c].my.stage /\ a.processed = Latest
  BY <1>5 DEF Horizon, HorizonStatus
<1> HIDE DEF a
<1>7. ASSUME NEW l \in {"auto_pause", "auto_ready", "pause"}, Left(c, h, l)
      PROVE  SInv'
  <2> DEFINE m == [Idle EXCEPT !.at = l, !.my = h, !.item = status]
  <2>1. m.at = l /\ m.my = h
    BY DEF Idle
  <2>2. Become(c, m)
    BY <1>7 DEF Left
  <2> HIDE DEF m
  <2> QED BY <1>1, <1>2, <1>5, <2>1, <2>2, LeftOrders
<1> QED BY <1>1, <1>2, <1>3, <1>5, <1>6, <1>7, KeptLocal, SavesOwn

LEMMA AutoPauseOrders ==
  ASSUME IInv, SInv, NEW c \in Callers, AutoPause(c)
  PROVE  SInv'
<1>1. /\ call[c].at = "auto_pause" /\ UNCHANGED <<plans, steps, horizon>>
      /\ To(c, "auto_ready") /\ Holds(call[c]) /\ c \in Drivers
  BY Drives DEF AutoPause, Holds, Copying, UserAt, Resting, Approving
<1>2. "auto_ready" \in Label /\ "auto_ready" \in Copying \ Staged
  BY DEF Label, Copying, Staged
<1> QED BY <1>1, <1>2, KeptLocal, GoesOn DEF Staged

(* A copy becomes the row.  The driver's is at no earlier stage than the   *)
(* row was; the user's at no later one, and so is the driver's still.      *)
LEMMA RowOrders ==
  ASSUME IInv, SInv, OneOfEach, NEW c \in Callers, Resolve(c) \/ Save(c)
  PROVE  SInv'
<1>1. /\ Holds(call[c]) /\ horizon' = call[c].my /\ call[c].my \in Horizon
      /\ UNCHANGED <<plans, steps>> /\ horizon \in Horizon
      /\ call[c].at \in {"resolve", "save"}
  BY Copies, RowGood DEF Resolve, Save, Copying, Holds
<1>2. Kept
  BY <1>1, KeptLocal
<1>3. Fine(c, call[c], Passages, Latest, Front, horizon.stage)
  BY DEF SInv
<1>4. Abreast(horizon', Passages, Latest, Front)
  BY <1>1, <1>3 DEF Fine
<1>5. horizon.stage \in Nat /\ horizon'.stage \in Nat
  BY <1>1 DEF Horizon
<1>6. /\ c \in Drivers => horizon.stage <= horizon'.stage
      /\ c \notin Drivers => horizon'.stage <= horizon.stage /\ c \in Users
  BY <1>1, <1>3 DEF Fine, Led, Follows
<1>7. PICK m : /\ Become(c, m)
               /\ \/ m.at = "idle"
                  \/ m.at = "load_plan" /\ m.my = call[c].my /\ c \in Drivers
  <2>1. CASE Resolve(c)
    <3>1. "load_plan" \in Label
      BY DEF Label
    <3>2. PICK m : Become(c, m) /\ Going(m, c, "load_plan")
      BY <2>1, <3>1, ToFits DEF Resolve
    <3>3. c \in Drivers
      BY <2>1, Drives DEF Resolve, UserAt, Resting, Approving
    <3> QED BY <3>2, <3>3 DEF Going
  <2>2. CASE Save(c)
    BY <2>2 DEF Save, Return, Idle
  <2> QED BY <2>1, <2>2
<1>8. ASSUME NEW d \in Callers
      PROVE  Fine(d, call'[d], Passages, Latest, Front, horizon'.stage)
  <2>1. CASE d = c
    <3>1. call'[d] = m
      BY <1>7, <2>1 DEF Become, IInv
    <3>2. CASE m.at = "idle"
      BY <3>1, <3>2
      DEF Fine, Led, Follows, Holds, Copying, Staged, UserAt
    <3>3. CASE m.at = "load_plan"
      BY <1>1, <1>4, <1>5, <1>7, <2>1, <3>1, <3>3
      DEF Fine, Led, Holds, Copying, Staged
    <3> QED BY <1>7, <3>1, <3>2, <3>3
  <2>2. CASE d # c
    <3>1. /\ call'[d] = call[d]
          /\ Fine(d, call[d], Passages, Latest, Front, horizon.stage)
      BY <1>7, <2>2 DEF Become, IInv, SInv
    <3>2. Holds(call[d]) => call[d].my.stage \in Nat
      BY Held DEF Horizon
    <3>3. CASE d \in Drivers
      <4>1. horizon'.stage <= horizon.stage
        BY <1>6, <2>2, <3>3 DEF OneOfEach
      <4> QED BY <1>5, <3>1, <3>2, <3>3, <4>1 DEF Fine, Led
    <3>4. CASE d \notin Drivers /\ c \in Drivers
      <4>1. horizon.stage <= horizon'.stage
        BY <1>6, <3>4
      <4> QED BY <1>5, <3>1, <3>2, <3>4, <4>1 DEF Fine, Follows
    <3>5. CASE d \notin Drivers /\ c \notin Drivers
      <4>1. call[d].at = "idle"
        BY <1>6, <2>2, <3>1, <3>5 DEF OneOfEach, Fine
      <4> QED BY <3>1, <3>5, <4>1 DEF Fine, Follows, Holds, Copying
    <3> QED BY <3>3, <3>4, <3>5
  <2> QED BY <2>1, <2>2
<1>9. Abreast(horizon', Passages', Latest', Front') /\ InOrder'
  BY <1>2, <1>4, PassagesKept, AbreastGrows, InOrderKept DEF SInv
<1>10. ASSUME NEW d \in Callers
       PROVE  Fine(d, call'[d], Passages', Latest', Front', horizon'.stage)
  BY <1>2, <1>8, PassagesKept, FineGrows
<1> QED BY <1>9, <1>10 DEF SInv

LEMMA ReadOrders ==
  ASSUME IInv, SInv, NEW c \in Callers, ResumeReads(c) \/ CancelReads(c)
  PROVE  SInv'
<1>1. /\ call[c].at = "load_horizon" /\ horizon \in Horizon
      /\ UNCHANGED <<plans, steps, horizon>>
  BY RowGood DEF ResumeReads, CancelReads, Reading, store
<1>2. PICK h \in {horizon, Resumed(horizon),
                  [horizon EXCEPT !.status = "CANCELLED"]} :
        \/ ToSave(c, h)
        \/ \E l \in {"resume_plan", "resume_task", "cancel_task"} :
             Hold(c, h, l)
  BY DEF ResumeReads, CancelReads
<1>3. /\ h \in Horizon /\ h.stage = horizon.stage
      /\ h.processed = horizon.processed
  BY <1>1, <1>2 DEF Resumed, Horizon, HorizonStatus
<1>4. ASSUME NEW l \in {"resume_plan", "resume_task", "cancel_task"},
             Hold(c, h, l)
      PROVE  SInv'
  <2>1. l \in Label /\ l \in Copying \ Staged /\ l \in Resting
    BY DEF Label, Copying, Staged, Resting
  <2>2. PICK m : Become(c, m) /\ m.at = l /\ m.my = h
    BY <1>3, <1>4, <2>1, HoldFits
  <2>3. Fine(c, m, Passages, Latest, Front, horizon.stage)
    BY <1>1, <1>3, <2>1, <2>2, ReadsRow
  <2> QED BY <1>1, <2>2, <2>3, KeptLocal, Quiet
<1>5. CASE ToSave(c, h)
  BY <1>1, <1>3, <1>5, SavesRow
<1> QED BY <1>2, <1>4, <1>5

LEMMA ResumeOrders ==
  ASSUME IInv, SInv, NEW c \in Callers, ResumeLoadsPlan(c) \/ DropAsked(c)
  PROVE  SInv'
<1>1. /\ Holds(call[c]) /\ call[c].my \in Horizon /\ UNCHANGED horizon
      /\ Latest \in Nat /\ Fits(call[c], Latest, DOMAIN steps)
  BY Copies, LatestNat, CallFits
  DEF ResumeLoadsPlan, DropAsked, Copying, Holds, IInv, StoreInv, store
<1>2. {"resume_task", "drop_asked"} \subseteq Label \cap
        ((Copying \ Staged) \cap Resting)
  BY DEF Label, Copying, Staged, Resting
<1>3. ASSUME NEW m, Become(c, m), Kept, m.at \in {"resume_task", "drop_asked"},
             m.my.stage = call[c].my.stage,
             m.my.processed \in {call[c].my.processed, Latest}
      PROVE  SInv'
  <2>1. Fine(c, m, Passages, Latest, Front, horizon.stage)
    BY <1>1, <1>2, <1>3, Carries DEF Staged
  <2> QED BY <1>1, <1>3, <2>1, Quiet
<1>4. CASE ResumeLoadsPlan(c)
  <2>1. Kept
    BY <1>4, KeptLocal DEF ResumeLoadsPlan, store
  <2>2. CASE Become(c, [call[c] EXCEPT !.rev = Latest, !.at = "drop_asked"])
    <3> DEFINE m == [call[c] EXCEPT !.rev = Latest, !.at = "drop_asked"]
    <3>1. m.at = "drop_asked" /\ m.my = call[c].my
      BY <1>1 DEF Fits
    <3>2. Become(c, m)
      BY <2>2
    <3> HIDE DEF m
    <3> QED BY <1>3, <2>1, <3>1, <3>2
  <2>3. ASSUME NEW h \in {call[c].my, [call[c].my EXCEPT !.processed = Latest]},
               Hold(c, h, "resume_task")
        PROVE  SInv'
    <3>1. /\ h \in Horizon /\ h.stage = call[c].my.stage
          /\ h.processed \in {call[c].my.processed, Latest}
      BY <1>1, <2>3 DEF Horizon
    <3>2. PICK m : Become(c, m) /\ m.at = "resume_task" /\ m.my = h
      BY <1>2, <2>3, <3>1, HoldFits
    <3> QED BY <1>3, <2>1, <3>1, <3>2
  <2> QED BY <1>4, <2>2, <2>3 DEF ResumeLoadsPlan
<1>5. CASE DropAsked(c)
  <2>1. Kept
    BY <1>5 DEF DropAsked, StepCAS, Kept
  <2>2. CASE To(c, "resume_task")
    <3>1. PICK m : Become(c, m) /\ Going(m, c, "resume_task")
      BY <1>2, <2>2, ToFits
    <3> QED BY <1>3, <2>1, <3>1 DEF Going
  <2>3. CASE UNCHANGED call
    <3>1. Become(c, call[c]) /\ call[c].at = "drop_asked"
      BY <1>5, <2>3 DEF Become, IInv, DropAsked
    <3> QED BY <1>3, <2>1, <3>1
  <2> QED BY <1>5, <2>2, <2>3 DEF DropAsked
<1> QED BY <1>4, <1>5

LEMMA ApproveOrders ==
  ASSUME IInv, SInv, NEW c \in Callers,
         \/ PickWaiting(c) \/ ApproveTask(c) \/ ApproveStep(c)
         \/ Apply(c) \/ ApplyFails(c) \/ Reject(c)
  PROVE  SInv'
<1>1. /\ call[c].op \in Approvals /\ UNCHANGED horizon
      /\ call[c].at # "idle" /\ Fits(call[c], Latest, DOMAIN steps)
  BY CallFits
  DEF PickWaiting, ApproveTask, ApproveStep, Apply, ApplyFails, Reject, Sane,
      Approving, store
<1>2. Kept
  BY DEF PickWaiting, ApproveTask, ApproveStep, Apply, ApplyFails, Reject,
         StepCAS, Kept, store
<1>3. c \in Drivers \cup Users
  BY <1>1 DEF SInv, Fine
<1>4. ASSUME NEW m, Become(c, m), m.op = call[c].op,
             \/ m.at \in {"approve_task", "approve_step", "apply", "reject"}
             \/ m.at = "verify" /\ m.op = "ApproveWrite"
      PROVE  SInv'
  <2>1. ~Holds(m) /\ m.at \in Approving
    BY <1>4 DEF Holds, Copying, Approving
  <2>2. m.at # "load_horizon"
    BY <1>4
  <2>3. Fine(c, m, Passages, Latest, Front, horizon.stage)
    BY <1>3, <2>1, <2>2, Frees
  <2> QED BY <1>1, <1>2, <1>4, <2>3, Quiet
<1>5. \/ Return(c)
      \/ \E s \in Ids(Latest) :
           Become(c, [call[c] EXCEPT !.step = s, !.at = "approve_task"])
      \/ \E l \in {"approve_step", "apply", "reject"} : To(c, l)
      \/ To(c, "verify") /\ call[c].op = "ApproveWrite"
  BY <1>1
  DEF PickWaiting, ApproveTask, ApproveStep, Apply, ApplyFails, Reject,
      Approvals
<1>6. CASE Return(c)
  BY <1>1, <1>2, <1>6, Ends
<1>7. ASSUME NEW s \in Ids(Latest),
             Become(c, [call[c] EXCEPT !.step = s, !.at = "approve_task"])
      PROVE  SInv'
  <2> DEFINE m == [call[c] EXCEPT !.step = s, !.at = "approve_task"]
  <2>1. m.at = "approve_task" /\ m.op = call[c].op
    BY <1>1 DEF Fits
  <2>2. Become(c, m)
    BY <1>7
  <2> HIDE DEF m
  <2> QED BY <1>4, <2>1, <2>2
<1>8. ASSUME NEW l \in {"approve_step", "apply", "reject", "verify"}, To(c, l),
             l = "verify" => call[c].op = "ApproveWrite"
      PROVE  SInv'
  <2>1. l \in Label
    BY DEF Label
  <2>2. PICK m : Become(c, m) /\ Going(m, c, l)
    BY <1>8, <2>1, ToFits
  <2> QED BY <1>4, <1>8, <2>2 DEF Going
<1> QED BY <1>5, <1>6, <1>7, <1>8

(* The only step that adds a plan: it is of the stage of the driver's copy, *)
(* behind which every other copy and the row are.                           *)
LEMMA CreateOrders ==
  ASSUME IInv, SInv, OneOfEach, NEW c \in Callers, CreateSegment(c)
  PROVE  SInv'
<1> DEFINE my == call[c].my
<1>1. /\ my \in Horizon /\ Good(my, status, answered)
      /\ StoreTypes /\ plans # << >> /\ Latest \in Nat
      /\ UNCHANGED horizon /\ call[c].at = "plan" /\ horizon \in Horizon
      /\ c \in Drivers /\ Holds(call[c])
  BY Copies, LatestNat, RevLatest, RowGood
  DEF CreateSegment, Copying, Staged, IInv, StoreInv
<1>2. PICK segment \in Segments :
        /\ Latest' = Latest + 1
        /\ DOMAIN plans' = DOMAIN plans \cup {Latest + 1}
        /\ \A r \in DOMAIN plans : plans'[r] = plans[r]
        /\ plans'[Latest + 1] = [stage |-> my.stage, steps |-> segment.steps,
                                 terminal |-> segment.terminal]
        /\ \A s \in DOMAIN steps : steps'[s] = steps[s]
  BY <1>1, Plans
<1>3. DOMAIN plans = 1..Latest
  BY <1>1 DEF StoreTypes, Latest
<1>4. Front' = my.stage
  BY <1>2 DEF Front
<1>5. ASSUME NEW k \in Nat, NEW r \in DOMAIN plans, Passed(k, r)
      PROVE  Passed(k, r)'
  <2>1. Ids(r) \subseteq DOMAIN steps
    BY <1>1 DEF StoreTypes
  <2> QED BY <1>2, <1>5, <2>1 DEF Passed, Ids
<1>6. Passages \subseteq Passages'
  BY <1>2, <1>5 DEF Passages
<1>7. Fine(c, call[c], Passages, Latest, Front, horizon.stage)
  BY DEF SInv
<1>8. Below(my, Passages) /\ horizon.stage <= my.stage
  BY <1>1, <1>7 DEF Fine, Led, Abreast
<1>9. InOrder'
  <2>1. SUFFICES ASSUME NEW r \in DOMAIN plans',
                        NEW j \in 1..plans'[r].stage - 1
                 PROVE  \E q \in 1..r - 1 : Passed(j, q)'
    BY DEF InOrder
  <2>2. CASE r \in DOMAIN plans
    <3>1. PICK q \in 1..r - 1 : Passed(j, q)
      BY <1>2, <2>2 DEF SInv, InOrder
    <3>2. q \in DOMAIN plans /\ j \in Nat
      BY <1>1, <1>3, <2>2
    <3> QED BY <1>5, <3>1, <3>2
  <2>3. CASE r = Latest + 1
    <3>1. j \in Passages
      BY <1>2, <1>8, <2>3 DEF Below
    <3>2. PICK q \in DOMAIN plans : Passed(j, q) /\ j \in Nat
      BY <3>1 DEF Passages
    <3>3. q \in 1..r - 1
      BY <1>1, <1>3, <2>3, <3>2
    <3> QED BY <1>5, <3>2, <3>3
  <2> QED BY <1>2, <2>2, <2>3
<1>10. ASSUME NEW h \in Horizon, Abreast(h, Passages, Latest, Front),
              h.stage <= my.stage
       PROVE  Abreast(h, Passages', Latest', Front')
  BY <1>4, <1>6, <1>10 DEF Abreast, Below, Ahead
<1>11. my.stage \in Nat /\ horizon.stage \in Nat
  BY <1>1 DEF Horizon
<1>12. Abreast(horizon', Passages', Latest', Front')
  BY <1>1, <1>8, <1>10 DEF SInv
<1>13. PICK m : /\ Become(c, m) /\ m.at = "save" /\ m.my.stage = my.stage
                /\ m.my \in Horizon
  <2>1. PICK n \in 1..4 : ToSave(c, MoreIdle([my EXCEPT !.planned = @ + n]))
    <3>1. PICK g \in Segments :
            ToSave(c, MoreIdle([my EXCEPT !.planned = @ + Len(g.steps)]))
      BY DEF CreateSegment
    <3> QED BY <3>1, SegmentsArePlans
  <2> DEFINE counted == [my EXCEPT !.planned = @ + n]
             h == MoreIdle(counted)
  <2>2. /\ counted \in Horizon /\ Good(counted, status, answered)
        /\ counted.stage = my.stage
    <3>1. my \in Horizon /\ Good(my, status, answered)
      BY <1>1
    <3> HIDE DEF my
    <3> QED BY <3>1 DEF Horizon, Good
  <2>3. ToSave(c, h)
    BY <2>1
  <2> HIDE DEF counted
  <2>4. h \in Horizon /\ h.stage = my.stage
    BY <2>2, MoreIdleGood
  <2> HIDE DEF h
  <2>5. PICK m : Become(c, m) /\ m.at = "save" /\ m.my = h
    BY <2>3, <2>4, SaveFits
  <2> QED BY <2>4, <2>5
<1>14. ASSUME NEW d \in Callers
       PROVE  Fine(d, call'[d], Passages', Latest', Front', horizon'.stage)
  <2>1. CASE d = c
    <3>1. call'[d] = m
      BY <1>13, <2>1 DEF Become, IInv
    <3>2. Abreast(m.my, Passages', Latest', Front')
      BY <1>4, <1>6, <1>8, <1>11, <1>13 DEF Abreast, Below, Ahead
    <3> QED BY <1>1, <1>8, <1>13, <2>1, <3>1, <3>2 DEF Fine, Led, Staged
  <2>2. CASE d # c
    <3>1. /\ call'[d] = call[d] /\ d \notin Drivers
          /\ Fine(d, call[d], Passages, Latest, Front, horizon.stage)
      BY <1>1, <1>13, <2>2 DEF Become, IInv, SInv, OneOfEach
    <3>2. Holds(call[d]) => /\ call[d].my \in Horizon
                           /\ call[d].my.stage \in Nat
      BY Held DEF Horizon
    <3>3. Holds(call[d]) => call[d].my.stage <= my.stage
      BY <1>8, <1>11, <3>1, <3>2 DEF Fine, Follows
    <3>4. Holds(call[d]) => Abreast(call[d].my, Passages', Latest', Front')
      BY <1>10, <3>1, <3>2, <3>3 DEF Fine
    <3> QED BY <1>1, <3>1, <3>4 DEF Fine
  <2> QED BY <2>1, <2>2
<1> QED BY <1>9, <1>12, <1>14 DEF SInv

LEMMA OrderWaits ==
  ASSUME IInv, SInv, TimePasses \/ UNCHANGED vars
  PROVE  SInv'
<1>1. UNCHANGED <<plans, steps, horizon, call>>
  BY DEF TimePasses, vars, store
<1>2. Kept
  BY <1>1, KeptLocal
<1>3. Abreast(horizon', Passages', Latest', Front') /\ InOrder'
  BY <1>1, <1>2, PassagesKept, AbreastGrows, InOrderKept DEF SInv
<1>4. ASSUME NEW d \in Callers
      PROVE  Fine(d, call'[d], Passages', Latest', Front', horizon'.stage)
  BY <1>1, <1>2, PassagesKept, FineGrows DEF SInv
<1> QED BY <1>3, <1>4 DEF SInv

LEMMA ContinueOrders ==
  ASSUME IInv, SInv, OneOfEach, NEW c \in Callers, Continue(c)
  PROVE  SInv'
BY AdvanceOrders, WriteOrders, LoadOrders, CreateOrders, FailOrders,
   CloseFailedOrders, CloseCompletedOrders, AssessOrders, VerifyOrders,
   RunOrders, StepOrders, RecordOrders, GiveUpOrders, AutoPauseOrders,
   RowOrders, ReadOrders, ResumeOrders, ApproveOrders
DEF Continue

LEMMA Ordered == ASSUME IInv, SInv, OneOfEach, [Next]_vars PROVE SInv'
<1>1. ASSUME NEW c \in Callers, Abort(c) PROVE SInv'
  <2>1. UNCHANGED <<plans, steps, horizon>>
    BY <1>1 DEF Abort, store
  <2> QED BY <1>1, <2>1, KeptLocal, Ends
<1>2. ASSUME NEW c \in Callers, NEW o \in Operations, Call(c, o) PROVE SInv'
  BY <1>2, CallOrders
<1>3. ASSUME NEW c \in Callers, Continue(c) PROVE SInv'
  BY <1>3, ContinueOrders
<1> QED BY <1>1, <1>2, <1>3, OrderWaits DEF Next

LEMMA OrderInitial == ASSUME Init PROVE SInv
<1>1. /\ horizon.stage = 1 /\ DOMAIN plans = {1} /\ Latest = 1
      /\ plans[1].stage = 0
  BY DEF Init, Latest
<1>2. InOrder /\ Abreast(horizon, Passages, Latest, Front)
  BY <1>1 DEF InOrder, Abreast, Below, Ahead, Front
<1>3. ASSUME NEW c \in Callers
      PROVE  Fine(c, call[c], Passages, Latest, Front, horizon.stage)
  <2>1. call[c].at = "idle"
    BY DEF Init, Idle
  <2> QED BY <2>1 DEF Fine, Led, Follows, Holds, Copying, Staged, UserAt
<1> QED BY <1>2, <1>3 DEF SInv

THEOREM OrderInvariant == ASSUME OneOfEach PROVE Spec => []SInv
<1>1. Init => SInv
  BY OrderInitial
<1>2. IInv /\ SInv /\ [Next]_vars => SInv'
  BY Ordered
<1> QED BY <1>1, <1>2, Invariant, PTL DEF Spec

(* Docs/12, the stages in their order: with one loop that advances the task *)
(* and one user who resumes, cancels and approves, overlapping anywhere, a  *)
(* segment of a stage is planned only after the stage before was passed.    *)
THEOREM StagesOrdered == ASSUME OneOfEach PROVE Spec => []StagesInOrder
<1>1. IInv /\ SInv => StagesInOrder
  <2>1. SUFFICES ASSUME IInv, SInv, NEW r \in DOMAIN plans, plans[r].stage > 1
                 PROVE  \E q \in 1..r - 1 : Passed(plans[r].stage - 1, q)
    BY DEF StagesInOrder
  <2>2. plans[r].stage \in Nat
    BY <2>1 DEF IInv, StoreInv, StoreTypes, Plan
  <2>3. plans[r].stage - 1 \in 1..plans[r].stage - 1
    BY <2>1, <2>2
  <2> QED BY <2>1, <2>3 DEF SInv, InOrder
<1> QED BY <1>1, Invariant, OrderInvariant, PTL

----
(* No step forgets a passed stage. *)
LEMMA PassagesGrow ==
  ASSUME IInv, [Next]_vars
  PROVE  Passages \subseteq Passages'
<1>1. CASE Kept
  BY <1>1, PassagesKept
<1>2. ASSUME NEW c \in Callers, CreateSegment(c)
      PROVE  Passages \subseteq Passages'
  <2>1. /\ call[c].my \in Horizon /\ StoreTypes /\ plans # << >>
    BY <1>2, Copies DEF CreateSegment, Copying, IInv, StoreInv
  <2>2. /\ DOMAIN plans \subseteq DOMAIN plans'
        /\ \A r \in DOMAIN plans : plans'[r] = plans[r]
        /\ \A s \in DOMAIN steps : steps'[s] = steps[s]
    BY <1>2, <2>1, Plans
  <2>3. ASSUME NEW k \in Nat, NEW r \in DOMAIN plans, Passed(k, r)
        PROVE  Passed(k, r)'
    <3>1. Ids(r) \subseteq DOMAIN steps
      BY <2>1 DEF StoreTypes
    <3> QED BY <2>2, <2>3, <3>1 DEF Passed, Ids
  <2> QED BY <2>2, <2>3 DEF Passages
<1>3. ASSUME NEW c \in Callers, Continue(c), ~CreateSegment(c) PROVE Kept
  <2>1. CASE UNCHANGED <<plans, steps>>
    BY <2>1, KeptLocal
  <2>2. CASE ~UNCHANGED <<plans, steps>>
    <3>1. \/ ClaimStep(c) \/ SettleStep(c) \/ DropStep(c) \/ DropAsked(c)
          \/ ApproveStep(c) \/ Apply(c) \/ ApplyFails(c)
      BY <1>3, <2>2
      DEF Continue, TryTask, SettleTask, ResumeTask, StartTask, DropTask,
          AutoPause, AutoReady, PauseTask, CancelTask, ApproveTask, Reject,
          Park, MoveToVerifying, Decide, LoadPlan, Resolve, Save, AdvanceOver,
          AdvanceResolved, AdvanceWaits, AdvanceWorks, ModelFails, LoadSteps,
          CloseFailed, CloseCompleted, Assess, Run, Execute, ExecuteFails,
          RunFails, Record, Fail, ResumeReads, ResumeLoadsPlan, CancelReads,
          PickWaiting, store
    <3> QED BY <3>1
        DEF ClaimStep, SettleStep, DropStep, DropAsked, ApproveStep, Apply,
            ApplyFails, StepCAS, Kept
  <2> QED BY <2>1, <2>2
<1>4. \/ UNCHANGED <<plans, steps>>
      \/ \E c \in Callers : Continue(c)
  BY DEF Next, TimePasses, Call, Abort, vars, store
<1> QED BY <1>1, <1>2, <1>3, <1>4, KeptLocal

(* Only Decide completes a task. *)
LEMMA CompletedBy ==
  ASSUME IInv, [Next]_vars, status # "COMPLETED", status' = "COMPLETED"
  PROVE  \E c \in Callers : Decide(c)
<1>1. ASSUME NEW c \in Callers, Continue(c), ~Decide(c) PROVE FALSE
  <2>1. Sane(call[c], status, answered)
    BY CallFits
  <2>2. /\ ~TryTask(c) /\ ~SettleTask(c) /\ ~ResumeTask(c)
        /\ ~StartTask(c) /\ ~DropTask(c) /\ ~AutoPause(c) /\ ~AutoReady(c)
        /\ ~PauseTask(c) /\ ~CancelTask(c) /\ ~ApproveTask(c) /\ ~Reject(c)
        /\ ~Park(c) /\ ~MoveToVerifying(c)
    BY <2>1
    DEF TryTask, SettleTask, ResumeTask, StartTask, DropTask, AutoPause,
        AutoReady, PauseTask, CancelTask, ApproveTask, Reject, Park,
        MoveToVerifying, TaskCAS, Sane
  <2>3. ~UNCHANGED status
    OBVIOUS
  <2>4. \/ LoadPlan(c) \/ CreateSegment(c) \/ Resolve(c) \/ Save(c)
        \/ AdvanceOver(c) \/ AdvanceResolved(c) \/ AdvanceWaits(c)
        \/ AdvanceWorks(c) \/ ModelFails(c) \/ LoadSteps(c) \/ CloseFailed(c)
        \/ CloseCompleted(c) \/ Assess(c) \/ Run(c) \/ ClaimStep(c)
        \/ Execute(c) \/ ExecuteFails(c) \/ SettleStep(c) \/ DropStep(c)
        \/ RunFails(c) \/ Record(c) \/ Fail(c)
        \/ ResumeReads(c) \/ ResumeLoadsPlan(c) \/ DropAsked(c)
        \/ CancelReads(c) \/ PickWaiting(c) \/ ApproveStep(c) \/ Apply(c)
        \/ ApplyFails(c)
    BY <1>1, <2>2 DEF Continue
  <2> QED BY <2>3, <2>4
      DEF LoadPlan, CreateSegment, Resolve, Save, AdvanceOver,
          AdvanceResolved, AdvanceWaits, AdvanceWorks, ModelFails, LoadSteps,
          CloseFailed, CloseCompleted, Assess, Run, ClaimStep, Execute,
          ExecuteFails, SettleStep, DropStep, RunFails, Record, Fail,
          ResumeReads, ResumeLoadsPlan, DropAsked, CancelReads, PickWaiting,
          ApproveStep, Apply, ApplyFails, store
<1>2. ~UNCHANGED vars /\ ~TimePasses
  BY DEF vars, store, TimePasses
<1>3. \A c \in Callers : ~Abort(c) /\ \A o \in Operations : ~Call(c, o)
  BY DEF Call, Abort, store
<1> QED BY <1>1, <1>2, <1>3 DEF Next

(* ... and is completed only when all of them were, if no write is approved *)
(* under it: ApprovePendingWrite goes on to VerifyTask by itself.           *)
THEOREM CompletionIsLast ==
  ASSUME OneOfEach, "ApproveWrite" \notin Operations
  PROVE  Spec => []CompletedAfterAllStages
<1> DEFINE Done == 1..Len(Stages) \subseteq Passages
           J == status = "COMPLETED" => Done
<1>1. Init => J
  BY DEF Init
<1>2. IInv /\ SInv /\ J /\ [Next]_vars /\ SInv' => J'
  <2>1. SUFFICES ASSUME IInv, SInv, J, [Next]_vars, SInv', status' = "COMPLETED"
                 PROVE  Done'
    BY DEF J
  <2>2. Done
    <3>1. CASE status = "COMPLETED"
      BY <2>1, <3>1
    <3>2. CASE status # "COMPLETED"
      <4>1. PICK c \in Callers : Decide(c)
        BY <2>1, <3>2, CompletedBy
      <4>2. call[c].at = "decide" /\ call[c].op # "ApproveWrite"
        BY <2>1, <4>1, CallFits DEF Decide, Fits, NONE
      <4>3. Holds(call[c])
        BY <4>2 DEF Holds
      <4>4. /\ Below(call[c].my, Passages) /\ call[c].my \in Horizon
            /\ call[c].my.stage > Len(Stages)
        BY <2>1, <4>2, <4>3, Held DEF SInv, Fine, Led, Follows, Abreast
      <4> QED BY <4>4, StagesKnown DEF Below, Horizon
    <3> QED BY <3>1, <3>2
  <2>3. Passages \subseteq Passages'
    BY <2>1, PassagesGrow
  <2> QED BY <2>2, <2>3
<1>3. IInv /\ J => CompletedAfterAllStages
  BY DEF Passages, CompletedAfterAllStages
<1> QED BY <1>1, <1>2, <1>3, Invariant, OrderInvariant, PTL DEF Spec
=============================================================================
