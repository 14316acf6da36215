------------------------------ MODULE EventLog ------------------------------
(***************************************************************************)
(* The event log of one task and the optimistic writes that feed it        *)
(* (internal/storage/store.go, internal/eventstore/events.go,              *)
(* transitionTask and transitionStep of internal/app/service.go).          *)
(*                                                                         *)
(* A writer first asks for the next sequence number, in a query of its     *)
(* own, and later runs one transaction that updates the status row WHERE   *)
(* status = from and inserts the event under that number.  Desktop         *)
(* bindings and CLI processes write the same task concurrently; any of     *)
(* them may stop between the two steps.  A reader taking a checkpoint      *)
(* reads the status, then the events, then saves what it saw.              *)
(***************************************************************************)
EXTENDS Naturals, FiniteSets, Sequences, TaskStates

CONSTANTS
  Task, Steps, Note,  (* as in Journal                                     *)
  Callers,            (* service calls in flight                           *)
  MaxEvents,          (* bound: no write starts once the log is this long  *)
  MaxCheckpoints      (* bound: no checkpoint starts once these exist      *)

ASSUME SubjectsDistinct ==
  Task \notin Steps /\ Note \notin Steps /\ Task # Note

(* CreateTask leaves four events. *)
ASSUME BoundsNat ==
  MaxEvents \in Nat /\ MaxEvents >= 4 /\ MaxCheckpoints \in Nat

VARIABLES
  state,        (* status column of the task row and of each step row      *)
  events,       (* the events table: sequence -> row                       *)
  checkpoints,  (* the checkpoints table: sequence -> saved task status    *)
  call          (* what each caller has read so far                        *)

vars == <<state, events, checkpoints, call>>

Subjects == {Task} \cup Steps
AnyStatus == TaskStatus \cup StepStatus

Row == [subject : Subjects, from : AnyStatus, to : AnyStatus]
       \cup [subject : {Note}]

Idle == [at |-> "idle"]

Call ==
  {Idle}
  \cup [at : {"move"}, subject : Subjects, from : AnyStatus,
        to : AnyStatus, sequence : Nat \ {0}]
  \cup [at : {"note"}, sequence : Nat \ {0}]
  \cup [at : {"status_read"}, status : AnyStatus]
  \cup [at : {"events_read", "saving"}, status : AnyStatus, sequence : Nat]

(* SELECT COALESCE(MAX(sequence), 0) + 1 *)
LastSequence ==
  IF DOMAIN events = {} THEN 0
  ELSE CHOOSE m \in DOMAIN events : \A n \in DOMAIN events : n <= m

NextSequence == LastSequence + 1

Allowed(subject, from, to) ==
  IF subject = Task THEN CanTransition(from, to)
                    ELSE <<from, to>> \in StepMoves

\* Mutant: without the UNIQUE constraint the last writer replaces the row.
InsertOrReplace(sequence, row) ==
  events' = [n \in DOMAIN events \cup {sequence} |->
               IF n = sequence THEN row ELSE events[n]]

(* INSERT INTO events under a number that must still be free: the table    *)
(* has UNIQUE(aggregate_type, aggregate_id, sequence).                     *)
Insert(sequence, row) ==
  /\ sequence \notin DOMAIN events
  /\ events' = [n \in DOMAIN events \cup {sequence} |->
                  IF n = sequence THEN row ELSE events[n]]

Rows(s) == {n \in DOMAIN events : events[n].subject = s}

InitialStatus(s) == IF s = Task THEN "READY" ELSE "PENDING"

(* The log CreateTask leaves behind: TASK_CREATED, two moves of the task    *)
(* and, between them, PLAN_CREATED.                                         *)
CreationLog ==
  <<[subject |-> Note],
    [subject |-> Task, from |-> "DRAFT", to |-> "PLANNING"],
    [subject |-> Note],
    [subject |-> Task, from |-> "PLANNING", to |-> "READY"]>>

(* every status a subject has had *)
Past(s) == {InitialStatus(s)} \cup {events[n].from : n \in Rows(s)}
           \cup {events[n].to : n \in Rows(s)}

TaskStatusBefore(n) ==
  LET moves == {m \in Rows(Task) : m <= n}
  IN  IF moves = {} THEN "DRAFT"
      ELSE events[CHOOSE m \in moves : \A k \in moves : k <= m].to

----
Init ==
  /\ state = [s \in Subjects |-> InitialStatus(s)]
  /\ events = CreationLog
  /\ checkpoints = << >>
  /\ call = [c \in Callers |-> Idle]

(* transitionTask / transitionStep up to the transaction: the task table is *)
(* consulted on the caller's own idea of `from`, then the number is read.   *)
(* The caller took `from` from a row it read, or from its own last move, so *)
(* it is a status the subject has or had, often no longer the current one.  *)
BeginMove(c, subject, from, to) ==
  /\ call[c] = Idle
  /\ from \in Past(subject)
  /\ Allowed(subject, from, to)
  /\ NextSequence <= MaxEvents
  /\ call' = [call EXCEPT ![c] = [at |-> "move", subject |-> subject,
                                  from |-> from, to |-> to,
                                  sequence |-> NextSequence]]
  /\ UNCHANGED <<state, events, checkpoints>>

BeginNote(c) ==
  /\ call[c] = Idle
  /\ NextSequence <= MaxEvents
  /\ call' = [call EXCEPT ![c] = [at |-> "note", sequence |-> NextSequence]]
  /\ UNCHANGED <<state, events, checkpoints>>

\* Mutant: the UPDATE without its AND status = from.
CommitWithoutCompare(c) ==
  LET w == call[c] IN
  /\ w.at = "move"
  /\ Insert(w.sequence,
            [subject |-> w.subject, from |-> w.from, to |-> w.to])
  /\ state' = [state EXCEPT ![w.subject] = w.to]
  /\ call' = [call EXCEPT ![c] = Idle]
  /\ UNCHANGED checkpoints

\* Mutant: the event is inserted outside the transaction of the update.
CommitStateOnly(c) ==
  LET w == call[c] IN
  /\ w.at = "move"
  /\ state[w.subject] = w.from
  /\ state' = [state EXCEPT ![w.subject] = w.to]
  /\ call' = [call EXCEPT ![c] = Idle]
  /\ UNCHANGED <<events, checkpoints>>

(* The transaction of TransitionTask / TransitionStep when both statements *)
(* succeed.                                                                *)
CommitMove(c) ==
  LET w == call[c] IN
  /\ w.at = "move"
  /\ state[w.subject] = w.from
  /\ Insert(w.sequence,
            [subject |-> w.subject, from |-> w.from, to |-> w.to])
  /\ state' = [state EXCEPT ![w.subject] = w.to]
  /\ call' = [call EXCEPT ![c] = Idle]
  /\ UNCHANGED checkpoints

(* CreatePlan, CreateApprovalWithEvent, RecordToolIntentWithEvent, ...: the *)
(* event and rows of another table; nothing of this module's state moves.   *)
CommitNote(c) ==
  /\ call[c].at = "note"
  /\ Insert(call[c].sequence, [subject |-> Note])
  /\ call' = [call EXCEPT ![c] = Idle]
  /\ UNCHANGED <<state, checkpoints>>

(* The compare or the insert fails and the transaction rolls back; or the   *)
(* context is cancelled, the disk is full, the process dies: at any point   *)
(* a call may end with nothing done.                                        *)
Abandon(c) ==
  /\ call[c] # Idle
  /\ call' = [call EXCEPT ![c] = Idle]
  /\ UNCHANGED <<state, events, checkpoints>>

----
(* CheckpointTask: GetTaskSnapshot reads the task row ...                   *)
ReadStatus(c) ==
  /\ call[c] = Idle
  /\ Cardinality(DOMAIN checkpoints) < MaxCheckpoints
  /\ call' = [call EXCEPT ![c] = [at |-> "status_read",
                                  status |-> state[Task]]]
  /\ UNCHANGED <<state, events, checkpoints>>

(* ... and, in a later query, the events, whose last number it takes. *)
ReadEvents(c) ==
  /\ call[c].at = "status_read"
  /\ call' = [call EXCEPT ![c] = [at |-> "events_read",
                                  status |-> call[c].status,
                                  sequence |-> LastSequence]]
  /\ UNCHANGED <<state, events, checkpoints>>

(* GetLatestCheckpoint: nothing to save when one as recent exists. *)
CompareCheckpoint(c) ==
  /\ call[c].at = "events_read"
  /\ call' = [call EXCEPT ![c] =
                IF \E n \in DOMAIN checkpoints : n >= call[c].sequence
                THEN Idle
                ELSE [call[c] EXCEPT !.at = "saving"]]
  /\ UNCHANGED <<state, events, checkpoints>>

\* Mutant: the task row is read again when the checkpoint is written.
SaveFreshStatus(c) ==
  LET w == call[c] IN
  /\ w.at = "saving"
  /\ w.sequence \notin DOMAIN checkpoints
  /\ checkpoints' = [n \in DOMAIN checkpoints \cup {w.sequence} |->
                       IF n = w.sequence THEN state[Task] ELSE checkpoints[n]]
  /\ call' = [call EXCEPT ![c] = Idle]
  /\ UNCHANGED <<state, events>>

(* SaveCheckpoint under UNIQUE(task_id, sequence). *)
SaveCheckpoint(c) ==
  LET w == call[c] IN
  /\ w.at = "saving"
  /\ w.sequence \notin DOMAIN checkpoints
  /\ checkpoints' = [n \in DOMAIN checkpoints \cup {w.sequence} |->
                       IF n = w.sequence THEN w.status ELSE checkpoints[n]]
  /\ call' = [call EXCEPT ![c] = Idle]
  /\ UNCHANGED <<state, events>>

----
Next ==
  \E c \in Callers :
    \/ \E s \in Subjects, from, to \in AnyStatus : BeginMove(c, s, from, to)
    \/ BeginNote(c)
    \/ CommitMove(c)
    \/ CommitNote(c)
    \/ ReadStatus(c)
    \/ ReadEvents(c)
    \/ CompareCheckpoint(c)
    \/ SaveCheckpoint(c)
    \/ Abandon(c)

Spec == Init /\ [][Next]_vars

----
(* The log has no gap and no stray row: readers take MAX(sequence) for the *)
(* number of events.  The rest are types.                                  *)
TypeOK ==
  /\ state \in [Subjects -> AnyStatus]
  /\ \E k \in 1..MaxEvents : events \in [1..k -> Row]
  /\ DOMAIN checkpoints \subseteq Nat
  /\ \A n \in DOMAIN checkpoints : checkpoints[n] \in AnyStatus
  /\ call \in [Callers -> Call]

(* The transactions of store.go implement the abstract journal: whatever    *)
(* the callers interleave, the table holds one gap-free history, and each   *)
(* row of it moved the status from what it was.                             *)
J == INSTANCE Journal WITH history <- events
ImplementsJournal == J!Spec

(* Docs/02: "event replay gives the task state of the materialized table":  *)
(* the last event about a subject names the status its row holds.           *)
ReplayGivesState ==
  \A s \in Subjects :
    \/ /\ Rows(s) = {}
       /\ state[s] = InitialStatus(s)
    \/ \E n \in Rows(s) :
         /\ events[n].to = state[s]
         /\ \A m \in Rows(s) : m <= n

(* A task or a step that reached a terminal status never leaves it, however *)
(* late a caller that still believes in an older status commits.            *)
Finished(s) == state[s] \in IF s = Task THEN TaskTerminal ELSE StepTerminal

TerminalIsFinal ==
  [][\A s \in Subjects : Finished(s) => state'[s] = state[s]]_vars

(* The events table is append-only: no caller overwrites, renumbers or      *)
(* removes an event another caller wrote.                                   *)
AppendOnly ==
  [][\A n \in DOMAIN events :
       n \in DOMAIN events' /\ events'[n] = events[n]]_vars

(* A checkpoint is never ahead of the events it is filed under: the status  *)
(* it saved had been reached by its sequence number.  Recovery audits read  *)
(* a checkpoint as "the task after event n".                                *)
CheckpointNeverAhead ==
  \A n \in DOMAIN checkpoints :
    \E k \in 1..n : TaskStatusBefore(k) = checkpoints[n]
=============================================================================
