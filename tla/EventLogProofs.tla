--------------------------- MODULE EventLogProofs ---------------------------
(***************************************************************************)
(* Theorems about EventLog, for any steps, any number of callers and any   *)
(* bounds.                                                                 *)
(***************************************************************************)
EXTENDS EventLog, SequenceTheorems, TLAPS

(* What a pending write remembers.  Every number below its own was taken   *)
(* when it read the counter, so inserting under a number that is still     *)
(* free can only append; and its move was checked against the table.       *)
Pending ==
  \A c \in Callers :
    /\ call[c].at \in {"move", "note"} =>
         /\ 1..(call[c].sequence - 1) \subseteq DOMAIN events
         /\ call[c].sequence <= MaxEvents
    /\ call[c].at = "move" =>
         Allowed(call[c].subject, call[c].from, call[c].to)

IInv == TypeOK /\ Pending

(* The last number of a gap-free log is its length. *)
LEMMA LastIsLength ==
  ASSUME NEW k \in Nat, DOMAIN events = 1..k
  PROVE  LastSequence = k
<1>1. CASE k = 0
  BY <1>1 DEF LastSequence
<1>2. CASE k # 0
  <2>1. k \in DOMAIN events /\ \A n \in DOMAIN events : n <= k
    BY <1>2
  <2>2. LastSequence = CHOOSE m \in DOMAIN events :
                         \A n \in DOMAIN events : n <= m
    BY <2>1 DEF LastSequence
  <2> QED
    BY <2>1, <2>2
<1> QED
  BY <1>1, <1>2

(* A write under a free number whose predecessors are taken is an append.  *)
LEMMA InsertIsAppend ==
  ASSUME NEW k \in Nat, events \in [1..k -> Row],
         NEW sequence \in Nat \ {0}, 1..(sequence - 1) \subseteq DOMAIN events,
         NEW row \in Row,
         Insert(sequence, row)
  PROVE  /\ sequence = k + 1
         /\ events' \in [1..(k + 1) -> Row]
         /\ \A n \in 1..k : events'[n] = events[n]
         /\ events'[k + 1] = row
         /\ events' = Append(events, row)
<1>1. sequence = k + 1
  BY DEF Insert
<1>2. events' = [n \in DOMAIN events \cup {sequence} |->
                   IF n = sequence THEN row ELSE events[n]]
  BY DEF Insert
<1>3. DOMAIN events \cup {sequence} = 1..(k + 1)
  BY <1>1
<1>4. events' = [n \in 1..(k + 1) |-> IF n = k + 1 THEN row ELSE events[n]]
  BY <1>1, <1>2, <1>3
<1>5. /\ events' \in [1..(k + 1) -> Row]
      /\ \A n \in 1..k : events'[n] = events[n]
      /\ events'[k + 1] = row
  BY <1>4
<1>6. events \in Seq(Row) /\ Len(events) = k
  OBVIOUS
<1>7. Append(events, row) \in [1..(k + 1) -> Row]
  BY <1>6, AppendProperties, LenProperties
<1>8. \A n \in 1..(k + 1) : Append(events, row)[n] = events'[n]
  BY <1>5, <1>6, AppendProperties
<1> QED
  BY <1>1, <1>5, <1>7, <1>8

(* The type invariant and what pending writes know hold in every state.    *)
LEMMA InitIInv == Init => IInv
<1> SUFFICES ASSUME Init PROVE IInv
  OBVIOUS
<1>1. state \in [Subjects -> AnyStatus]
  BY DEF Init, InitialStatus, AnyStatus, TaskStatus, StepStatus
<1>2. events \in [1..4 -> Row]
  BY DEF Init, CreationLog, Row, Subjects, AnyStatus, TaskStatus
<1>3. \E k \in 1..MaxEvents : events \in [1..k -> Row]
  BY <1>2, BoundsNat
<1>4. /\ DOMAIN checkpoints \subseteq Nat
      /\ \A n \in DOMAIN checkpoints : checkpoints[n] \in AnyStatus
  BY DEF Init
<1>5. call \in [Callers -> Call]
  BY DEF Init, Call
<1>6. Pending
  BY DEF Init, Pending, Idle
<1> QED
  BY <1>1, <1>3, <1>4, <1>5, <1>6 DEF IInv, TypeOK

LEMMA NextIInv == IInv /\ [Next]_vars => IInv'
<1> SUFFICES ASSUME IInv, [Next]_vars PROVE IInv'
  OBVIOUS
<1> USE DEF IInv
<1>1. PICK k \in 1..MaxEvents : events \in [1..k -> Row]
  BY DEF TypeOK
<1>2. LastSequence = k /\ k \in Nat
  BY <1>1, LastIsLength, BoundsNat
(* a caller that only moves on to w keeps the invariant if w does *)
<1>3. ASSUME NEW c \in Callers, NEW w \in Call,
             call' = [call EXCEPT ![c] = w],
             UNCHANGED <<state, events, checkpoints>>,
             w.at \in {"move", "note"} =>
               1..(w.sequence - 1) \subseteq DOMAIN events /\ w.sequence <= MaxEvents,
             w.at = "move" => Allowed(w.subject, w.from, w.to)
      PROVE  IInv'
  <2>1. TypeOK'
    BY <1>3 DEF TypeOK
  <2>2. call \in [Callers -> Call]
    BY DEF TypeOK
  <2>3. Pending'
    BY <1>3, <2>2 DEF Pending, Allowed
  <2> QED
    BY <2>1, <2>3
<1>4. Idle \in Call /\ Idle.at = "idle"
  BY DEF Idle, Call
(* a caller that has inserted its row and returned keeps it too *)
<1>5. ASSUME NEW c \in Callers, NEW row \in Row,
             call[c].at \in {"move", "note"},
             Insert(call[c].sequence, row),
             call' = [call EXCEPT ![c] = Idle],
             state' \in [Subjects -> AnyStatus],
             UNCHANGED checkpoints
      PROVE  IInv'
  <2>1. call[c].sequence \in Nat \ {0}
    BY <1>5 DEF TypeOK, Call, Idle
  <2>2. 1..(call[c].sequence - 1) \subseteq DOMAIN events /\ call[c].sequence <= MaxEvents
    BY <1>5 DEF Pending
  <2>3. /\ call[c].sequence = k + 1
        /\ events' \in [1..(k + 1) -> Row]
    BY <1>1, <1>2, <1>5, <2>1, <2>2, InsertIsAppend
  <2>4. k + 1 \in 1..MaxEvents
    BY <1>2, <2>2, <2>3, BoundsNat
  <2>5. TypeOK'
    BY <1>4, <1>5, <2>3, <2>4 DEF TypeOK
  <2>6. DOMAIN events \subseteq DOMAIN events'
    BY <1>1, <1>2, <2>3
  <2>7. call \in [Callers -> Call]
    BY DEF TypeOK
  <2>8. Pending'
    BY <1>4, <1>5, <2>6, <2>7 DEF Pending, Allowed
  <2> QED
    BY <2>5, <2>8
<1>6. ASSUME NEW c \in Callers, NEW s \in Subjects,
             NEW from \in AnyStatus, NEW to \in AnyStatus,
             BeginMove(c, s, from, to)
      PROVE  IInv'
  <2> DEFINE w == [at |-> "move", subject |-> s, from |-> from,
                   to |-> to, sequence |-> NextSequence]
  <2>1. w \in Call
    BY <1>2 DEF Call, NextSequence
  <2>2. w.at = "move" /\ w.sequence = k + 1
    BY <1>2 DEF NextSequence
  <2>3. 1..(w.sequence - 1) \subseteq DOMAIN events /\ w.sequence <= MaxEvents
    BY <1>1, <1>2, <1>6, <2>2 DEF BeginMove, NextSequence
  <2>4. Allowed(w.subject, w.from, w.to)
    BY <1>6 DEF BeginMove
  <2>5. call' = [call EXCEPT ![c] = w] /\ UNCHANGED <<state, events, checkpoints>>
    BY <1>6 DEF BeginMove
  <2> HIDE DEF w
  <2> QED
    BY <1>3, <2>1, <2>3, <2>4, <2>5
<1>7. ASSUME NEW c \in Callers, BeginNote(c)
      PROVE  IInv'
  <2> DEFINE w == [at |-> "note", sequence |-> NextSequence]
  <2>1. w \in Call /\ w.at = "note" /\ w.sequence = k + 1
    BY <1>2 DEF Call, NextSequence
  <2>2. 1..(w.sequence - 1) \subseteq DOMAIN events /\ w.sequence <= MaxEvents
    BY <1>1, <1>2, <1>7, <2>1 DEF BeginNote, NextSequence
  <2>3. call' = [call EXCEPT ![c] = w] /\ UNCHANGED <<state, events, checkpoints>>
    BY <1>7 DEF BeginNote
  <2> HIDE DEF w
  <2> QED
    BY <1>3, <2>1, <2>2, <2>3
<1>8. ASSUME NEW c \in Callers, CommitMove(c)
      PROVE  IInv'
  <2>1. /\ call[c].subject \in Subjects
        /\ call[c].from \in AnyStatus
        /\ call[c].to \in AnyStatus
    BY <1>8 DEF CommitMove, TypeOK, Call, Idle
  <2> DEFINE row == [subject |-> call[c].subject, from |-> call[c].from, to |-> call[c].to]
  <2>2. row \in Row
    BY <2>1 DEF Row
  <2>3. state' \in [Subjects -> AnyStatus]
    BY <1>8, <2>1 DEF CommitMove, TypeOK
  <2>4. /\ call[c].at = "move"
        /\ Insert(call[c].sequence, row)
        /\ call' = [call EXCEPT ![c] = Idle]
        /\ UNCHANGED checkpoints
    BY <1>8 DEF CommitMove
  <2> HIDE DEF row
  <2> QED
    BY <1>5, <2>2, <2>3, <2>4
<1>9. ASSUME NEW c \in Callers, CommitNote(c)
      PROVE  IInv'
  <2>1. [subject |-> Note] \in Row
    BY DEF Row
  <2>2. state' \in [Subjects -> AnyStatus]
    BY <1>9 DEF CommitNote, TypeOK
  <2> QED
    BY <1>5, <1>9, <2>1, <2>2 DEF CommitNote
<1>10. ASSUME NEW c \in Callers, Abandon(c)
       PROVE  IInv'
  BY <1>3, <1>4, <1>10 DEF Abandon
<1>11. ASSUME NEW c \in Callers, ReadStatus(c)
       PROVE  IInv'
  <2> DEFINE w == [at |-> "status_read", status |-> state[Task]]
  <2>1. w \in Call /\ w.at \notin {"move", "note"} /\ w.at # "move"
    BY DEF Call, TypeOK, Subjects
  <2>2. call' = [call EXCEPT ![c] = w] /\ UNCHANGED <<state, events, checkpoints>>
    BY <1>11 DEF ReadStatus
  <2> HIDE DEF w
  <2> QED
    BY <1>3, <2>1, <2>2
<1>12. ASSUME NEW c \in Callers, ReadEvents(c)
       PROVE  IInv'
  <2> DEFINE w == [at |-> "events_read", status |-> call[c].status,
                   sequence |-> LastSequence]
  <2>1. call[c].status \in AnyStatus
    BY <1>12 DEF ReadEvents, TypeOK, Call, Idle
  <2>2. w \in Call /\ w.at \notin {"move", "note"} /\ w.at # "move"
    BY <1>2, <2>1 DEF Call
  <2>3. call' = [call EXCEPT ![c] = w] /\ UNCHANGED <<state, events, checkpoints>>
    BY <1>12 DEF ReadEvents
  <2> HIDE DEF w
  <2> QED
    BY <1>3, <2>2, <2>3
<1>13. ASSUME NEW c \in Callers, CompareCheckpoint(c)
       PROVE  IInv'
  <2> DEFINE w == [call[c] EXCEPT !.at = "saving"]
  <2>1. w \in Call /\ w.at \notin {"move", "note"} /\ w.at # "move"
    BY <1>13 DEF CompareCheckpoint, TypeOK, Call, Idle
  <2>2. /\ call' = [call EXCEPT ![c] = Idle] \/ call' = [call EXCEPT ![c] = w]
        /\ UNCHANGED <<state, events, checkpoints>>
    BY <1>13 DEF CompareCheckpoint
  <2> HIDE DEF w
  <2> QED
    BY <1>3, <1>4, <2>1, <2>2
<1>14. ASSUME NEW c \in Callers, SaveCheckpoint(c)
       PROVE  IInv'
  <2>1. call[c].status \in AnyStatus /\ call[c].sequence \in Nat
    BY <1>14 DEF SaveCheckpoint, TypeOK, Call, Idle
  <2>2. TypeOK'
    BY <1>4, <1>14, <2>1 DEF SaveCheckpoint, TypeOK
  <2>3. call \in [Callers -> Call]
    BY DEF TypeOK
  <2>4. Pending'
    BY <1>4, <1>14, <2>3 DEF SaveCheckpoint, Pending, Allowed
  <2> QED
    BY <2>2, <2>4
<1>15. CASE UNCHANGED vars
  BY <1>15 DEF vars, TypeOK, Pending, Allowed
<1> QED
  BY <1>6, <1>7, <1>8, <1>9, <1>10, <1>11, <1>12, <1>13, <1>14, <1>15
  DEF Next

(* Whatever the callers interleave, the log of events stays gap-free and   *)
(* every record has its type.                                              *)
THEOREM Invariance == Spec => []IInv
  BY InitIInv, NextIInv, PTL DEF Spec

THEOREM TypeCorrect == Spec => []TypeOK
<1>1. IInv => TypeOK
  BY DEF IInv
<1> QED
  BY <1>1, Invariance, PTL

(* The one step that writes the log appends, and the move it records was    *)
(* made from the status the row had.                                       *)
LEMMA CommitMoveAppends ==
  ASSUME IInv, NEW c \in Callers, CommitMove(c)
  PROVE  \E k \in Nat, s \in Subjects, to \in AnyStatus :
           LET row == [subject |-> s, from |-> state[s], to |-> to] IN
           /\ events \in [1..k -> Row]
           /\ events' \in [1..(k + 1) -> Row]
           /\ \A n \in 1..k : events'[n] = events[n]
           /\ events'[k + 1] = row
           /\ events' = Append(events, row)
           /\ state' = [state EXCEPT ![s] = to]
           /\ Allowed(s, state[s], to)
<1>1. PICK k \in 1..MaxEvents : events \in [1..k -> Row]
  BY DEF IInv, TypeOK
<1>2. k \in Nat
  BY BoundsNat
<1> DEFINE w == call[c]
           row == [subject |-> w.subject, from |-> w.from, to |-> w.to]
<1>3. /\ w.at = "move"
      /\ state[w.subject] = w.from
      /\ Insert(w.sequence, row)
      /\ state' = [state EXCEPT ![w.subject] = w.to]
  BY DEF CommitMove
<1>4. /\ w.subject \in Subjects
      /\ w.from \in AnyStatus
      /\ w.to \in AnyStatus
      /\ w.sequence \in Nat \ {0}
  BY <1>3 DEF IInv, TypeOK, Call, Idle
<1>5. row \in Row
  BY <1>4 DEF Row
<1>6. 1..(w.sequence - 1) \subseteq DOMAIN events /\ Allowed(w.subject, w.from, w.to)
  BY <1>3 DEF IInv, Pending
<1> HIDE DEF w
<1>7. /\ events' \in [1..(k + 1) -> Row]
      /\ \A n \in 1..k : events'[n] = events[n]
      /\ events'[k + 1] = row
      /\ events' = Append(events, row)
  <2> HIDE DEF row
  <2> QED
    BY <1>1, <1>2, <1>3, <1>4, <1>5, <1>6, InsertIsAppend
<1>8. row = [subject |-> w.subject, from |-> state[w.subject], to |-> w.to]
  BY <1>3
<1> QED
  BY <1>1, <1>2, <1>3, <1>4, <1>6, <1>7, <1>8

LEMMA CommitNoteAppends ==
  ASSUME IInv, NEW c \in Callers, CommitNote(c)
  PROVE  \E k \in Nat :
           /\ events \in [1..k -> Row]
           /\ events' \in [1..(k + 1) -> Row]
           /\ \A n \in 1..k : events'[n] = events[n]
           /\ events'[k + 1] = [subject |-> Note]
           /\ events' = Append(events, [subject |-> Note])
           /\ state' = state
<1>1. PICK k \in 1..MaxEvents : events \in [1..k -> Row]
  BY DEF IInv, TypeOK
<1>2. k \in Nat
  BY BoundsNat
<1>3. /\ call[c].at = "note"
      /\ Insert(call[c].sequence, [subject |-> Note])
      /\ state' = state
  BY DEF CommitNote
<1>4. call[c].sequence \in Nat \ {0}
  BY <1>3 DEF IInv, TypeOK, Call, Idle
<1>5. [subject |-> Note] \in Row
  BY DEF Row
<1>6. 1..(call[c].sequence - 1) \subseteq DOMAIN events
  BY <1>3 DEF IInv, Pending
<1> QED
  BY <1>1, <1>2, <1>3, <1>4, <1>5, <1>6, InsertIsAppend

(* Every other step leaves the statuses and the log alone.                 *)
LEMMA OtherStepsRead ==
  ASSUME [Next]_vars,
         \A c \in Callers : ~CommitMove(c) /\ ~CommitNote(c)
  PROVE  UNCHANGED <<state, events>>
  BY DEF Next, vars, BeginMove, BeginNote, Abandon, ReadStatus, ReadEvents,
         CompareCheckpoint, SaveCheckpoint

(* Journal and EventLog read the same tables.                              *)
LEMMA SameTables ==
  /\ \A from : J!Successors(from) = Successors(from)
  /\ J!StepMoves = StepMoves
  /\ J!TaskStatus = TaskStatus
  /\ J!StepStatus = StepStatus
BY DEF J!Successors, Successors, J!StepMoves, StepMoves, J!TaskStatus,
       TaskStatus, J!StepStatus, StepStatus

(* The transactions of the store implement the journal.                    *)
THEOREM Refinement == Spec => ImplementsJournal
<1>1. Init => J!Init
  BY SubjectsDistinct DEF Init, J!Init, InitialStatus, CreationLog, Subjects, J!Subjects
<1>2. IInv /\ [Next]_vars => [J!Next]_<<state, events>>
  <2> SUFFICES ASSUME IInv, [Next]_vars
               PROVE  J!Next \/ UNCHANGED <<state, events>>
    OBVIOUS
  <2>1. ASSUME NEW c \in Callers, CommitMove(c)
        PROVE  J!Next
    <3>1. PICK s \in Subjects, to \in AnyStatus :
            /\ events' = Append(events, [subject |-> s, from |-> state[s], to |-> to])
            /\ state' = [state EXCEPT ![s] = to]
            /\ Allowed(s, state[s], to)
      BY <2>1, CommitMoveAppends
    <3>2. J!Move(s, to)
      BY <3>1, SameTables DEF J!Move, J!Allowed, Allowed, J!CanTransition, CanTransition
    <3> QED
      BY <3>2, SameTables DEF J!Next, J!Subjects, Subjects, AnyStatus
  <2>2. ASSUME NEW c \in Callers, CommitNote(c)
        PROVE  J!Next
    <3>1. events' = Append(events, [subject |-> Note]) /\ state' = state
      BY <2>2, CommitNoteAppends
    <3> QED
      BY <3>1 DEF J!Next, J!Annotate
  <2> QED
    BY <2>1, <2>2, OtherStepsRead
<1> QED
  BY <1>1, <1>2, Invariance, PTL DEF Spec, ImplementsJournal, J!Spec

(* The last event about a subject names the status of its row.             *)
THEOREM ReplayCorrect == Spec => []ReplayGivesState
<1>1. Init => ReplayGivesState
  <2> SUFFICES ASSUME Init PROVE ReplayGivesState
    OBVIOUS
  <2>1. /\ DOMAIN events = 1..4
        /\ events[1] = [subject |-> Note]
        /\ events[2].subject = Task
        /\ events[3] = [subject |-> Note]
        /\ events[4].subject = Task /\ events[4].to = "READY"
    BY DEF Init, CreationLog
  <2>2. state[Task] = "READY" /\ \A s \in Subjects : state[s] = InitialStatus(s)
    BY DEF Init, Subjects, InitialStatus
  <2>3. 4 \in Rows(Task) /\ \A m \in Rows(Task) : m <= 4
    BY <2>1 DEF Rows
  <2>4. ASSUME NEW s \in Steps PROVE Rows(s) = {}
    BY <2>1, SubjectsDistinct DEF Rows
  <2> QED
    BY <2>1, <2>2, <2>3, <2>4 DEF ReplayGivesState, Subjects
<1>2. IInv /\ ReplayGivesState /\ [Next]_vars => ReplayGivesState'
  <2> SUFFICES ASSUME IInv, ReplayGivesState, [Next]_vars
               PROVE  ReplayGivesState'
    OBVIOUS
  <2>1. ASSUME NEW c \in Callers, CommitMove(c)
        PROVE  ReplayGivesState'
    <3>1. PICK k \in Nat, s \in Subjects, to \in AnyStatus :
            /\ events \in [1..k -> Row]
            /\ events' \in [1..(k + 1) -> Row]
            /\ \A n \in 1..k : events'[n] = events[n]
            /\ events'[k + 1] = [subject |-> s, from |-> state[s], to |-> to]
            /\ state' = [state EXCEPT ![s] = to]
      BY <2>1, CommitMoveAppends
    <3>2. Rows(s)' = Rows(s) \cup {k + 1} /\ events'[k + 1].to = to
      BY <3>1 DEF Rows
    <3>3. \A m \in Rows(s)' : m <= k + 1
      BY <3>1, <3>2 DEF Rows
    <3>4. state'[s] = to
      BY <3>1 DEF IInv, TypeOK
    <3>5. ASSUME NEW r \in Subjects, r # s
          PROVE  Rows(r)' = Rows(r) /\ state'[r] = state[r]
      BY <3>1, <3>5 DEF Rows, IInv, TypeOK
    <3>6. \A r \in Subjects : \A n \in Rows(r) : events'[n] = events[n]
      BY <3>1 DEF Rows
    <3>7. ASSUME NEW r \in Subjects
          PROVE  \/ Rows(r)' = {} /\ state'[r] = InitialStatus(r)
                 \/ \E n \in Rows(r)' : /\ events'[n].to = state'[r]
                                         /\ \A m \in Rows(r)' : m <= n
      <4>1. CASE r = s
        BY <3>2, <3>3, <3>4, <4>1
      <4>2. CASE r # s
        BY <3>5, <3>6, <4>2 DEF ReplayGivesState
      <4> QED
        BY <4>1, <4>2
    <3> QED
      BY <3>7 DEF ReplayGivesState, InitialStatus
  <2>2. ASSUME NEW c \in Callers, CommitNote(c)
        PROVE  ReplayGivesState'
    <3>1. PICK k \in Nat :
            /\ events \in [1..k -> Row]
            /\ events' \in [1..(k + 1) -> Row]
            /\ \A n \in 1..k : events'[n] = events[n]
            /\ events'[k + 1] = [subject |-> Note]
            /\ state' = state
      BY <2>2, CommitNoteAppends
    <3>2. ASSUME NEW r \in Subjects
          PROVE  Rows(r)' = Rows(r) /\ \A n \in Rows(r) : events'[n] = events[n]
      BY <3>1, SubjectsDistinct DEF Rows, Subjects
    <3> QED
      BY <3>1, <3>2 DEF ReplayGivesState, InitialStatus
  <2>3. CASE UNCHANGED <<state, events>>
    BY <2>3 DEF ReplayGivesState, Rows, InitialStatus
  <2> QED
    BY <2>1, <2>2, <2>3, OtherStepsRead
<1> QED
  BY <1>1, <1>2, Invariance, PTL DEF Spec

(* A task or step that is done stays as it is.                             *)
THEOREM Finality == Spec => TerminalIsFinal
<1> DEFINE Kept == \A s \in Subjects : Finished(s) => state'[s] = state[s]
<1>1. IInv /\ [Next]_vars => [Kept]_vars
  <2> SUFFICES ASSUME IInv, [Next]_vars PROVE Kept
    OBVIOUS
  <2>1. ASSUME NEW c \in Callers, CommitMove(c)
        PROVE  Kept
    <3>1. PICK s \in Subjects, to \in AnyStatus :
            /\ state' = [state EXCEPT ![s] = to]
            /\ Allowed(s, state[s], to)
      BY <2>1, CommitMoveAppends
    <3>2. ~Finished(s)
      <4>1. CASE s = Task
        BY <3>1, <4>1 DEF Allowed, Finished, CanTransition, Successors, TaskTerminal
      <4>2. CASE s # Task
        BY <3>1, <4>2 DEF Allowed, Finished, StepMoves, StepTerminal
      <4> QED
        BY <4>1, <4>2
    <3> QED
      BY <3>1, <3>2 DEF IInv, TypeOK
  <2>2. ASSUME NEW c \in Callers, CommitNote(c)
        PROVE  Kept
    BY <2>2 DEF CommitNote
  <2> QED
    BY <2>1, <2>2, OtherStepsRead
<1> QED
  BY <1>1, Invariance, PTL DEF Spec, TerminalIsFinal

(* Events are never overwritten, renumbered or removed.                    *)
THEOREM LogIsAppendOnly == Spec => AppendOnly
<1> DEFINE Kept == \A n \in DOMAIN events :
                     n \in DOMAIN events' /\ events'[n] = events[n]
<1>1. IInv /\ [Next]_vars => [Kept]_vars
  <2> SUFFICES ASSUME IInv, [Next]_vars PROVE Kept
    OBVIOUS
  <2>1. ASSUME NEW c \in Callers, CommitMove(c)
        PROVE  Kept
    <3>1. PICK k \in Nat :
            /\ events \in [1..k -> Row]
            /\ events' \in [1..(k + 1) -> Row]
            /\ \A n \in 1..k : events'[n] = events[n]
      BY <2>1, CommitMoveAppends
    <3> QED
      BY <3>1
  <2>2. ASSUME NEW c \in Callers, CommitNote(c)
        PROVE  Kept
    BY <2>2, CommitNoteAppends
  <2> QED
    BY <2>1, <2>2, OtherStepsRead
<1> QED
  BY <1>1, Invariance, PTL DEF Spec, AppendOnly
----
(* Checkpoints.  A reader holds a status that some event up to the last one *)
(* it knows of gave the task; events stay, so it goes on to be true.        *)
ReachedBy(status, n) ==
  \E k \in Rows(Task) : k <= n /\ events[k].to = status

Reached ==
  /\ Rows(Task) # {}
  /\ \A n \in DOMAIN checkpoints : ReachedBy(checkpoints[n], n)
  /\ \A c \in Callers :
       /\ call[c].at = "status_read" => ReachedBy(call[c].status, LastSequence)
       /\ call[c].at \in {"events_read", "saving"} =>
            ReachedBy(call[c].status, call[c].sequence)

LEMMA CurrentIsReached ==
  ASSUME IInv, ReplayGivesState, Rows(Task) # {}
  PROVE  ReachedBy(state[Task], LastSequence)
<1>1. PICK k \in 1..MaxEvents : events \in [1..k -> Row]
  BY DEF IInv, TypeOK
<1>2. LastSequence = k
  BY <1>1, LastIsLength, BoundsNat
<1>3. PICK n \in Rows(Task) : events[n].to = state[Task]
  BY DEF ReplayGivesState, Subjects
<1>4. n <= k
  BY <1>1, <1>3 DEF Rows
<1> QED
  BY <1>2, <1>3, <1>4 DEF ReachedBy

(* One more event: what was reached stays reached. *)
LEMMA ReachedStays ==
  ASSUME NEW k \in Nat, events \in [1..k -> Row], events' \in [1..(k + 1) -> Row],
         \A n \in 1..k : events'[n] = events[n], NEW status
  PROVE  /\ Rows(Task) \subseteq Rows(Task)'
         /\ LastSequence = k /\ LastSequence' = k + 1
         /\ \A n : ReachedBy(status, n) => ReachedBy(status, n)'
         /\ ReachedBy(status, k) => ReachedBy(status, k + 1)'
<1>1. DOMAIN events = 1..k /\ DOMAIN events' = 1..(k + 1)
  OBVIOUS
<1>2. Rows(Task) \subseteq Rows(Task)'
  BY DEF Rows
<1>3. LastSequence = k
  BY <1>1, LastIsLength
<1>4. LastSequence' = k + 1
  <2>1. k + 1 \in DOMAIN events' /\ \A n \in DOMAIN events' : n <= k + 1
    BY <1>1
  <2>2. \A m \in DOMAIN events' : (\A n \in DOMAIN events' : n <= m) => m = k + 1
    BY <1>1
  <2>3. (CHOOSE m \in DOMAIN events' : \A n \in DOMAIN events' : n <= m) = k + 1
    BY <2>1, <2>2
  <2> QED
    BY <2>1, <2>3 DEF LastSequence
<1>5. \A n : ReachedBy(status, n) => ReachedBy(status, n)'
  BY <1>2 DEF ReachedBy, Rows
<1>6. ReachedBy(status, k) => ReachedBy(status, k + 1)'
  BY <1>2 DEF ReachedBy, Rows
<1> QED
  BY <1>2, <1>3, <1>4, <1>5, <1>6

LEMMA CommitReached ==
  ASSUME IInv, Reached, NEW c \in Callers, CommitMove(c) \/ CommitNote(c)
  PROVE  Reached'
<1>1. PICK k \in Nat : /\ events \in [1..k -> Row]
                       /\ events' \in [1..(k + 1) -> Row]
                       /\ \A n \in 1..k : events'[n] = events[n]
  BY CommitMoveAppends, CommitNoteAppends
<1>2. /\ call' = [call EXCEPT ![c] = Idle] /\ checkpoints' = checkpoints
      /\ call \in [Callers -> Call]
  BY DEF CommitMove, CommitNote, IInv, TypeOK
<1>3. Rows(Task)' # {}
  BY <1>1, ReachedStays DEF Reached
<1>4. \A n \in DOMAIN checkpoints' : ReachedBy(checkpoints[n], n)'
  BY <1>1, <1>2, ReachedStays DEF Reached
<1>5. ASSUME NEW d \in Callers, call'[d] # Idle
      PROVE  /\ call'[d] = call[d]
             /\ call[d].at = "status_read" => ReachedBy(call[d].status, LastSequence)'
             /\ call[d].at \in {"events_read", "saving"} =>
                  ReachedBy(call[d].status, call[d].sequence)'
  <2>1. call'[d] = call[d]
    BY <1>2, <1>5
  <2>2. ASSUME call[d].at = "status_read"
        PROVE  ReachedBy(call[d].status, LastSequence)'
    <3>1. LastSequence = k /\ LastSequence' = k + 1
      BY <1>1, ReachedStays
    <3>2. ReachedBy(call[d].status, k)
      BY <2>2, <3>1 DEF Reached
    <3>3. \E j \in Rows(Task) : j <= k /\ events[j].to = call[d].status
      BY <3>2 DEF ReachedBy
    <3>4. \E j \in Rows(Task)' : j <= k + 1 /\ events'[j].to = call'[d].status
      BY <1>1, <2>1, <3>3 DEF Rows
    <3> QED
      BY <2>1, <3>1, <3>4 DEF ReachedBy
  <2>3. ASSUME call[d].at \in {"events_read", "saving"}
        PROVE  ReachedBy(call[d].status, call[d].sequence)'
    <3>1. \E j \in Rows(Task) : j <= call[d].sequence /\ events[j].to = call[d].status
      BY <2>3 DEF Reached, ReachedBy
    <3>2. \E j \in Rows(Task)' : j <= call'[d].sequence /\ events'[j].to = call'[d].status
      BY <1>1, <2>1, <3>1 DEF Rows
    <3> QED
      BY <3>2, <2>1 DEF ReachedBy
  <2> QED
    BY <2>1, <2>2, <2>3
<1>6. Idle.at \notin {"status_read", "events_read", "saving"}
  BY DEF Idle
<1>7. \A d \in Callers :
        /\ call'[d].at = "status_read" => ReachedBy(call[d].status, LastSequence)'
        /\ call'[d].at \in {"events_read", "saving"} =>
             ReachedBy(call[d].status, call[d].sequence)'
  BY <1>5, <1>6
<1> QED
  BY <1>2, <1>3, <1>4, <1>7 DEF Reached

(* Everything else leaves the log alone. *)
LEMMA ReadersReached ==
  ASSUME IInv, ReplayGivesState, Reached, NEW c \in Callers, NEW w \in Call,
         call' = [call EXCEPT ![c] = w], UNCHANGED <<state, events>>,
         \A n \in DOMAIN checkpoints' : ReachedBy(checkpoints'[n], n),
         w.at = "status_read" => ReachedBy(w.status, LastSequence),
         w.at \in {"events_read", "saving"} => ReachedBy(w.status, w.sequence)
  PROVE  Reached'
<1>1. Rows(Task)' = Rows(Task) /\ LastSequence' = LastSequence
  BY DEF Rows, LastSequence
<1>2. \A status, n : ReachedBy(status, n) <=> \E k \in Rows(Task)' : k <= n /\ events'[k].to = status
  BY <1>1 DEF ReachedBy
<1>3. \A d \in Callers : call'[d] = IF d = c THEN w ELSE call[d]
  BY DEF IInv, TypeOK
<1>4. \A d \in Callers :
        /\ call'[d].at = "status_read" => ReachedBy(call'[d].status, LastSequence)
        /\ call'[d].at \in {"events_read", "saving"} =>
             ReachedBy(call'[d].status, call'[d].sequence)
  BY <1>3 DEF Reached
<1> QED
  BY <1>1, <1>2, <1>4 DEF Reached, ReachedBy

LEMMA NextReached ==
  ASSUME IInv, ReplayGivesState, Reached, [Next]_vars
  PROVE  Reached'
<1>1. Idle \in Call /\ Idle.at = "idle"
  BY DEF Idle, Call
<1>2. ASSUME NEW c \in Callers, NEW s \in Subjects, NEW from \in AnyStatus,
             NEW to \in AnyStatus, BeginMove(c, s, from, to)
      PROVE  Reached'
  <2> DEFINE w == [at |-> "move", subject |-> s, from |-> from, to |-> to,
                   sequence |-> NextSequence]
  <2>1. PICK k \in 1..MaxEvents : events \in [1..k -> Row]
    BY DEF IInv, TypeOK
  <2>2. NextSequence \in Nat \ {0}
    BY <2>1, LastIsLength, BoundsNat DEF NextSequence
  <2>3. w \in Call /\ w.at = "move"
    BY <2>2 DEF Call
  <2>4. call' = [call EXCEPT ![c] = w] /\ UNCHANGED <<state, events, checkpoints>>
    BY <1>2 DEF BeginMove
  <2> HIDE DEF w
  <2> QED
    BY <2>3, <2>4, ReadersReached DEF Reached
<1>3. ASSUME NEW c \in Callers, BeginNote(c)
      PROVE  Reached'
  <2> DEFINE w == [at |-> "note", sequence |-> NextSequence]
  <2>1. PICK k \in 1..MaxEvents : events \in [1..k -> Row]
    BY DEF IInv, TypeOK
  <2>2. NextSequence \in Nat \ {0}
    BY <2>1, LastIsLength, BoundsNat DEF NextSequence
  <2>3. w \in Call /\ w.at = "note"
    BY <2>2 DEF Call
  <2>4. call' = [call EXCEPT ![c] = w] /\ UNCHANGED <<state, events, checkpoints>>
    BY <1>3 DEF BeginNote
  <2> HIDE DEF w
  <2> QED
    BY <2>3, <2>4, ReadersReached DEF Reached
<1>4. ASSUME NEW c \in Callers, Abandon(c)
      PROVE  Reached'
  BY <1>1, <1>4, ReadersReached DEF Abandon, Reached
<1>5. ASSUME NEW c \in Callers, ReadStatus(c)
      PROVE  Reached'
  <2> DEFINE w == [at |-> "status_read", status |-> state[Task]]
  <2>1. w \in Call /\ w.at = "status_read" /\ w.status = state[Task]
    BY DEF Call, IInv, TypeOK, Subjects
  <2>2. call' = [call EXCEPT ![c] = w] /\ UNCHANGED <<state, events, checkpoints>>
    BY <1>5 DEF ReadStatus
  <2>3. ReachedBy(w.status, LastSequence)
    BY <2>1, CurrentIsReached DEF Reached
  <2> HIDE DEF w
  <2> QED
    BY <2>1, <2>2, <2>3, ReadersReached DEF Reached
<1>6. ASSUME NEW c \in Callers, ReadEvents(c)
      PROVE  Reached'
  <2> DEFINE w == [at |-> "events_read", status |-> call[c].status,
                   sequence |-> LastSequence]
  <2>1. PICK k \in 1..MaxEvents : events \in [1..k -> Row]
    BY DEF IInv, TypeOK
  <2>2. LastSequence \in Nat
    BY <2>1, LastIsLength, BoundsNat
  <2>3. call[c].status \in AnyStatus
    BY <1>6 DEF ReadEvents, IInv, TypeOK, Call, Idle
  <2>4. /\ w \in Call /\ w.at = "events_read"
        /\ w.status = call[c].status /\ w.sequence = LastSequence
    BY <2>2, <2>3 DEF Call
  <2>5. call' = [call EXCEPT ![c] = w] /\ UNCHANGED <<state, events, checkpoints>>
    BY <1>6 DEF ReadEvents
  <2>6. ReachedBy(w.status, w.sequence)
    BY <1>6, <2>4 DEF ReadEvents, Reached
  <2> HIDE DEF w
  <2> QED
    BY <2>4, <2>5, <2>6, ReadersReached DEF Reached
<1>7. ASSUME NEW c \in Callers, CompareCheckpoint(c)
      PROVE  Reached'
  <2> DEFINE w == [call[c] EXCEPT !.at = "saving"]
  <2>1. /\ w \in Call /\ w.at = "saving" /\ w.status = call[c].status
        /\ w.sequence = call[c].sequence
    BY <1>7 DEF CompareCheckpoint, IInv, TypeOK, Call, Idle
  <2>2. ReachedBy(w.status, w.sequence)
    BY <1>7, <2>1 DEF CompareCheckpoint, Reached
  <2>3. /\ call' = [call EXCEPT ![c] = Idle] \/ call' = [call EXCEPT ![c] = w]
        /\ UNCHANGED <<state, events, checkpoints>>
    BY <1>7 DEF CompareCheckpoint
  <2> HIDE DEF w
  <2> QED
    BY <1>1, <2>1, <2>2, <2>3, ReadersReached DEF Reached
<1>8. ASSUME NEW c \in Callers, SaveCheckpoint(c)
      PROVE  Reached'
  <2>1. \A n \in DOMAIN checkpoints' : ReachedBy(checkpoints'[n], n)
    BY <1>8 DEF SaveCheckpoint, Reached
  <2>2. call' = [call EXCEPT ![c] = Idle] /\ UNCHANGED <<state, events>>
    BY <1>8 DEF SaveCheckpoint
  <2> QED
    BY <1>1, <2>1, <2>2, ReadersReached
<1>9. CASE UNCHANGED vars
  BY <1>9 DEF vars, Reached, ReachedBy, Rows, LastSequence
<1> QED
  BY <1>2, <1>3, <1>4, <1>5, <1>6, <1>7, <1>8, <1>9, CommitReached DEF Next

(* CheckpointNeverAhead: a checkpoint stores a status that the task had     *)
(* reached by the event it is filed under, whatever is written between the  *)
(* two reads of CheckpointTask.                                             *)
THEOREM CheckpointsReached == Spec => []CheckpointNeverAhead
<1>1. Init => Reached
  <2> SUFFICES ASSUME Init PROVE Reached
    OBVIOUS
  <2>1. 4 \in DOMAIN events /\ events[4].subject = Task
    BY DEF Init, CreationLog
  <2> QED
    BY <2>1 DEF Init, Reached, Rows, Idle
<1>2. IInv /\ Reached => CheckpointNeverAhead
  <2> SUFFICES ASSUME IInv, Reached, NEW n \in DOMAIN checkpoints
               PROVE  \E k \in 1..n : TaskStatusBefore(k) = checkpoints[n]
    BY DEF CheckpointNeverAhead
  <2>1. PICK k \in Rows(Task) : k <= n /\ events[k].to = checkpoints[n]
    BY DEF Reached, ReachedBy
  <2>2. n \in Nat /\ k \in Nat \ {0} /\ Rows(Task) \subseteq Nat
    BY <2>1 DEF IInv, TypeOK, Rows
  <2> DEFINE moves == {m \in Rows(Task) : m <= k}
  <2>3. k \in moves /\ \A j \in moves : j <= k
    BY <2>1, <2>2
  <2>4. \A m \in moves : (\A j \in moves : j <= m) => m = k
    BY <2>2, <2>3
  <2>5. (CHOOSE m \in moves : \A j \in moves : j <= m) = k
    BY <2>3, <2>4
  <2>6. TaskStatusBefore(k) = events[k].to
    BY <2>3, <2>5 DEF TaskStatusBefore
  <2> QED
    BY <2>1, <2>2, <2>6
<1> QED
  BY <1>1, <1>2, NextReached, Invariance, ReplayCorrect, PTL DEF Spec
=============================================================================
