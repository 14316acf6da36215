------------------------ MODULE ProviderStreamProofs ------------------------
(***************************************************************************)
(* Theorems about ProviderStream, for any pieces, indexes and windows and  *)
(* streams of any length.                                                  *)
(***************************************************************************)
EXTENDS ProviderStream, SequenceTheorems, FiniteSetTheorems, TLAPS

Open == {"health", "discover", "chat", "send", "scan", "assembled"}

Uncompleted == \A k \in DOMAIN events : events[k].type # "COMPLETED"

(* the answer, which only the stream changes                                *)
AnswerTypes ==
  /\ text \in Seq(Fragments) /\ reasoning \in Seq(Fragments)
  /\ IsFiniteSet(DOMAIN calls) /\ DOMAIN calls \subseteq Indexes
  /\ calls \in [DOMAIN calls -> ToolCall]
  /\ events \in Seq(Event)
  /\ sequence \in Nat /\ lines \in 0 .. MaxLines

ControlTypes ==
  /\ pc \in Open \cup {"tools", "done"}
  /\ caller \in {"app", "probe"}
  /\ context \in Contexts
  /\ outcome \in {NONE, "ok"} \cup Codes
  /\ snapshot \in [window : Nat, streaming : BOOLEAN, tools : BOOLEAN]

(* Until ChatStream returns, the counter is the number of events the sink   *)
(* has, and none of them is the last.                                       *)
Underway ==
  pc \in Open => outcome = NONE /\ sequence = Len(events) /\ Uncompleted

IInv == AnswerTypes /\ ControlTypes /\ Underway /\ CompletedIsLast

LEMMA TypesTogether == TypeOK <=> AnswerTypes /\ ControlTypes
BY DEF TypeOK, AnswerTypes, ControlTypes, Open

LEMMA CodesAreErrors ==
  /\ NONE \notin Codes /\ "ok" \notin Codes
  /\ \A s \in Statuses \ {"ok"} : StatusError(s) \in Codes
  /\ \A c \in Contexts : ContextError(c) \in Codes
  /\ \A c \in Contexts, f \in Failures : TransportError(c, f) \in Codes
<1>1. \A s \in Statuses \ {"ok"} : StatusError(s) \notin {NONE, "ok"}
  BY DEF Statuses, StatusError, NONE
<1>2. NONE \notin Codes /\ "ok" \notin Codes
  BY <1>1 DEF Codes, NONE
<1>. QED
  BY <1>2 DEF Codes, ContextError, TransportError, Contexts, Failures

(* ChatStream returns an error: what the sink has is no completed answer.   *)
LEMMA ErrorReturns ==
  ASSUME IInv, NEW code \in Codes, pc \in Open, Return(code),
         AnswerTypes', UNCHANGED events
  PROVE  IInv'
<1>1. ControlTypes'
  BY DEF IInv, ControlTypes, Return, Goto
<1>2. Uncompleted
  BY DEF IInv, Underway
<1>3. pc' \notin Open /\ outcome' = code
  BY DEF Return, Goto, Open
<1>. QED
  BY <1>1, <1>2, <1>3 DEF IInv, Underway, CompletedIsLast, Uncompleted

(* What the answer does not touch keeps it.                                 *)
LEMMA AnswerKept ==
  ASSUME UNCHANGED answer
  PROVE  /\ AnswerTypes => AnswerTypes'
         /\ Uncompleted => Uncompleted'
         /\ UNCHANGED events
BY DEF AnswerTypes, answer, Uncompleted

LEMMA Starts == Init => IInv
<1>. SUFFICES ASSUME Init PROVE IInv
  OBVIOUS
<1>1. AnswerTypes
  BY FS_EmptySet, MaxLinesNat DEF Init, AnswerTypes
<1>2. ControlTypes
  BY WindowsNat DEF Init, ControlTypes, Open, NoCapabilities, Contexts
<1>. QED
  BY <1>1, <1>2 DEF Init, IInv, Underway, CompletedIsLast, Uncompleted, Open

-----------------------------------------------------------------------------
(* What a chunk adds.                                                       *)
LEMMA CallsGrow ==
  ASSUME IInv, NEW chunk \in Chunk
  PROVE  /\ IsFiniteSet(DOMAIN CallsWith(chunk))
         /\ DOMAIN CallsWith(chunk) \subseteq Indexes
         /\ CallsWith(chunk) \in [DOMAIN CallsWith(chunk) -> ToolCall]
         /\ chunk.delta => Extended(chunk) \in ToolCall
<1>1. CASE ~ chunk.delta
  BY <1>1 DEF CallsWith, IInv, AnswerTypes
<1>2. CASE chunk.delta
  <2>1. chunk \in CallChunk
    BY <1>2 DEF Chunk, TextChunk
  <2>2. /\ chunk.index \in Indexes
        /\ chunk.name \in Seq(STRING) /\ chunk.args \in Seq(STRING)
    BY <2>1, PiecesAreStrings DEF CallChunk
  <2>3. CallAt(chunk.index) \in ToolCall
    BY <2>2 DEF CallAt, IInv, AnswerTypes, ToolCall
  <2>4. Extended(chunk) \in ToolCall
    <3>1. /\ CallAt(chunk.index).name \o chunk.name \in Seq(STRING)
          /\ CallAt(chunk.index).args \o chunk.args \in Seq(STRING)
      BY <2>2, <2>3, ConcatProperties DEF ToolCall
    <3>. QED
      BY <3>1 DEF Extended, ToolCall
  <2>5. IsFiniteSet(DOMAIN calls \cup {chunk.index})
    BY FS_AddElement DEF IInv, AnswerTypes
  <2>. QED
    BY <1>2, <2>2, <2>4, <2>5 DEF CallsWith, IInv, AnswerTypes
<1>. QED
  BY <1>1, <1>2 DEF Chunk, TextChunk, CallChunk

LEMMA EventsAdded ==
  ASSUME IInv, NEW chunk \in Chunk
  PROVE  \/ EventsOf(chunk) = << >>
         \/ \E e \in Event :
              /\ EventsOf(chunk) = <<e>>
              /\ e.sequence = sequence + 1 /\ e.type # "COMPLETED"
<1>1. CASE chunk.content # NONE
  <2>1. chunk.content \in Fragments
    BY <1>1 DEF Chunk, TextChunk, CallChunk
  <2>2. TextEvent(chunk) \in Event
    BY <2>1 DEF TextEvent, Event, IInv, AnswerTypes
  <2>. QED
    BY <1>1, <2>2 DEF EventsOf, TextEvent
<1>2. CASE chunk.content = NONE /\ chunk.delta
  <2>1. chunk.index \in Indexes
    BY <1>2 DEF Chunk, TextChunk, CallChunk
  <2>2. CallEvent(chunk) \in Event
    BY <1>2, <2>1, CallsGrow DEF CallEvent, Event, IInv, AnswerTypes
  <2>. QED
    BY <1>2, <2>2 DEF EventsOf, CallEvent
<1>. QED
  BY <1>1, <1>2 DEF EventsOf

LEMMA Assembled ==
  ASSUME IInv, NEW chunk \in Chunk, Scanning, Assemble(chunk),
         events' \in Seq(Event)
  PROVE  AnswerTypes'
<1>1. text' \in Seq(Fragments) /\ reasoning' \in Seq(Fragments)
  <2>1. /\ chunk.content # NONE => chunk.content \in Fragments
        /\ chunk.reasoning # NONE => chunk.reasoning \in Fragments
    BY DEF Chunk, TextChunk, CallChunk
  <2>2. text \in Seq(Fragments) /\ reasoning \in Seq(Fragments)
    BY DEF IInv, AnswerTypes
  <2>. QED
    BY <2>1, <2>2, AppendProperties DEF Assemble
<1>2. sequence' \in Nat
  BY EventsAdded DEF Assemble, IInv, AnswerTypes
<1>3. lines' \in 0 .. MaxLines
  BY MaxLinesNat DEF Assemble, Scanning, IInv, AnswerTypes
<1>4. calls' = CallsWith(chunk)
  BY DEF Assemble
<1>5. /\ IsFiniteSet(DOMAIN calls') /\ DOMAIN calls' \subseteq Indexes
      /\ calls' \in [DOMAIN calls' -> ToolCall]
  BY <1>4, CallsGrow
<1>. QED
  BY <1>1, <1>2, <1>3, <1>5 DEF AnswerTypes

LEMMA ChunkIsRead ==
  ASSUME IInv, NEW chunk \in Chunk, ReadChunk(chunk)
  PROVE  IInv'
<1>. DEFINE new == EventsOf(chunk)
<1>1. /\ Scanning /\ Assemble(chunk) /\ events' = events \o new
      /\ UNCHANGED <<pc, caller, context, outcome, snapshot>>
  BY DEF ReadChunk
<1>2. /\ sequence = Len(events) /\ Uncompleted /\ outcome = NONE
      /\ pc = "scan"
  BY <1>1 DEF IInv, Underway, Scanning, Open
<1>3. events \in Seq(Event) /\ sequence' = sequence + Len(new)
  BY <1>1 DEF IInv, AnswerTypes, Assemble
<1>4. ControlTypes'
  BY <1>1 DEF IInv, ControlTypes
<1>5. CASE new = << >>
  <2>1. events' = events /\ sequence' = sequence
    BY <1>1, <1>3, <1>5, EmptySeq, ConcatEmptySeq DEF IInv, AnswerTypes
  <2>2. AnswerTypes'
    BY <1>1, <1>3, <2>1, Assembled
  <2>. QED
    BY <1>1, <1>2, <1>4, <2>1, <2>2
    DEF IInv, Underway, CompletedIsLast, Uncompleted
<1>6. ASSUME NEW e \in Event, new = <<e>>, e.sequence = sequence + 1,
             e.type # "COMPLETED"
      PROVE  IInv'
  <2>1. events' = Append(events, e)
    BY <1>1, <1>3, <1>6, AppendIsConcat
  <2>2. /\ events' \in Seq(Event) /\ Len(events') = Len(events) + 1
        /\ \A k \in 1 .. Len(events) : events'[k] = events[k]
        /\ events'[Len(events) + 1] = e
    BY <1>3, <2>1, AppendProperties
  <2>3. /\ Len(events) \in Nat /\ DOMAIN events = 1 .. Len(events)
        /\ DOMAIN events' = 1 .. Len(events) + 1
    BY <1>3, <2>2, LenProperties
  <2>4. sequence' = Len(events')
    BY <1>2, <1>3, <1>6, <2>2, <2>3
  <2>5. /\ \A k \in DOMAIN events' : events'[k].sequence = k
        /\ Uncompleted'
    BY <1>2, <1>6, <2>2, <2>3 DEF IInv, CompletedIsLast, Uncompleted
  <2>6. AnswerTypes'
    BY <1>1, <2>2, Assembled
  <2>. QED
    BY <1>1, <1>2, <1>4, <2>4, <2>5, <2>6
    DEF IInv, Underway, CompletedIsLast, Uncompleted
<1>. QED
  BY <1>5, <1>6, EventsAdded

LEMMA SinkGivesUp ==
  ASSUME IInv, NEW chunk \in Chunk, SinkRefuses(chunk)
  PROVE  IInv'
<1>1. AnswerTypes'
  BY Assembled DEF SinkRefuses, IInv, AnswerTypes
<1>2. "SINK_ERROR" \in Codes /\ pc \in Open
  BY DEF Codes, SinkRefuses, Scanning, Open
<1>. QED
  BY <1>1, <1>2, ErrorReturns DEF SinkRefuses

-----------------------------------------------------------------------------
(* The completed answer                                                     *)
LEMMA CallsOrdered ==
  ASSUME IInv, Orderable(calls)
  PROVE  OrderedToolCalls(calls) \in Seq(ToolCall)
<1>. DEFINE n == Cardinality(DOMAIN calls)
<1>1. n \in Nat
  BY FS_CardinalityType DEF IInv, AnswerTypes
<1>2. \A k \in 1 .. n : calls[k - 1] \in ToolCall
  <2>. SUFFICES ASSUME NEW k \in 1 .. n PROVE calls[k - 1] \in ToolCall
    OBVIOUS
  <2>1. k - 1 \in 0 .. n - 1
    BY <1>1
  <2>2. k - 1 \in DOMAIN calls
    BY <2>1 DEF Orderable
  <2>. QED
    BY <2>2 DEF IInv, AnswerTypes
<1>. QED
  BY <1>1, <1>2, IsASeq DEF OrderedToolCalls

LEMMA Completes ==
  ASSUME IInv, Complete
  PROVE  IInv'
<1>1. /\ pc = "assembled" /\ Orderable(calls) /\ sequence' = sequence + 1
      /\ UNCHANGED <<text, reasoning, calls, lines>>
  BY DEF Complete
<1>2. /\ sequence = Len(events) /\ Uncompleted
      /\ events \in Seq(Event) /\ sequence \in Nat
  BY <1>1 DEF IInv, Underway, AnswerTypes, Open
<1>3. CASE caller = "app" /\ UNCHANGED events /\ Return("SINK_ERROR")
  <2>1. AnswerTypes'
    BY <1>1, <1>2, <1>3 DEF IInv, AnswerTypes
  <2>2. "SINK_ERROR" \in Codes /\ pc \in Open
    BY <1>1 DEF Codes, Open
  <2>. QED
    BY <1>3, <2>1, <2>2, ErrorReturns
<1>4. CASE events' = Append(events, Response) /\ Return("ok")
  <2>1. VisibleText(text, reasoning) \in Seq(Fragments)
    BY DEF VisibleText, IInv, AnswerTypes
  <2>2. Response \in Event
    BY <1>1, <1>2, <2>1, CallsOrdered DEF Response, Event
  <2>3. /\ events' \in Seq(Event) /\ Len(events') = Len(events) + 1
        /\ \A k \in 1 .. Len(events) : events'[k] = events[k]
        /\ events'[Len(events) + 1] = Response
    BY <1>2, <1>4, <2>2, AppendProperties
  <2>4. /\ Len(events) \in Nat /\ DOMAIN events = 1 .. Len(events)
        /\ DOMAIN events' = 1 .. Len(events) + 1
    BY <1>2, <2>3, LenProperties
  <2>5. /\ Response.sequence = Len(events) + 1
        /\ Response.type = "COMPLETED"
    BY <1>2 DEF Response
  <2>6. outcome' = "ok" /\ pc' \notin Open
    BY <1>4 DEF Return, Goto, Open
  <2>7. CompletedIsLast'
    BY <1>2, <2>3, <2>4, <2>5, <2>6 DEF IInv, CompletedIsLast, Uncompleted
  <2>8. ControlTypes'
    BY <1>4 DEF IInv, ControlTypes, Return, Goto
  <2>9. AnswerTypes'
    BY <1>1, <1>2, <2>3 DEF IInv, AnswerTypes
  <2>. QED
    BY <2>6, <2>7, <2>8, <2>9 DEF IInv, Underway
<1>. QED
  BY <1>3, <1>4 DEF Complete

-----------------------------------------------------------------------------
(* Steps that leave the answer as it is                                     *)
LEMMA StreamFails ==
  ASSUME IInv,
         \/ MalformedEvent \/ StreamEnds \/ Unordered
         \/ \E f \in Failures : ConnectFails(f) \/ StreamBreaks(f)
  PROVE  IInv'
<1>1. PICK code \in Codes : Return(code) /\ pc \in Open /\ UNCHANGED answer
  BY CodesAreErrors
  DEF MalformedEvent, StreamEnds, Unordered, ConnectFails, StreamBreaks,
      Scanning, Open, Codes, IInv, ControlTypes
<1>2. AnswerTypes' /\ UNCHANGED events
  BY <1>1, AnswerKept DEF IInv
<1>. QED
  BY <1>1, <1>2, ErrorReturns

LEMMA Sends ==
  ASSUME IInv, NEW status \in Statuses, Send(status)
  PROVE  IInv'
<1>1. pc = "send" /\ UNCHANGED answer
  BY DEF Send
<1>2. AnswerTypes' /\ UNCHANGED events
  BY <1>1, AnswerKept DEF IInv
<1>3. CASE context # "live" \/ status # "ok"
  <2>1. PICK code \in Codes : Return(code)
    BY <1>3, CodesAreErrors DEF Send, IInv, ControlTypes
  <2>. QED
    BY <1>1, <1>2, <2>1, ErrorReturns DEF Open
<1>4. CASE context = "live" /\ status = "ok"
  <2>1. /\ pc' = "scan"
        /\ UNCHANGED <<caller, context, answer, outcome, snapshot>>
    BY <1>1, <1>4 DEF Send, Goto
  <2>. QED
    BY <1>1, <1>2, <2>1
    DEF IInv, ControlTypes, Underway, CompletedIsLast, Uncompleted, Open, answer
<1>. QED
  BY <1>3, <1>4

LEMMA ProbeSteps ==
  ASSUME IInv, Probe \/ ContextEnds \/ ReadDone
  PROVE  IInv'
<1>1. UNCHANGED <<answer, outcome>>
  BY DEF Probe, HealthCheck, ProbeChat, ProbeTools, Discover, ContextEnds,
         ReadDone
<1>2. AnswerTypes' /\ UNCHANGED <<events, sequence, outcome>>
  BY <1>1, AnswerKept DEF IInv, answer
<1>3. /\ pc' \in Open \cup {"tools", "done"}
      /\ pc' \in Open => pc \in Open
      /\ caller' \in {"app", "probe"} /\ context' \in Contexts
  BY DEF IInv, ControlTypes, Probe, HealthCheck, ProbeChat, ProbeTools,
         Discover, ContextEnds, ReadDone, Goto, Open
<1>4. snapshot' \in [window : Nat, streaming : BOOLEAN, tools : BOOLEAN]
  <2>1. snapshot \in [window : Nat, streaming : BOOLEAN, tools : BOOLEAN]
    BY DEF IInv, ControlTypes
  <2>2. ASSUME NEW answered \in BOOLEAN, ProbeTools(answered)
        PROVE  snapshot' \in [window : Nat, streaming : BOOLEAN, tools : BOOLEAN]
    <3>1. PICK tools \in BOOLEAN : snapshot' = [snapshot EXCEPT !.tools = tools]
      BY <2>2 DEF ProbeTools
    <3>. QED
      BY <2>1, <3>1
  <2>3. ASSUME NEW found \in Windows, Discover(found)
        PROVE  snapshot' \in [window : Nat, streaming : BOOLEAN, tools : BOOLEAN]
    BY <2>1, <2>3, WindowsNat DEF Discover
  <2>. QED
    BY <2>1, <2>2, <2>3
    DEF Probe, HealthCheck, ProbeChat, ContextEnds, ReadDone
<1>5. ControlTypes'
  BY <1>1, <1>3, <1>4 DEF IInv, ControlTypes
<1>. QED
  BY <1>2, <1>3, <1>5
  DEF IInv, Underway, CompletedIsLast, Uncompleted

LEMMA StepKeeps == IInv /\ [Next]_vars => IInv'
<1>. SUFFICES ASSUME IInv, [Next]_vars PROVE IInv'
  OBVIOUS
<1>1. CASE Stream
  BY <1>1, Sends, StreamFails, ChunkIsRead, SinkGivesUp, ProbeSteps, Completes
  DEF Stream
<1>2. CASE Probe \/ ContextEnds
  BY <1>2, ProbeSteps
<1>3. CASE UNCHANGED vars
  BY <1>3
  DEF vars, answer, IInv, AnswerTypes, ControlTypes, Underway,
      CompletedIsLast, Uncompleted
<1>. QED
  BY <1>1, <1>2, <1>3 DEF Next

(* Before ChatStream returns every event is counted and none is the last;   *)
(* this is what makes the completed answer the last event.                  *)
THEOREM Invariance == Spec => []IInv
BY Starts, StepKeeps, PTL DEF Spec

(* Every piece, call and event keeps its type, and ChatStream returns no    *)
(* error but the named ones.                                                *)
THEOREM TypeCorrect == Spec => []TypeOK
<1>1. IInv => TypeOK
  BY TypesTogether DEF IInv
<1>. QED
  BY <1>1, Invariance, PTL

(* Events are numbered without a gap and the completed answer is the last   *)
(* of them, however long the stream, whatever fails and whatever the sink   *)
(* refuses.                                                                 *)
THEOREM CompletedEnds == Spec => []CompletedIsLast
<1>1. IInv => CompletedIsLast
  BY DEF IInv
<1>. QED
  BY <1>1, Invariance, PTL

-----------------------------------------------------------------------------
(* What the sink reads.  While the stream is under way the sink's account   *)
(* and the adapter's are the same: the text deltas joined are the text, and *)
(* the last delta of each index is the call collected under it.             *)
Following ==
  pc \in Open =>
    /\ Joined(events, text)
    /\ SeenIndexes(events) = DOMAIN calls
    /\ \A index \in DOMAIN calls : LastDelta(events, index, calls[index])

LEMMA Added ==
  ASSUME NEW log \in Seq(Event), NEW e \in Event
  PROVE  LET more == Append(log, e)
         IN  /\ more \in Seq(Event)
             /\ Len(log) \in Nat /\ Len(more) = Len(log) + 1
             /\ DOMAIN log = 1 .. Len(log) /\ DOMAIN more = 1 .. Len(log) + 1
             /\ more[Len(log) + 1] = e
             /\ \A k \in 1 .. Len(log) : more[k] = log[k]
<1>. DEFINE more == Append(log, e)
<1>1. /\ more \in Seq(Event) /\ Len(more) = Len(log) + 1
      /\ more[Len(log) + 1] = e
      /\ \A k \in 1 .. Len(log) : more[k] = log[k]
  BY AppendProperties
<1>2. Len(log) \in Nat /\ DOMAIN log = 1 .. Len(log)
  BY LenProperties
<1>. HIDE DEF more
<1>3. DOMAIN more = 1 .. Len(more)
  BY <1>1, LenProperties
<1>. QED
  BY <1>1, <1>2, <1>3 DEF more

LEMMA DeltasFinite ==
  ASSUME NEW log, NEW n \in Nat
  PROVE  /\ IsFiniteSet(TextDeltas(log, n)) /\ Cardinality(TextDeltas(log, n)) \in Nat
         /\ \A k \in TextDeltas(log, n) :
              /\ k \in Nat /\ k <= n
              /\ Cardinality(TextDeltas(log, k)) \in 1 .. Cardinality(TextDeltas(log, n))
<1>1. IsFiniteSet(1 .. n)
  BY FS_Interval
<1>2. TextDeltas(log, n) \in SUBSET (1 .. n)
  BY DEF TextDeltas
<1>3. IsFiniteSet(TextDeltas(log, n))
  BY <1>1, <1>2, FS_Subset
<1>4. ASSUME NEW k \in TextDeltas(log, n)
      PROVE  /\ k \in Nat /\ k <= n
             /\ Cardinality(TextDeltas(log, k)) \in 1 .. Cardinality(TextDeltas(log, n))
  <2>1. k \in 1 .. n /\ k \in TextDeltas(log, k)
    BY DEF TextDeltas
  <2>2. TextDeltas(log, k) \in SUBSET TextDeltas(log, n)
    BY <2>1 DEF TextDeltas
  <2>3. /\ IsFiniteSet(TextDeltas(log, k))
        /\ Cardinality(TextDeltas(log, k)) <= Cardinality(TextDeltas(log, n))
    BY <1>3, <2>2, FS_Subset
  <2>4. /\ Cardinality(TextDeltas(log, k)) \in Nat
        /\ Cardinality(TextDeltas(log, n)) \in Nat
    BY <1>3, <2>3, FS_CardinalityType
  <2>5. Cardinality(TextDeltas(log, k)) # 0
    BY <2>1, <2>3, FS_EmptySet
  <2>. QED
    BY <2>1, <2>3, <2>4, <2>5
<1>. QED
  BY <1>3, <1>4, FS_CardinalityType

(* an event that is no text leaves the joined text as it was *)
LEMMA JoinedKept ==
  ASSUME NEW log \in Seq(Event), NEW e \in Event, e.type # "TEXT_DELTA",
         NEW t, Joined(log, t)
  PROVE  Joined(Append(log, e), t)
<1>. DEFINE more == Append(log, e)
            n == Len(log)
<1>1. /\ n \in Nat /\ Len(more) = n + 1 /\ more[n + 1] = e
      /\ \A k \in 1 .. n : more[k] = log[k]
  BY Added
<1>. HIDE DEF more
<1>2. \A k \in 0 .. n : TextDeltas(more, k) = TextDeltas(log, k)
  BY <1>1 DEF TextDeltas
<1>3. TextDeltas(more, n + 1) = TextDeltas(log, n)
  BY <1>1 DEF TextDeltas
<1>4. \A k \in TextDeltas(log, n) : k \in 0 .. n /\ k \in 1 .. n
  BY <1>1 DEF TextDeltas
<1>5. Joined(more, t)
  BY <1>1, <1>2, <1>3, <1>4 DEF Joined
<1>. QED
  BY <1>5 DEF more

(* a text delta makes the joined text longer by its own *)
LEMMA JoinedMore ==
  ASSUME NEW log \in Seq(Event), NEW e \in Event, e.type = "TEXT_DELTA",
         NEW t \in Seq(Fragments), NEW said \in Fragments, e.text = said,
         Joined(log, t)
  PROVE  Joined(Append(log, e), Append(t, said))
<1>. DEFINE more == Append(log, e)
            n == Len(log)
            longer == Append(t, said)
            before == TextDeltas(log, n)
            c == Cardinality(before)
<1>1. /\ n \in Nat /\ Len(more) = n + 1 /\ more[n + 1] = e
      /\ \A k \in 1 .. n : more[k] = log[k]
  BY Added
<1>2. /\ Len(longer) = Len(t) + 1 /\ longer[Len(t) + 1] = said
      /\ \A k \in 1 .. Len(t) : longer[k] = t[k]
  BY AppendProperties
<1>. HIDE DEF more, longer
<1>3. \A k \in 0 .. n : TextDeltas(more, k) = TextDeltas(log, k)
  BY <1>1 DEF TextDeltas
<1>4. TextDeltas(more, n + 1) = before \cup {n + 1}
  BY <1>1 DEF TextDeltas
<1>5. /\ IsFiniteSet(before) /\ c \in Nat
      /\ \A k \in before : /\ k \in Nat /\ k <= n
                           /\ Cardinality(TextDeltas(log, k)) \in 1 .. c
  BY <1>1, DeltasFinite
<1>6. n + 1 \notin before
  BY <1>1, <1>5
<1>7. Len(t) = c /\ \A k \in before : t[Cardinality(TextDeltas(log, k))] = log[k].text
  BY DEF Joined
<1>. HIDE DEF before
<1>8. Cardinality(TextDeltas(more, n + 1)) = c + 1
  BY <1>4, <1>5, <1>6, FS_AddElement
<1>9. ASSUME NEW k \in before
      PROVE  longer[Cardinality(TextDeltas(more, k))] = more[k].text
  <2>1. k \in 1 .. n
    BY <1>1 DEF before, TextDeltas
  <2>2. TextDeltas(more, k) = TextDeltas(log, k) /\ more[k] = log[k]
    BY <1>1, <1>3, <2>1
  <2>3. Cardinality(TextDeltas(log, k)) \in 1 .. Len(t)
    BY <1>5, <1>7
  <2>. QED
    BY <1>2, <1>7, <2>2, <2>3
<1>10. longer[Cardinality(TextDeltas(more, n + 1))] = more[n + 1].text
  BY <1>1, <1>2, <1>7, <1>8
<1>11. Joined(more, longer)
  BY <1>1, <1>2, <1>4, <1>7, <1>8, <1>9, <1>10 DEF Joined
<1>. QED
  BY <1>11 DEF more, longer

(* an event of another kind or index leaves the last delta of an index *)
LEMMA LastKept ==
  ASSUME NEW log \in Seq(Event), NEW e \in Event, NEW index, NEW call,
         e.type = "TOOL_CALL_DELTA" => e.index # index,
         LastDelta(log, index, call)
  PROVE  LastDelta(Append(log, e), index, call)
<1>. DEFINE more == Append(log, e)
            n == Len(log)
<1>1. /\ n \in Nat /\ more[n + 1] = e
      /\ DOMAIN log = 1 .. n /\ DOMAIN more = 1 .. n + 1
      /\ \A k \in 1 .. n : more[k] = log[k]
  BY Added
<1>. HIDE DEF more
<1>2. PICK k \in CallDeltas(log) :
        /\ log[k].index = index /\ log[k].call = call
        /\ \A j \in CallDeltas(log) : log[j].index = index => j <= k
  BY DEF LastDelta
<1>3. k \in CallDeltas(more) /\ more[k] = log[k]
  BY <1>1, <1>2 DEF CallDeltas
<1>4. ASSUME NEW j \in CallDeltas(more), more[j].index = index
      PROVE  j <= k
  <2>1. j # n + 1
    BY <1>1, <1>4 DEF CallDeltas
  <2>2. j \in CallDeltas(log) /\ log[j] = more[j]
    BY <1>1, <2>1 DEF CallDeltas
  <2>. QED
    BY <1>2, <1>4, <2>2
<1>5. LastDelta(more, index, call)
  BY <1>2, <1>3, <1>4 DEF LastDelta
<1>. QED
  BY <1>5 DEF more

LEMMA LastAdded ==
  ASSUME NEW log \in Seq(Event), NEW e \in Event, e.type = "TOOL_CALL_DELTA"
  PROVE  LastDelta(Append(log, e), e.index, e.call)
<1>. DEFINE more == Append(log, e)
            n == Len(log)
<1>1. /\ n \in Nat /\ more[n + 1] = e /\ DOMAIN more = 1 .. n + 1
  BY Added
<1>. HIDE DEF more
<1>2. n + 1 \in CallDeltas(more) /\ \A j \in CallDeltas(more) : j <= n + 1
  BY <1>1 DEF CallDeltas
<1>3. LastDelta(more, e.index, e.call)
  BY <1>1, <1>2 DEF LastDelta
<1>. QED
  BY <1>3 DEF more

LEMMA IndexesAdded ==
  ASSUME NEW log \in Seq(Event), NEW e \in Event
  PROVE  SeenIndexes(Append(log, e)) =
           SeenIndexes(log) \cup (IF e.type = "TOOL_CALL_DELTA" THEN {e.index} ELSE {})
<1>. DEFINE more == Append(log, e)
            n == Len(log)
<1>1. /\ n \in Nat /\ more[n + 1] = e
      /\ DOMAIN log = 1 .. n /\ DOMAIN more = 1 .. n + 1
      /\ \A k \in 1 .. n : more[k] = log[k]
  BY Added
<1>. HIDE DEF more
<1>2. CallDeltas(more) =
        CallDeltas(log) \cup (IF e.type = "TOOL_CALL_DELTA" THEN {n + 1} ELSE {})
  BY <1>1 DEF CallDeltas
<1>3. \A k \in CallDeltas(log) : more[k] = log[k]
  BY <1>1 DEF CallDeltas
<1>4. SeenIndexes(more) =
        SeenIndexes(log) \cup (IF e.type = "TOOL_CALL_DELTA" THEN {e.index} ELSE {})
  BY <1>1, <1>2, <1>3 DEF SeenIndexes
<1>. QED
  BY <1>4 DEF more

LEMMA ChunkIsFollowed ==
  ASSUME IInv, Following, NEW chunk \in Chunk, ReadChunk(chunk)
  PROVE  Following'
<1>1. /\ events' = events \o EventsOf(chunk) /\ calls' = CallsWith(chunk)
      /\ text' = IF chunk.content # NONE THEN Append(text, chunk.content) ELSE text
      /\ pc = "scan" /\ pc' = "scan"
  BY DEF ReadChunk, Assemble, Scanning
<1>2. /\ Joined(events, text) /\ SeenIndexes(events) = DOMAIN calls
      /\ \A index \in DOMAIN calls : LastDelta(events, index, calls[index])
      /\ events \in Seq(Event) /\ text \in Seq(Fragments) /\ sequence \in Nat
  BY <1>1 DEF Following, Open, IInv, AnswerTypes
<1>3. CASE chunk.content # NONE
  <2>. DEFINE e == TextEvent(chunk)
  <2>1. chunk.content \in Fragments /\ ~ chunk.delta
    BY <1>3 DEF Chunk, TextChunk, CallChunk
  <2>2. e \in Event /\ e.type = "TEXT_DELTA" /\ e.text = chunk.content
    BY <1>2, <2>1 DEF TextEvent, Event
  <2>3. EventsOf(chunk) = <<e>>
    BY <1>3 DEF EventsOf
  <2>. HIDE DEF e
  <2>4. events' = Append(events, e)
    BY <1>1, <1>2, <2>2, <2>3, AppendIsConcat
  <2>5. calls' = calls /\ text' = Append(text, chunk.content)
    BY <1>1, <1>3, <2>1 DEF CallsWith
  <2>6. Joined(events', text')
    BY <1>2, <2>1, <2>2, <2>4, <2>5, JoinedMore
  <2>7. SeenIndexes(events') = DOMAIN calls'
    BY <1>2, <2>2, <2>4, <2>5, IndexesAdded
  <2>8. \A index \in DOMAIN calls' : LastDelta(events', index, calls'[index])
    BY <1>2, <2>2, <2>4, <2>5, LastKept
  <2>. QED
    BY <2>6, <2>7, <2>8 DEF Following
<1>4. CASE chunk.content = NONE /\ chunk.delta
  <2>. DEFINE e == CallEvent(chunk)
  <2>1. chunk.index \in Indexes /\ Extended(chunk) \in ToolCall
    BY <1>4, CallsGrow DEF Chunk, TextChunk, CallChunk
  <2>2. /\ e \in Event /\ e.type = "TOOL_CALL_DELTA"
        /\ e.index = chunk.index /\ e.call = Extended(chunk)
    BY <1>2, <2>1 DEF CallEvent, Event
  <2>3. EventsOf(chunk) = <<e>>
    BY <1>4 DEF EventsOf
  <2>. HIDE DEF e
  <2>4. events' = Append(events, e)
    BY <1>1, <1>2, <2>2, <2>3, AppendIsConcat
  <2>5. /\ text' = text
        /\ DOMAIN calls' = DOMAIN calls \cup {chunk.index}
        /\ \A index \in DOMAIN calls' :
             calls'[index] = IF index = chunk.index THEN Extended(chunk)
                             ELSE calls[index]
    BY <1>1, <1>4 DEF CallsWith
  <2>6. Joined(events', text')
    BY <1>2, <2>2, <2>4, <2>5, JoinedKept
  <2>7. SeenIndexes(events') = DOMAIN calls'
    BY <1>2, <2>2, <2>4, <2>5, IndexesAdded
  <2>8. ASSUME NEW index \in DOMAIN calls'
        PROVE  LastDelta(events', index, calls'[index])
    <3>1. CASE index = chunk.index
      BY <1>2, <2>2, <2>4, <2>5, <3>1, LastAdded
    <3>2. CASE index # chunk.index
      BY <1>2, <2>2, <2>4, <2>5, <3>2, LastKept
    <3>. QED
      BY <3>1, <3>2
  <2>. QED
    BY <2>6, <2>7, <2>8 DEF Following
<1>5. CASE chunk.content = NONE /\ ~ chunk.delta
  <2>1. EventsOf(chunk) = << >> /\ calls' = calls /\ text' = text
    BY <1>1, <1>5 DEF EventsOf, CallsWith
  <2>2. events' = events
    BY <1>1, <1>2, <2>1, ConcatEmptySeq
  <2>. QED
    BY <1>2, <2>1, <2>2 DEF Following
<1>. QED
  BY <1>3, <1>4, <1>5

(* the completed answer says what the sink has read *)
LEMMA AnswerComplete ==
  ASSUME IInv, Following, Complete
  PROVE  AnswerIsWhatWasStreamed' /\ Following'
<1>1. /\ pc = "assembled" /\ Orderable(calls)
      /\ sequence = Len(events) /\ Uncompleted
      /\ events \in Seq(Event) /\ text \in Seq(Fragments)
      /\ IsFiniteSet(DOMAIN calls)
  BY DEF Complete, IInv, Underway, AnswerTypes, Open
<1>2. pc' \notin Open
  BY DEF Complete, Return, Goto, Open
<1>3. CASE UNCHANGED events
  BY <1>1, <1>2, <1>3 DEF AnswerIsWhatWasStreamed, Following, Uncompleted
<1>4. CASE events' = Append(events, Response)
  <2>. DEFINE n == Len(events)
              m == Cardinality(DOMAIN calls)
  <2>1. Response \in Event /\ Response.type = "COMPLETED"
    <3>1. VisibleText(text, reasoning) \in Seq(Fragments)
      BY DEF VisibleText, IInv, AnswerTypes
    <3>2. sequence \in Nat
      BY DEF IInv, AnswerTypes
    <3>. QED
      BY <1>1, <3>1, <3>2, CallsOrdered DEF Response, Event
  <2>2. /\ n \in Nat /\ DOMAIN events = 1 .. n /\ DOMAIN events' = 1 .. n + 1
        /\ events'[n + 1] = Response
        /\ \A k \in 1 .. n : events'[k] = events[k]
    BY <1>1, <1>4, <2>1, Added
  <2>3. /\ Joined(events, text) /\ SeenIndexes(events) = DOMAIN calls
        /\ \A index \in DOMAIN calls : LastDelta(events, index, calls[index])
    BY <1>1 DEF Following, Open
  <2>4. Joined(events', text)
    BY <1>1, <1>4, <2>1, <2>3, JoinedKept
  <2>5. SeenIndexes(events') = DOMAIN calls
    BY <1>1, <1>4, <2>1, <2>3, IndexesAdded
  <2>6. \A index \in DOMAIN calls : LastDelta(events', index, calls[index])
    BY <1>1, <1>4, <2>1, <2>3, LastKept
  <2>7. m \in Nat
    BY <1>1, FS_CardinalityType
  <2>8. DOMAIN calls = 0 .. m - 1
    <3>1. 0 .. m - 1 \in SUBSET DOMAIN calls
      BY <1>1 DEF Orderable
    <3>2. Cardinality(0 .. m - 1) = m
      <4>. HIDE DEF m
      <4>1. m - 1 \in Int
        BY <2>7
      <4>2. Cardinality(0 .. m - 1) = IF 0 > m - 1 THEN 0 ELSE m - 1 - 0 + 1
        BY <4>1, FS_Interval
      <4>. QED
        BY <2>7, <4>2
    <3>. QED
      BY <1>1, <3>1, <3>2, FS_Subset
  <2>9. /\ Len(Response.calls) = m
        /\ \A index \in DOMAIN calls : Response.calls[index + 1] = calls[index]
    <3>1. Response.calls = OrderedToolCalls(calls)
      BY DEF Response
    <3>2. OrderedToolCalls(calls) \in Seq(ToolCall)
      BY <1>1, CallsOrdered
    <3>3. DOMAIN OrderedToolCalls(calls) = 1 .. m
      BY DEF OrderedToolCalls
    <3>4. Len(OrderedToolCalls(calls)) = m
      BY <2>7, <3>2, <3>3, LenProperties
    <3>5. ASSUME NEW index \in DOMAIN calls
          PROVE  OrderedToolCalls(calls)[index + 1] = calls[index]
      <4>1. index + 1 \in 1 .. m /\ (index + 1) - 1 = index
        BY <2>7, <2>8
      <4>. QED
        BY <4>1 DEF OrderedToolCalls
    <3>. QED
      BY <3>1, <3>4, <3>5
  <2>10. ASSUME NEW index \in DOMAIN calls
         PROVE  LastDelta(events', index, Response.calls[index + 1])
    <3>1. Response.calls[index + 1] = calls[index]
      BY <2>9
    <3>. QED
      BY <2>6, <3>1
  <2>11. ASSUME NEW k \in TextDeltas(events', Len(events')), events'[k].text # "space"
         PROVE  Joined(events', Response.text)
    <3>1. Len(events') \in Nat /\ Len(text) \in Nat /\ DOMAIN text = 1 .. Len(text)
      BY <1>1, <1>4, <2>1, Added, LenProperties
    <3>2. Cardinality(TextDeltas(events', k)) \in 1 .. Len(text)
      BY <2>4, <3>1, DeltasFinite DEF Joined
    <3>3. text[Cardinality(TextDeltas(events', k))] = events'[k].text
      BY <2>4 DEF Joined
    <3>4. ~ Blank(text)
      BY <2>11, <3>1, <3>2, <3>3 DEF Blank
    <3>5. Response.text = text
      BY <3>4 DEF Response, VisibleText
    <3>. QED
      BY <2>4, <3>5
  <2>12. \A k \in DOMAIN events' : events'[k].type = "COMPLETED" => events'[k] = Response
    BY <1>1, <2>2 DEF Uncompleted
  <2>13. AnswerIsWhatWasStreamed'
    <3>. SUFFICES ASSUME NEW k \in DOMAIN events', events'[k] = Response
                  PROVE  /\ (\E j \in TextDeltas(events', Len(events')) :
                               events'[j].text # "space") =>
                              Joined(events', Response.text)
                         /\ SeenIndexes(events') = 0 .. Len(Response.calls) - 1
                         /\ \A index \in SeenIndexes(events') :
                              LastDelta(events', index, Response.calls[index + 1])
      BY <2>12 DEF AnswerIsWhatWasStreamed
    <3>1. SeenIndexes(events') = 0 .. Len(Response.calls) - 1
      BY <2>5, <2>8, <2>9
    <3>. QED
      BY <2>5, <2>10, <2>11, <3>1
  <2>. QED
    BY <1>2, <2>13 DEF Following
<1>. QED
  BY <1>3, <1>4 DEF Complete

LEMMA ElsewhereFollowed ==
  ASSUME IInv, Following, UNCHANGED events,
         pc' \in Open => pc \in Open /\ UNCHANGED <<text, calls>>
  PROVE  /\ Following'
         /\ AnswerIsWhatWasStreamed => AnswerIsWhatWasStreamed'
BY DEF Following, AnswerIsWhatWasStreamed

LEMMA StreamOpens ==
  ASSUME IInv, [Next]_vars,
         ~ Complete, ~ \E chunk \in Chunk : ReadChunk(chunk)
  PROVE  /\ UNCHANGED events
         /\ pc' \in Open => pc \in Open /\ UNCHANGED <<text, calls>>
<1>1. CASE \E chunk \in Chunk : SinkRefuses(chunk)
  BY <1>1 DEF SinkRefuses, Return, Goto, Open
<1>2. CASE \/ MalformedEvent \/ StreamEnds \/ Unordered
           \/ \E status \in Statuses : Send(status)
           \/ \E f \in Failures : ConnectFails(f) \/ StreamBreaks(f)
  BY <1>2
  DEF MalformedEvent, StreamEnds, Unordered, Send, ConnectFails, StreamBreaks,
      Scanning, answer, Open
<1>3. CASE Probe \/ ContextEnds \/ ReadDone
  BY <1>3
  DEF Probe, HealthCheck, ProbeChat, ProbeTools, Discover, ContextEnds, ReadDone,
      Goto, answer, Open
<1>4. CASE UNCHANGED vars
  BY <1>4 DEF vars, answer
<1>. QED
  BY <1>1, <1>2, <1>3, <1>4 DEF Next, Stream

(* AnswerIsWhatWasStreamed: the completed answer is what the deltas said,   *)
(* in every interleaving of text, calls and failures: the text deltas       *)
(* joined, and for each index the last state of its call.                   *)
THEOREM AnswerWasStreamed == Spec => []AnswerIsWhatWasStreamed
<1>1. Init => Following /\ AnswerIsWhatWasStreamed
  <2>. SUFFICES ASSUME Init PROVE Following /\ AnswerIsWhatWasStreamed
    OBVIOUS
  <2>1. text = << >> /\ events = << >> /\ calls = << >>
    BY DEF Init
  <2>2. DOMAIN events = {} /\ Len(events) = 0 /\ Len(text) = 0 /\ DOMAIN calls = {}
    BY <2>1, EmptySeq
  <2>3. TextDeltas(events, 0) = {} /\ CallDeltas(events) = {}
    BY <2>2 DEF TextDeltas, CallDeltas
  <2>4. SeenIndexes(events) = {} /\ Joined(events, text)
    BY <2>2, <2>3, FS_EmptySet DEF SeenIndexes, Joined
  <2>. QED
    BY <2>2, <2>4 DEF Following, AnswerIsWhatWasStreamed
<1>2. IInv /\ Following /\ AnswerIsWhatWasStreamed /\ [Next]_vars
        => Following' /\ AnswerIsWhatWasStreamed'
  <2>. SUFFICES ASSUME IInv, Following, AnswerIsWhatWasStreamed, [Next]_vars
                PROVE  Following' /\ AnswerIsWhatWasStreamed'
    OBVIOUS
  <2>1. ASSUME NEW chunk \in Chunk, ReadChunk(chunk)
        PROVE  Following' /\ AnswerIsWhatWasStreamed'
    <3>1. Following'
      BY <2>1, ChunkIsFollowed
    <3>2. IInv' /\ pc' \in Open
      BY <2>1, ChunkIsRead DEF ReadChunk, Scanning, Open
    <3>3. Uncompleted'
      BY <3>2 DEF IInv, Underway
    <3>. QED
      BY <3>1, <3>3 DEF AnswerIsWhatWasStreamed, Uncompleted
  <2>. QED
    BY <2>1, AnswerComplete, StreamOpens, ElsewhereFollowed
<1>. QED
  BY <1>1, <1>2, Invariance, PTL DEF Spec
=============================================================================
