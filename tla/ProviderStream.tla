--------------------------- MODULE ProviderStream ---------------------------
(***************************************************************************)
(* A streamed completion (ChatStream) and the capability probe that uses   *)
(* it (ProbeCapabilities), internal/provider/openai/openai.go.             *)
(*                                                                         *)
(* The server sends data lines one by one; the adapter adds each to the    *)
(* answer it assembles and hands an event to its caller's sink.  The       *)
(* connection, the sink and the caller's context may fail between any two  *)
(* lines.  Only a stream that reached its [DONE] line yields an answer.    *)
(***************************************************************************)
EXTENDS Provider, SequencesExt

CONSTANTS
  Fragments,   (* pieces of text a chunk may carry; "space" is a blank one *)
  Names,       (* what a chunk may add to the name of a call               *)
  Arguments,   (* what a chunk may add to the arguments of a call          *)
  Indexes,     (* indexes a provider may give to tool calls                *)
  Windows,     (* context windows /models may name; 0: it names none       *)
  Configured,  (* Config.ReliableContextTokens: 0 when not configured      *)
  MaxLines     (* bound: data lines of one stream                          *)

NONE == "NONE"

(* What a choice of a chunk may carry: content and reasoning, NONE or a     *)
(* fragment, or the delta of a tool call.  A choice with content and calls  *)
(* is read as one chunk after the other.                                    *)
TextChunk == [delta : {FALSE}, content : Fragments \cup {NONE},
              reasoning : Fragments \cup {NONE}]
CallChunk == [delta : {TRUE}, content : {NONE}, reasoning : {NONE},
              index : Indexes, name : Names, args : Arguments]
Chunk == TextChunk \cup CallChunk

ASSUME WindowsNat == Windows \subseteq Nat /\ Configured \subseteq Nat
ASSUME MaxLinesNat == MaxLines \in Nat
ASSUME IndexesNat == Indexes \subseteq Nat
ASSUME PiecesAreStrings == Names \cup Arguments \subseteq Seq(STRING)

VARIABLES
  pc,          (* where the adapter is                                     *)
  caller,      (* "app": ChatStream is the call; "probe": the probe's      *)
  context,     (* state of the caller's context                            *)
  text, reasoning, calls,  (* the answer as assembled so far               *)
  sequence,    (* number of the last event                                 *)
  events,      (* the events the sink accepted, in order                   *)
  outcome,     (* what ChatStream returned: NONE, "ok" or an error code    *)
  snapshot,    (* the probe's CapabilitySnapshot                           *)
  lines        (* data lines read, for the bound                           *)

answer == <<text, reasoning, calls, sequence, events, lines>>
vars   == <<pc, caller, context, answer, outcome, snapshot>>

NoCapabilities == [window |-> 0, streaming |-> FALSE, tools |-> FALSE]

Init ==
  /\ caller \in {"app", "probe"}
  /\ pc = IF caller = "app" THEN "send" ELSE "health"
  /\ context = "live"
  /\ text = << >> /\ reasoning = << >> /\ calls = << >>
  /\ sequence = 0 /\ events = << >> /\ lines = 0
  /\ outcome = NONE
  /\ \E tokens \in Configured :
        snapshot = [NoCapabilities EXCEPT !.window = tokens]

Goto(label) == pc' = label /\ UNCHANGED <<caller, context>>

(* ChatStream returns; the probe goes on with its tool request, the error   *)
(* only keeping SupportsStreaming false                                     *)
Received == \E k \in DOMAIN events' : events'[k].type = "COMPLETED"

Return(code) ==
  /\ outcome' = code
  /\ Goto(IF caller = "app" THEN "done" ELSE "tools")
  /\ snapshot' =
       [snapshot EXCEPT
          !.streaming = caller = "probe" /\ code = "ok" /\ Received]

-----------------------------------------------------------------------------
(* The request is sent; its status decides. *)
Send(status) ==
  /\ pc = "send"
  /\ IF context # "live" THEN Return(ContextError(context))
     ELSE IF status # "ok" THEN Return(StatusError(status))
     ELSE Goto("scan") /\ UNCHANGED <<outcome, snapshot>>
  /\ UNCHANGED answer

ConnectFails(failure) ==
  /\ pc = "send"
  /\ failure # "garbled"
  /\ Return(TransportError(context, failure))
  /\ UNCHANGED answer

(* the call a delta is added to *)
CallAt(index) ==
  IF index \in DOMAIN calls THEN calls[index]
  ELSE [name |-> << >>, args |-> << >>]

Extended(chunk) ==
  [name |-> CallAt(chunk.index).name \o chunk.name,
   args |-> CallAt(chunk.index).args \o chunk.args]

\* Mutant: a delta replaces the call of its index.
CallsReplaced(chunk) ==
  IF ~ chunk.delta THEN calls
  ELSE [index \in DOMAIN calls \cup {chunk.index} |->
          IF index = chunk.index THEN [name |-> chunk.name, args |-> chunk.args]
          ELSE calls[index]]

CallsWith(chunk) ==
  IF ~ chunk.delta THEN calls
  ELSE [index \in DOMAIN calls \cup {chunk.index} |->
          IF index = chunk.index THEN Extended(chunk) ELSE calls[index]]

(* the event a chunk gives rise to; a thinking delta gives none *)
TextEvent(chunk) ==
  [type |-> "TEXT_DELTA", sequence |-> sequence + 1, text |-> chunk.content]
CallEvent(chunk) ==
  [type |-> "TOOL_CALL_DELTA", sequence |-> sequence + 1,
   index |-> chunk.index, call |-> Extended(chunk)]
EventsOf(chunk) ==
  IF chunk.content # NONE THEN <<TextEvent(chunk)>>
  ELSE IF chunk.delta THEN <<CallEvent(chunk)>>
  ELSE << >>

Assemble(chunk) ==
  /\ text' = IF chunk.content # NONE THEN Append(text, chunk.content) ELSE text
  /\ reasoning' = IF chunk.content = NONE /\ chunk.reasoning # NONE
                  THEN Append(reasoning, chunk.reasoning) ELSE reasoning
  /\ calls' = CallsWith(chunk)
  /\ sequence' = sequence + Len(EventsOf(chunk))
  /\ lines' = lines + 1

Scanning == pc = "scan" /\ lines < MaxLines

ReadChunk(chunk) ==
  /\ Scanning
  /\ Assemble(chunk)
  /\ events' = events \o EventsOf(chunk)
  /\ UNCHANGED <<pc, caller, context, outcome, snapshot>>

\* Mutant: the error of the sink is not looked at.
SinkIgnored(chunk) ==
  /\ Scanning
  /\ caller = "app"
  /\ EventsOf(chunk) # << >>
  /\ Assemble(chunk)
  /\ UNCHANGED <<pc, caller, context, events, outcome, snapshot>>

(* the sink of the application refuses the event and ChatStream gives up *)
SinkRefuses(chunk) ==
  /\ Scanning
  /\ caller = "app"
  /\ EventsOf(chunk) # << >>
  /\ Assemble(chunk)
  /\ UNCHANGED events
  /\ Return("SINK_ERROR")

MalformedEvent ==
  /\ Scanning
  /\ Return("INVALID_RESPONSE")
  /\ UNCHANGED answer

ReadDone ==
  /\ pc = "scan"
  /\ Goto("assembled")
  /\ UNCHANGED <<answer, outcome, snapshot>>

StreamBreaks(failure) ==
  /\ pc = "scan"
  /\ Return(TransportError(context, failure))
  /\ UNCHANGED answer

(* the connection closes in good order before the [DONE] line *)
StreamEnds ==
  /\ pc = "scan"
  /\ Return("INVALID_RESPONSE")
  /\ UNCHANGED answer

(* After [DONE]: the calls are put in order, and the whole answer is the    *)
(* last event.                                                              *)
Response ==
  [type |-> "COMPLETED", sequence |-> sequence + 1,
   text |-> VisibleText(text, reasoning), calls |-> OrderedToolCalls(calls)]

Unordered ==
  /\ pc = "assembled"
  /\ ~ Orderable(calls)
  /\ Return("INVALID_TOOL_CALL")
  /\ UNCHANGED answer

Complete ==
  /\ pc = "assembled"
  /\ Orderable(calls)
  /\ sequence' = sequence + 1
  /\ \/ events' = Append(events, Response) /\ Return("ok")
     \/ caller = "app" /\ UNCHANGED events /\ Return("SINK_ERROR")
  /\ UNCHANGED <<text, reasoning, calls, lines>>

-----------------------------------------------------------------------------
(* ProbeCapabilities: health, context window, a chat, a stream, tools. *)
HealthCheck(healthy) ==
  /\ pc = "health"
  /\ Goto(IF healthy /\ context = "live" THEN "discover" ELSE "done")
  /\ UNCHANGED <<answer, outcome, snapshot>>

(* a configured window is kept; otherwise the one /models names, 0 on error *)
Discover(found) ==
  /\ pc = "discover"
  /\ snapshot' =
       IF snapshot.window > 0 THEN snapshot
       ELSE [snapshot EXCEPT !.window = IF context = "live" THEN found ELSE 0]
  /\ Goto("chat")
  /\ UNCHANGED <<answer, outcome>>

ProbeChat(answered) ==
  /\ pc = "chat"
  /\ Goto(IF answered /\ context = "live" THEN "send" ELSE "done")
  /\ UNCHANGED <<answer, outcome, snapshot>>

ProbeTools(answered) ==
  /\ pc = "tools"
  /\ snapshot' = [snapshot EXCEPT !.tools = answered /\ context = "live"]
  /\ Goto("done")
  /\ UNCHANGED <<answer, outcome>>

ContextEnds ==
  /\ pc # "done"
  /\ context = "live"
  /\ context' \in Contexts \ {"live"}
  /\ UNCHANGED <<pc, caller, answer, outcome, snapshot>>

Stream ==
  \/ \E status \in Statuses : Send(status)
  \/ \E failure \in Failures : ConnectFails(failure) \/ StreamBreaks(failure)
  \/ \E chunk \in Chunk : ReadChunk(chunk) \/ SinkRefuses(chunk)
  \/ MalformedEvent \/ ReadDone \/ StreamEnds \/ Unordered \/ Complete

Probe ==
  \/ \E yes \in BOOLEAN : HealthCheck(yes) \/ ProbeChat(yes) \/ ProbeTools(yes)
  \/ \E found \in Windows : Discover(found)

Next == Stream \/ Probe \/ ContextEnds

Spec == Init /\ [][Next]_vars

-----------------------------------------------------------------------------
Codes ==
  {StatusError(s) : s \in Statuses \ {"ok"}}
  \cup {"REQUEST_CANCELLED", "REQUEST_TIMEOUT", "ENDPOINT_UNREACHABLE",
        "INVALID_RESPONSE", "INVALID_TOOL_CALL", "SINK_ERROR"}

ToolCall == [name : Seq(STRING), args : Seq(STRING)]
Event ==
  [type : {"TEXT_DELTA"}, sequence : Nat, text : Fragments]
  \cup [type : {"TOOL_CALL_DELTA"}, sequence : Nat, index : Indexes,
        call : ToolCall]
  \cup [type : {"COMPLETED"}, sequence : Nat, text : Seq(Fragments),
        calls : Seq(ToolCall)]

TypeOK ==
  /\ pc \in {"health", "discover", "chat", "send", "scan", "assembled",
             "tools", "done"}
  /\ caller \in {"app", "probe"}
  /\ context \in Contexts
  /\ text \in Seq(Fragments) /\ reasoning \in Seq(Fragments)
  /\ IsFiniteSet(DOMAIN calls) /\ DOMAIN calls \subseteq Indexes
  /\ calls \in [DOMAIN calls -> ToolCall]
  /\ events \in Seq(Event)
  /\ sequence \in Nat /\ lines \in 0 .. MaxLines
  /\ outcome \in {NONE, "ok"} \cup Codes
  /\ snapshot \in [window : Nat, streaming : BOOLEAN, tools : BOOLEAN]

(* what a sink has read in the events of log: the text deltas among the     *)
(* first k, joined, and the calls as it saw them grow                       *)
TextDeltas(log, k) == {j \in 1 .. k : log[j].type = "TEXT_DELTA"}
Joined(log, t) ==
  LET deltas == TextDeltas(log, Len(log))
  IN  /\ Len(t) = Cardinality(deltas)
      /\ \A k \in deltas : t[Cardinality(TextDeltas(log, k))] = log[k].text

CallDeltas(log) == {j \in DOMAIN log : log[j].type = "TOOL_CALL_DELTA"}
SeenIndexes(log) == {log[k].index : k \in CallDeltas(log)}
LastDelta(log, index, call) ==
  \E k \in CallDeltas(log) :
     /\ log[k].index = index /\ log[k].call = call
     /\ \A j \in CallDeltas(log) : log[j].index = index => j <= k

(* A sink that has followed the deltas and one that only reads the last     *)
(* event know the same answer: the completed text is the text deltas joined *)
(* (the reasoning only where they are blank), and the completed calls are   *)
(* exactly the calls the deltas built, in index order.                      *)
AnswerIsWhatWasStreamed ==
  \A n \in DOMAIN events : events[n].type = "COMPLETED" =>
     /\ (\E k \in TextDeltas(events, Len(events)) : events[k].text # "space") =>
          Joined(events, events[n].text)
     /\ SeenIndexes(events) = 0 .. Len(events[n].calls) - 1
     /\ \A index \in SeenIndexes(events) :
          LastDelta(events, index, events[n].calls[index + 1])

(* Events reach the sink numbered without a gap, and nothing follows the    *)
(* completed answer: a caller that reads COMPLETED has an answer that was   *)
(* neither cut off nor refused.                                             *)
CompletedIsLast ==
  /\ \A k \in DOMAIN events : events[k].sequence = k
  /\ \A k \in DOMAIN events :
        events[k].type = "COMPLETED" => k = Len(events) /\ outcome = "ok"
=============================================================================
