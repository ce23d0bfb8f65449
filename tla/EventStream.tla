---------------------------- MODULE EventStream ---------------------------
(***************************************************************************)
(* What a query answers: the messages of the agent's SDK, the events       *)
(* QueryExecutor and MessageHandler make of them, and their three readers. *)
(* StreamQueryRunner passes the events to the client of /query/stream and  *)
(* closes the stream; StreamingAdapter turns them into the chunks of an    *)
(* OpenAI stream; SingleQueryAggregator collects them for /query/single.   *)
(* The single query runs beside the stream, on the same messages, to       *)
(* compare the two.                                                        *)
(***************************************************************************)
EXTENDS Naturals, Sequences, FiniteSets

CONSTANTS
    Blocks,        \* content blocks of the SDK: [form, tag, type, name, what]
    Messages,      \* SDK messages: [kind, blocks, turns, error, malformed]
    MaxMessages    \* bound: messages the SDK sends

BlockTypes == {"text", "thinking", "tool_use", "tool_result"}
Names == {"Write", "Edit", "AskUserQuestion", "other"}

\* A block of the SDK: a dict or an object, whose `type` field says its own type, another
\* word or nothing (dataclasses without such a field).  `what` is its text or, of a tool,
\* the file its input names; "" when there is none, or none that is a string.
SDKBlock == [form : {"dict", "object"}, tag : {"own", "other", "none"},
             type : BlockTypes, name : Names, what : STRING]

\* A block as the API shows it; "blank" is a text block without a text, of which nobody
\* reads the rest.
Block == [type : BlockTypes \cup {"blank"}, name : Names, what : STRING]

Message == [kind : {"system", "user", "assistant", "result", "partial", "other"},
            blocks : Seq(Blocks), turns : Nat, error : BOOLEAN, malformed : BOOLEAN]

ASSUME MessagesAssumption ==
    /\ Blocks \subseteq SDKBlock
    /\ Messages \subseteq Message
    /\ MaxMessages \in Nat

VARIABLES
    options,       \* what the request asks: [checkpointing, partials, memory]
    ctx,           \* StreamContext: [turns, isError, files]
    phase,         \* where StreamQueryRunner.run is
    sent,          \* the events of the native stream
    chunks,        \* the chunks of the OpenAI stream
    single,        \* SingleQueryAggregator: [content, isError]
    answered,      \* the SDK has sent its result message
    received,      \* history: the messages of the SDK
    cut            \* history: the stream was stopped by what a single query lacks

eventVars == <<options, ctx, phase, sent, chunks, single, answered, received, cut>>

Phases == {"register", "receive", "checking", "memory", "lastCheck", "report",
           "interrupted", "resulted", "stopping", "failed", "errored", "unregister", "over"}

----------------------------------------------------------------------------
(* Events *)

NoEvent == [event |-> "none", from |-> "none", blocks |-> <<>>, error |-> FALSE,
            reason |-> "none"]

MessageEvent(from, blocks) ==
    [NoEvent EXCEPT !.event = "message", !.from = from, !.blocks = blocks]
ResultEvent(error) == [NoEvent EXCEPT !.event = "result", !.error = error]
DoneEvent(reason) == [NoEvent EXCEPT !.event = "done", !.reason = reason]
ErrorEvent(code) == [NoEvent EXCEPT !.event = "error", !.reason = code]

\* Whatever does not say its type is taken for a text: it shows the text it has, a dict
\* whose type is an unknown word not even that.
Recognized(b) ==
    \/ b.tag = "own"
    \/ b.type = "text" /\ (b.form = "object" \/ b.tag = "none")
Converted(b) ==
    [type |-> IF Recognized(b) /\ (b.type = "text" => b.what # "") THEN b.type ELSE "blank",
     name |-> b.name, what |-> b.what]

\* _extract_content_blocks; a content that is a string is one text block.
Extracted(m) == [i \in DOMAIN m.blocks |-> Converted(m.blocks[i])]

\* A question takes the place of the whole message.
SpecialToolUse(blocks) ==
    IF \E i \in DOMAIN blocks :
        blocks[i].type = "tool_use" /\ blocks[i].name = "AskUserQuestion"
    THEN [NoEvent EXCEPT !.event = "question"] ELSE NoEvent

AssistantEvent(m) ==
    IF SpecialToolUse(Extracted(m)) # NoEvent THEN SpecialToolUse(Extracted(m))
    ELSE MessageEvent("assistant", Extracted(m))

\* map_sdk_message: what a message becomes, NoEvent when nothing is yielded.
EventOf(m) ==
    CASE m.kind = "assistant" -> AssistantEvent(m)
      [] m.kind = "user" -> MessageEvent("user", Extracted(m))
      [] m.kind = "partial" /\ options.partials -> [NoEvent EXCEPT !.event = "partial"]
      [] OTHER -> NoEvent

\* The files Write and Edit are given, where they are given one; ctx.files_modified keeps
\* each once.
FilesOf(blocks) ==
    {blocks[i].what : i \in {j \in DOMAIN blocks :
        blocks[j].type = "tool_use" /\ blocks[j].name \in {"Write", "Edit"}}} \ {""}

\* Mutant: the files of a message are tracked only when no question takes its place.
TrackedUnlessAsked(m) ==
    IF options.checkpointing /\ m.kind = "assistant" /\ SpecialToolUse(Extracted(m)) = NoEvent
    THEN FilesOf(Extracted(m)) ELSE {}

EditedFiles(m) ==
    IF options.checkpointing /\ m.kind = "assistant" THEN FilesOf(Extracted(m)) ELSE {}

\* Every message counts as a turn, until the result brings the agent's own count.
TurnsAfter(m) == IF m.kind = "result" THEN m.turns ELSE ctx.turns + 1

\* The result message sets is_error; a structured output that is no object also does.
HandleResult(m) ==
    IF m.kind = "result" THEN m.error \/ m.malformed ELSE ctx.isError

TrackMessage(m) ==
    ctx' = [turns   |-> TurnsAfter(m),
            isError |-> HandleResult(m),
            files   |-> ctx.files \cup EditedFiles(m)]

----------------------------------------------------------------------------
(* StreamingAdapter *)

\* The records of a sequence whose field has one of the values, in their order.
Only(s, field, values) ==
    LET upTo[n \in 0..Len(s)] ==
            IF n = 0 THEN <<>>
            ELSE IF s[n][field] \in values THEN Append(upTo[n - 1], s[n]) ELSE upTo[n - 1]
    IN  upTo[Len(s)]

ToolsBefore(blocks, i) == Cardinality({j \in 1..(i - 1) : blocks[j].type = "tool_use"})

\* The chunks of a message's text and tool blocks, whoever the message is from; the
\* tool index starts again with every message.
ContentChunks(blocks) ==
    LET shown == Only(blocks, "type", {"text", "tool_use"})
    IN  [i \in DOMAIN shown |->
            IF shown[i].type = "text"
            THEN [delta |-> "content", what |-> shown[i].what, index |-> 0]
            ELSE [delta |-> "tool", what |-> shown[i].what,
                  index |-> ToolsBefore(shown, i)]]

Chunk(delta, what) == [delta |-> delta, what |-> what, index |-> 0]
HasToolCalls == \E i \in DOMAIN chunks : chunks[i].delta = "tool"
FinishReason(e) ==
    IF e.error THEN "error" ELSE IF HasToolCalls THEN "tool_calls" ELSE "stop"

\* Mutant: first_chunk is never reset.
AdaptWithRole(e) ==
    LET role == <<Chunk("role", "assistant")>>
    IN  CASE e.event = "message" -> chunks \o role \o ContentChunks(e.blocks)
          [] e.event = "partial" -> chunks \o role
          [] e.event = "result" -> chunks \o role \o <<Chunk("finish", FinishReason(e))>>
          [] OTHER -> chunks

\* The chat route passes on message, partial and result events only.
AdaptEvent(e) ==
    LET role == IF chunks = <<>> THEN <<Chunk("role", "assistant")>> ELSE <<>>
    IN  CASE e.event = "message" -> chunks \o role \o ContentChunks(e.blocks)
          [] e.event = "partial" -> chunks \o role
          [] e.event = "result" -> chunks \o role \o <<Chunk("finish", FinishReason(e))>>
          [] OTHER -> chunks

\* An event leaves the runner; the adapter pulls it and makes its chunks.
Yield(e) ==
    /\ sent' = Append(sent, e)
    /\ chunks' = AdaptEvent(e)

----------------------------------------------------------------------------
(* SingleQueryAggregator *)

HandleEvent(e) ==
    [content |-> IF e.event = "message" /\ e.from = "assistant"
                 THEN single.content \o e.blocks ELSE single.content,
     isError |-> single.isError \/ e.event = "error"]

\* What the response says: the aggregator's own flag, or the context's.
SingleIsError == single.isError \/ ctx.isError

\* The blocks of one type, in the order of the content.
Select(blocks, type) == Only(blocks, "type", {type})

\* The chat completion without streaming: the texts, joined by a space, the tool calls,
\* and the finish reason; the single query gives no stop_reason to map.
Completion ==
    [texts |-> Select(single.content, "text"),
     calls |-> Select(single.content, "tool_use"),
     finish |-> IF Select(single.content, "tool_use") # <<>> THEN "tool_calls" ELSE "stop"]

\* The runner's answer when the executor raises.
ErrorText == [type |-> "text", name |-> "other", what |-> "Error: Internal error"]

----------------------------------------------------------------------------
(* StreamQueryRunner.run over QueryExecutor.execute *)

EventsInit ==
    /\ options \in [checkpointing : BOOLEAN, partials : BOOLEAN, memory : BOOLEAN]
    /\ ctx = [turns |-> 0, isError |-> FALSE, files |-> {}]
    /\ phase = "register"
    /\ sent = <<>> /\ chunks = <<>>
    /\ single = [content |-> <<>>, isError |-> FALSE]
    /\ answered = FALSE /\ received = <<>> /\ cut = FALSE

Register ==
    /\ phase = "register"
    /\ phase' = "receive"
    /\ UNCHANGED <<options, ctx, sent, chunks, single, answered, received, cut>>

\* The SDK sends a message; nothing follows its result.
Receive(m) ==
    /\ phase = "receive" /\ ~answered
    /\ Len(received) < MaxMessages
    /\ TrackMessage(m)
    /\ answered' = (m.kind = "result")
    /\ received' = Append(received, m)
    /\ \/ /\ EventOf(m) = NoEvent
          /\ UNCHANGED <<phase, sent, chunks, single>>
       \/ /\ EventOf(m) # NoEvent
          /\ Yield(EventOf(m))
          /\ single' = HandleEvent(EventOf(m))
          /\ phase' = "checking"
    /\ UNCHANGED <<options, cut>>

\* The response is over, with a result message or without.
MessagesEnd ==
    /\ phase = "receive"
    /\ phase' = IF options.memory THEN "memory" ELSE "report"
    /\ UNCHANGED <<options, ctx, sent, chunks, single, answered, received, cut>>

\* Mutant: the error is not noted in the context.
RaisesUnnoted ==
    /\ phase = "receive"
    /\ single' = [single EXCEPT !.content = <<ErrorText>>]
    /\ phase' = "failed"
    /\ UNCHANGED <<options, ctx, sent, chunks, answered, received, cut>>

\* The SDK, or the mapping of a message, raises: execute wraps it in an AgentError.
SdkRaises ==
    /\ phase = "receive"
    /\ ctx' = [ctx EXCEPT !.isError = TRUE]
    /\ single' = [single EXCEPT !.content = <<ErrorText>>]
    /\ phase' = "failed"
    /\ UNCHANGED <<options, sent, chunks, answered, received, cut>>

SaveMemory ==
    /\ phase = "memory"
    /\ phase' = "report"
    /\ UNCHANGED <<options, ctx, sent, chunks, single, answered, received, cut>>

\* The conversation cannot be saved: an error event, and the query goes on.
MemoryFails ==
    /\ phase = "memory"
    /\ Yield(ErrorEvent("MEMORY_EXTRACTION_FAILED"))
    /\ single' = HandleEvent(ErrorEvent("MEMORY_EXTRACTION_FAILED"))
    /\ phase' = "lastCheck"
    /\ UNCHANGED <<options, ctx, answered, received, cut>>

\* No interrupt marker after the event: on with the executor.
Continue ==
    /\ phase \in {"checking", "lastCheck"}
    /\ phase' = IF phase = "checking" THEN "receive" ELSE "report"
    /\ UNCHANGED <<options, ctx, sent, chunks, single, answered, received, cut>>

Interrupted ==
    /\ phase \in {"checking", "lastCheck"}
    /\ phase' = "interrupted"
    /\ cut' = TRUE
    /\ UNCHANGED <<options, ctx, sent, chunks, single, answered, received>>

\* Redis raises at register or is_interrupted, or the result event cannot be built.
RunnerFails ==
    /\ phase \in {"register", "checking", "lastCheck", "report", "interrupted"}
    /\ phase' = "failed"
    /\ cut' = TRUE
    /\ UNCHANGED <<options, ctx, sent, chunks, single, answered, received>>

SendResult ==
    /\ phase \in {"report", "interrupted"}
    /\ Yield(ResultEvent(ctx.isError))
    /\ phase' = IF phase = "report" THEN "resulted" ELSE "stopping"
    /\ UNCHANGED <<options, ctx, single, answered, received, cut>>

SendError ==
    /\ phase = "failed"
    /\ Yield(ErrorEvent("AGENT_ERROR"))
    /\ phase' = "errored"
    /\ UNCHANGED <<options, ctx, single, answered, received, cut>>

Reason ==
    CASE phase = "stopping" -> "interrupted"
      [] phase = "errored" -> "error"
      [] phase = "resulted" -> IF ctx.isError THEN "error" ELSE "completed"

\* Mutant: run does not return after an interrupted stream's done event.
DoneWithoutReturn ==
    /\ phase \in {"resulted", "stopping", "errored"}
    /\ Yield(DoneEvent(Reason))
    /\ phase' = IF phase = "stopping" THEN "receive" ELSE "unregister"
    /\ UNCHANGED <<options, ctx, single, answered, received, cut>>

SendDone ==
    /\ phase \in {"resulted", "stopping", "errored"}
    /\ Yield(DoneEvent(Reason))
    /\ phase' = "unregister"
    /\ UNCHANGED <<options, ctx, single, answered, received, cut>>

\* The generator returns and the adapter closes the OpenAI stream.
Unregister ==
    /\ phase = "unregister"
    /\ phase' = "over"
    /\ chunks' = Append(chunks, Chunk("[DONE]", "none"))
    /\ UNCHANGED <<options, ctx, sent, single, answered, received, cut>>

\* Redis raises in the finally: the exception goes through the adapter.
UnregisterFails ==
    /\ phase = "unregister"
    /\ phase' = "over"
    /\ UNCHANGED <<options, ctx, sent, chunks, single, answered, received, cut>>

\* The reader closes the stream at a yield, or its task is cancelled at an await: only
\* the finally runs.
Drop ==
    /\ phase # "over"
    /\ phase' = "over"
    /\ cut' = TRUE
    /\ UNCHANGED <<options, ctx, sent, chunks, single, answered, received>>

Terminated == phase = "over" /\ UNCHANGED eventVars

EventsNext ==
    \/ Register \/ \E m \in Messages : Receive(m)
    \/ MessagesEnd \/ SdkRaises \/ SaveMemory \/ MemoryFails
    \/ Continue \/ Interrupted \/ RunnerFails
    \/ SendResult \/ SendError \/ SendDone
    \/ Unregister \/ UnregisterFails \/ Drop
    \/ Terminated

EventsSpec == EventsInit /\ [][EventsNext]_eventVars
----------------------------------------------------------------------------
(* Properties *)

Event == [event : {"message", "question", "partial", "result", "done", "error"},
          from : {"none", "user", "assistant"}, blocks : Seq(Block), error : BOOLEAN,
          reason : {"none", "completed", "interrupted", "error", "AGENT_ERROR",
                    "MEMORY_EXTRACTION_FAILED"}]

\* The type invariant of the pipeline.
EventsTypeOK ==
    /\ options \in [checkpointing : BOOLEAN, partials : BOOLEAN, memory : BOOLEAN]
    /\ ctx \in [turns : Nat, isError : BOOLEAN, files : SUBSET STRING]
    /\ sent \in Seq(Event)
    /\ single.isError \in BOOLEAN
    /\ received \in Seq(Messages) /\ Len(received) <= MaxMessages
    /\ \A i \in DOMAIN received : received[i].kind = "result" => i = Len(received)
    /\ answered \in BOOLEAN /\ cut \in BOOLEAN
    /\ phase \in Phases

\* What the event before a done event says agrees with its reason.
Explains(e, reason) ==
    CASE reason = "completed" -> e.event = "result" /\ ~e.error
      [] reason = "interrupted" -> e.event = "result"
      [] reason = "error" ->
            \/ e.event = "result" /\ e.error
            \/ e.event = "error" /\ e.reason = "AGENT_ERROR"

\* The events of StreamQueryRunner.run come in the order its readers rely on, wherever it
\* is interrupted, fails or is dropped: nothing follows done, only done follows a result,
\* and the reason of done is that of the event before it.
StreamWellFormed ==
    \A i \in DOMAIN sent :
        /\ sent[i].event = "done" =>
            i = Len(sent) /\ i > 1 /\ Explains(sent[i - 1], sent[i].reason)
        /\ sent[i].event = "result" =>
            i = Len(sent) \/ (i + 1 = Len(sent) /\ sent[i + 1].event = "done")

Ended == Len(sent) > 0 /\ sent[Len(sent)].event = "done"
MemoryLost == \E i \in DOMAIN sent : sent[i].reason = "MEMORY_EXTRACTION_FAILED"

\* What some blocks, or the chunks of one kind, say.
What(blocks) == [i \in DOMAIN blocks |-> blocks[i].what]
Streamed(delta) == What(Only(chunks, "delta", {delta}))

\* A user's message had blocks of a type.
UserShows(type) ==
    \E i \in DOMAIN received :
        received[i].kind = "user" /\ Select(Extracted(received[i]), type) # <<>>

\* /query and /query/stream agree on the same messages: a query that fails for one fails
\* for the other, and an OpenAI completion has the finish reason, the tool calls in their
\* order and the texts of the OpenAI stream unless it failed.  There are two exceptions.
\* For a conversation that could not be saved the single query reports an error, the
\* stream "completed" (after an error event).  And the stream also shows the texts, and
\* would show the tool calls, of a user's message between those of the agent.
SameOutcome ==
    Ended /\ ~cut =>
        /\ SingleIsError <=> (sent[Len(sent)].reason = "error" \/ MemoryLost)
        /\ \A i \in DOMAIN chunks :
            chunks[i].delta = "finish" /\ chunks[i].what # "error"
                => chunks[i].what = Completion.finish \/ UserShows("tool_use")
        /\ sent[Len(sent) - 1].event = "result" =>
            /\ What(Completion.calls) = Streamed("tool") \/ UserShows("tool_use")
            /\ What(Completion.texts) = Streamed("content") \/ UserShows("text")

\* An OpenAI stream opens with the role, has at most one finish chunk, nothing after it
\* but [DONE], and nothing after [DONE]; it says "tool_calls" only after a tool call, and
\* all its tool calls come before.
ChunksWellFormed ==
    \A i \in DOMAIN chunks :
        /\ chunks[i].delta = "role" <=> i = 1 /\ chunks[i].delta # "[DONE]"
        /\ chunks[i].delta = "finish" =>
            /\ \A j \in (i + 1)..Len(chunks) : chunks[j].delta = "[DONE]"
            /\ chunks[i].what = "tool_calls" =>
                \E j \in 1..(i - 1) : chunks[j].delta = "tool"
        /\ chunks[i].delta = "[DONE]" => i = Len(chunks)

Asked(m) == SpecialToolUse(Extracted(m)) # NoEvent

\* With file checkpointing on, ctx.files_modified agrees with what the reader of the stream
\* saw: it has the files of the Write and Edit blocks of the agent's message events, those
\* of the messages a question took the place of, and no other (handlers.py 195-202, 533-548).
FilesMatchEvents ==
    LET shown == {i \in DOMAIN sent : sent[i].from = "assistant"}
        asked == {i \in DOMAIN received :
                    received[i].kind = "assistant" /\ Asked(received[i])}
    IN  ctx.files =
            IF options.checkpointing
            THEN (UNION {FilesOf(sent[i].blocks) : i \in shown})
                 \cup (UNION {FilesOf(Extracted(received[i])) : i \in asked})
            ELSE {}

\* File paths are extracted from Write and Edit tool invocations (handlers.py 526): from
\* every one of the SDK's blocks that is such an invocation and names a file.  It does not
\* hold of a block without a type, see the README.
EveryFileTracked ==
    options.checkpointing =>
        \A i \in DOMAIN received : received[i].kind = "assistant" =>
            FilesOf(received[i].blocks) \subseteq ctx.files

\* The final chunk of an OpenAI stream has a finish_reason (README.md 311): [DONE] is sent
\* only after a finish chunk.  It does not hold after an agent that raises, see the README.
EveryStreamFinishes ==
    \A i \in DOMAIN chunks : chunks[i].delta = "[DONE]" =>
        \E j \in 1..(i - 1) : chunks[j].delta = "finish"

=============================================================================
