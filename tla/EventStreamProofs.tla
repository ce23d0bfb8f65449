------------------------- MODULE EventStreamProofs ------------------------
(***************************************************************************)
(* Proofs about EventStream, for any messages, however many, of any blocks: *)
(* the types, the order of the native events, the files to checkpoint, the *)
(* order of the OpenAI chunks, and the agreement of the single query with  *)
(* the two streams.                                                        *)
(***************************************************************************)
EXTENDS EventStream, SequenceTheorems, WellFoundedInduction, FiniteSetTheorems, TLAPS

----------------------------------------------------------------------------
(* The events that are made *)

\* The blocks of a message, as the API shows them.
LEMMA ExtractedTyped ==
    ASSUME NEW m \in Messages
    PROVE  Extracted(m) \in Seq(Block)
<1>1. m.blocks \in Seq(Blocks)
  BY MessagesAssumption DEF Message
<1>2. /\ Len(m.blocks) \in Nat /\ DOMAIN m.blocks = 1..Len(m.blocks)
      /\ \A i \in 1..Len(m.blocks) : m.blocks[i] \in SDKBlock
  BY <1>1, MessagesAssumption, LenProperties, ElementOfSeq
<1>3. \A b \in SDKBlock : Converted(b) \in Block
  BY DEF SDKBlock, Converted, Block, Names, BlockTypes
<1>4. \A i \in 1..Len(m.blocks) : Converted(m.blocks[i]) \in Block
  BY <1>2, <1>3
<1> QED
  BY <1>2, <1>4, IsASeq DEF Extracted

LEMMA NoEventTyped ==
    /\ NoEvent = [event |-> "none", from |-> "none", blocks |-> <<>>, error |-> FALSE,
                  reason |-> "none"]
    /\ <<>> \in Seq(Block)
  BY EmptySeq DEF NoEvent

LEMMA ResultTyped ==
    ASSUME NEW e \in BOOLEAN
    PROVE  /\ ResultEvent(e) \in Event
           /\ ResultEvent(e).event = "result" /\ ResultEvent(e).error = e
  BY NoEventTyped DEF ResultEvent, Event

LEMMA DoneTyped ==
    ASSUME NEW r \in {"completed", "interrupted", "error"}
    PROVE  /\ DoneEvent(r) \in Event
           /\ DoneEvent(r).event = "done" /\ DoneEvent(r).reason = r
  BY NoEventTyped DEF DoneEvent, Event

LEMMA ErrorTyped ==
    ASSUME NEW c \in {"AGENT_ERROR", "MEMORY_EXTRACTION_FAILED"}
    PROVE  /\ ErrorEvent(c) \in Event
           /\ ErrorEvent(c).event = "error" /\ ErrorEvent(c).reason = c
  BY NoEventTyped DEF ErrorEvent, Event

\* What a message becomes is an event that neither ends nor reports.
LEMMA MappedTyped ==
    ASSUME NEW m \in Messages, options \in [checkpointing : BOOLEAN, partials : BOOLEAN,
                                            memory : BOOLEAN],
           EventOf(m) # NoEvent
    PROVE  /\ EventOf(m) \in Event
           /\ EventOf(m).event \in {"message", "question", "partial"}
<1>1. Extracted(m) \in Seq(Block)
  BY ExtractedTyped
<1>2. \A from \in {"user", "assistant"} :
        /\ MessageEvent(from, Extracted(m)) \in Event
        /\ MessageEvent(from, Extracted(m)).event = "message"
  BY <1>1, NoEventTyped DEF MessageEvent, Event
<1>3. \A kind \in {"question", "partial"} :
        /\ [NoEvent EXCEPT !.event = kind] \in Event
        /\ [NoEvent EXCEPT !.event = kind].event = kind
  BY NoEventTyped DEF Event
<1>4. CASE m.kind = "assistant"
  <2>1. EventOf(m) = AssistantEvent(m)
    BY <1>4 DEF EventOf
  <2> QED
    BY <2>1, <1>2, <1>3 DEF AssistantEvent, SpecialToolUse
<1>5. CASE m.kind = "user"
  BY <1>5, <1>2 DEF EventOf
<1>6. CASE m.kind \notin {"user", "assistant"}
  <2>1. CASE m.kind = "partial" /\ options.partials
    BY <2>1, <1>3 DEF EventOf
  <2>2. CASE ~(m.kind = "partial" /\ options.partials)
    <3>1. EventOf(m) = NoEvent
      BY <2>2, <1>6 DEF EventOf
    <3> QED BY <3>1
  <2> QED BY <2>1, <2>2
<1> QED
  BY <1>4, <1>5, <1>6

LEMMA FilesAreStrings ==
    ASSUME NEW m \in Messages
    PROVE  EditedFiles(m) \subseteq STRING
<1>1. Extracted(m) \in Seq(Block)
  BY ExtractedTyped
<1>2. \A i \in DOMAIN Extracted(m) : Extracted(m)[i].what \in STRING
  <2> TAKE i \in DOMAIN Extracted(m)
  <2>1. Extracted(m)[i] \in Block
    BY <1>1
  <2> QED
    BY <2>1 DEF Block
<1> QED
  BY <1>2 DEF EditedFiles, FilesOf

----------------------------------------------------------------------------
(* Type correctness *)

Options == options \in [checkpointing : BOOLEAN, partials : BOOLEAN, memory : BOOLEAN]
Context == ctx \in [turns : Nat, isError : BOOLEAN, files : SUBSET STRING]
Flags   == single.isError \in BOOLEAN /\ answered \in BOOLEAN /\ cut \in BOOLEAN
History ==
    /\ received \in Seq(Messages) /\ Len(received) <= MaxMessages
    /\ \A i \in DOMAIN received : received[i].kind = "result" => i = Len(received)
    /\ \A i \in DOMAIN received : received[i].kind = "result" => answered

TypeInv ==
    Options /\ Context /\ Flags /\ History /\ sent \in Seq(Event) /\ phase \in Phases

LEMMA TypeInit == EventsInit => TypeInv
<1> SUFFICES ASSUME EventsInit PROVE TypeInv
  OBVIOUS
<1>1. Flags
  BY Zenon DEF EventsInit, Flags
<1>2. Options /\ Context /\ History /\ sent \in Seq(Event) /\ phase \in Phases
  BY EmptySeq, MessagesAssumption DEF EventsInit, Options, Context, History, Phases
<1> QED
  BY <1>1, <1>2 DEF TypeInv

LEMMA FlagsStep ==
    ASSUME Flags, [EventsNext]_eventVars
    PROVE  Flags'
<1> USE DEF Flags
<1>1. \A e : HandleEvent(e).isError \in BOOLEAN
  BY Zenon DEF HandleEvent
<1>2. ASSUME NEW m \in Messages, Receive(m) PROVE Flags'
  BY <1>1, <1>2, Zenon DEF Receive
<1>3. CASE MessagesEnd
  BY <1>3, Zenon DEF MessagesEnd
<1>4. CASE SdkRaises
  <2>1. single'.isError = single.isError
    BY <1>4 DEF SdkRaises
  <2> QED
    BY <2>1, <1>4, Zenon DEF SdkRaises
<1>5. CASE SaveMemory
  BY <1>5, Zenon DEF SaveMemory
<1>6. CASE MemoryFails
  BY <1>1, <1>6, Zenon DEF MemoryFails
<1>7. CASE Register \/ Continue \/ Interrupted \/ RunnerFails
  BY <1>7, Zenon DEF Register, Continue, Interrupted, RunnerFails
<1>8. CASE SendResult \/ SendError \/ SendDone
  BY <1>8, Zenon DEF SendResult, SendError, SendDone
<1>9. CASE Unregister \/ UnregisterFails \/ Drop \/ Terminated \/ UNCHANGED eventVars
  BY <1>9, Zenon DEF Unregister, UnregisterFails, Drop, Terminated, eventVars
<1> QED
  BY <1>2, <1>3, <1>4, <1>5, <1>6, <1>7, <1>8, <1>9 DEF EventsNext

LEMMA ContextStep ==
    ASSUME Context, [EventsNext]_eventVars
    PROVE  Context'
<1> USE DEF Context
<1>1. ASSUME NEW m \in Messages, Receive(m) PROVE Context'
  <2>1. HandleResult(m) \in BOOLEAN
    <3>1. m.error \in BOOLEAN /\ m.malformed \in BOOLEAN
      BY MessagesAssumption DEF Message
    <3> QED BY <3>1 DEF HandleResult
  <2>2. TurnsAfter(m) \in Nat
    BY MessagesAssumption DEF Message, TurnsAfter
  <2>3. ctx.files \cup EditedFiles(m) \subseteq STRING
    BY FilesAreStrings
  <2>4. ctx' = [turns |-> TurnsAfter(m), isError |-> HandleResult(m),
                files |-> ctx.files \cup EditedFiles(m)]
    BY <1>1 DEF Receive, TrackMessage
  <2> QED
    BY <2>1, <2>2, <2>3, <2>4
<1>2. CASE SdkRaises
  BY <1>2 DEF SdkRaises
<1>3. CASE UNCHANGED ctx
  BY <1>3
<1>4. (\E m \in Messages : Receive(m)) \/ SdkRaises \/ UNCHANGED ctx
  BY Zenon DEF EventsNext, Register, MessagesEnd, SaveMemory, MemoryFails, Continue, Interrupted,
     RunnerFails, SendResult, SendError, SendDone, Unregister, UnregisterFails, Drop,
     Terminated, eventVars
<1> QED
  BY <1>1, <1>2, <1>3, <1>4

LEMMA HistoryStep ==
    ASSUME History, [EventsNext]_eventVars
    PROVE  History'
<1> USE DEF History
<1>1. ASSUME NEW m \in Messages, Receive(m) PROVE History'
  <2>1. /\ ~answered /\ Len(received) < MaxMessages
        /\ received' = Append(received, m)
        /\ answered' = (m.kind = "result")
    BY <1>1 DEF Receive
  <2>2. /\ received' \in Seq(Messages) /\ Len(received') = Len(received) + 1
        /\ \A i \in 1..Len(received) : received'[i] = received[i]
        /\ received'[Len(received')] = m
    BY <2>1, AppendProperties
  <2>3. \A i \in DOMAIN received : received[i].kind # "result"
    BY <2>1
  <2>4. \A i \in DOMAIN received' : received'[i].kind = "result" => i = Len(received')
    BY <2>2, <2>3
  <2>5. \A i \in DOMAIN received' : received'[i].kind = "result" => answered'
    BY <2>1, <2>2, <2>4
  <2> QED
    BY <2>1, <2>2, <2>4, <2>5, MessagesAssumption
<1>2. CASE UNCHANGED <<received, answered>>
  BY <1>2
<1>3. (\E m \in Messages : Receive(m)) \/ UNCHANGED <<received, answered>>
  BY Zenon DEF EventsNext, Register, MessagesEnd, SdkRaises, SaveMemory, MemoryFails, Continue,
     Interrupted, RunnerFails, SendResult, SendError, SendDone, Unregister,
     UnregisterFails, Drop, Terminated, eventVars
<1> QED
  BY <1>1, <1>2, <1>3

LEMMA EventsStep ==
    ASSUME Options, Context, sent \in Seq(Event), [EventsNext]_eventVars
    PROVE  sent' \in Seq(Event)
<1>1. \A e \in Event : Yield(e) => sent' \in Seq(Event)
  BY AppendProperties DEF Yield
<1>2. ASSUME NEW m \in Messages, Receive(m) PROVE sent' \in Seq(Event)
  BY <1>1, <1>2, MappedTyped DEF Receive, Options
<1>3. CASE MemoryFails
  BY <1>1, <1>3, ErrorTyped DEF MemoryFails
<1>4. CASE SendResult
  BY <1>1, <1>4, ResultTyped DEF SendResult, Context
<1>5. CASE SendError
  BY <1>1, <1>5, ErrorTyped DEF SendError
<1>6. CASE SendDone
  <2>1. Reason \in {"completed", "interrupted", "error"}
    BY <1>6 DEF SendDone, Reason
  <2> QED
    BY <1>1, <1>6, <2>1, DoneTyped DEF SendDone
<1>7. CASE UNCHANGED sent
  BY <1>7
<1>8. \/ \E m \in Messages : Receive(m)
      \/ MemoryFails \/ SendResult \/ SendError \/ SendDone \/ UNCHANGED sent
  BY Zenon DEF EventsNext, Register, MessagesEnd, SdkRaises, SaveMemory, Continue,
     Interrupted, RunnerFails, Unregister, UnregisterFails, Drop, Terminated, eventVars
<1> QED
  BY <1>2, <1>3, <1>4, <1>5, <1>6, <1>7, <1>8

LEMMA PhasesStep ==
    ASSUME phase \in Phases, [EventsNext]_eventVars
    PROVE  phase' \in Phases
  BY DEF Phases, EventsNext, Register, Receive, MessagesEnd, SdkRaises, SaveMemory, MemoryFails,
     Continue, Interrupted, RunnerFails, SendResult, SendError, SendDone, Unregister,
     UnregisterFails, Drop, Terminated, eventVars

LEMMA TypeStep == TypeInv /\ [EventsNext]_eventVars => TypeInv'
<1> SUFFICES ASSUME TypeInv, [EventsNext]_eventVars PROVE TypeInv'
  OBVIOUS
<1>1. Options'
  BY Zenon DEF TypeInv, Options, EventsNext, Register, Receive, MessagesEnd, SdkRaises,
     SaveMemory, MemoryFails, Continue, Interrupted, RunnerFails, SendResult, SendError,
     SendDone, Unregister, UnregisterFails, Drop, Terminated, eventVars
<1> QED
  BY <1>1, FlagsStep, ContextStep, HistoryStep, EventsStep, PhasesStep DEF TypeInv

\* Every behaviour keeps the types, whatever the SDK sends and however much of it.
THEOREM TypeCorrect == EventsSpec => []EventsTypeOK
<1>1. TypeInv => EventsTypeOK
  BY DEF TypeInv, EventsTypeOK, Options, Context, Flags, History
<1> QED
  BY <1>1, TypeInit, TypeStep, PTL DEF EventsSpec

----------------------------------------------------------------------------
(* The order of the events.  Body: no result and no done among the first n events; the *)
(* phase says how far the stream has closed.                                           *)

Body(n) == \A i \in 1..n : sent[i].event \notin {"result", "done"}

Position ==
    /\ phase \notin {"resulted", "stopping", "unregister", "over"} => Body(Len(sent))
    /\ phase \in {"resulted", "stopping"} =>
        /\ Len(sent) > 0 /\ Body(Len(sent) - 1)
        /\ sent[Len(sent)].event = "result"
    /\ phase = "resulted" => sent[Len(sent)].error = ctx.isError
    /\ phase = "errored" =>
        /\ Len(sent) > 0
        /\ sent[Len(sent)].event = "error" /\ sent[Len(sent)].reason = "AGENT_ERROR"

OrderInv == TypeInv /\ StreamWellFormed /\ Position

\* An event of the body goes to the end of the body.
LEMMA BodyGrows ==
    ASSUME sent \in Seq(Event), Body(Len(sent)),
           NEW e \in Event, e.event \notin {"result", "done"}, Yield(e)
    PROVE  Body(Len(sent))' /\ StreamWellFormed'
<1>1. sent' = Append(sent, e)
  BY DEF Yield
<1>2. /\ Len(sent') = Len(sent) + 1
      /\ \A i \in 1..Len(sent) : sent'[i] = sent[i]
      /\ sent'[Len(sent')] = e
      /\ Len(sent) \in Nat /\ DOMAIN sent' = 1..Len(sent')
  BY <1>1, AppendProperties
<1>3. \A i \in 1..Len(sent') : sent'[i].event \notin {"result", "done"}
  BY <1>2 DEF Body
<1> QED
  BY <1>2, <1>3 DEF Body, StreamWellFormed

LEMMA BodyIsWellFormed ==
    ASSUME sent \in Seq(Event)
    PROVE  Body(Len(sent)) => StreamWellFormed
  BY DEF Body, StreamWellFormed

LEMMA OrderStep == OrderInv /\ [EventsNext]_eventVars => OrderInv'
<1> SUFFICES ASSUME OrderInv, [EventsNext]_eventVars PROVE OrderInv'
  OBVIOUS
<1>1. TypeInv'
  BY TypeStep DEF OrderInv
<1> SUFFICES StreamWellFormed' /\ Position'
  BY <1>1 DEF OrderInv
<1>2. sent \in Seq(Event) /\ Len(sent) \in Nat
  BY DEF OrderInv, TypeInv
<1>3. ASSUME NEW m \in Messages, Receive(m) PROVE StreamWellFormed' /\ Position'
  <2>1. Body(Len(sent)) /\ phase = "receive"
    BY <1>3 DEF OrderInv, Position, Receive
  <2>2. CASE EventOf(m) = NoEvent
    <3>1. phase' = phase /\ sent' = sent
      BY <1>3, <2>2 DEF Receive
    <3> QED
      BY <2>1, <3>1, <1>2 DEF OrderInv, Position, StreamWellFormed, Body
  <2>3. CASE EventOf(m) # NoEvent
    <3>1. Yield(EventOf(m)) /\ phase' = "checking"
      BY <1>3, <2>3 DEF Receive
    <3>2. EventOf(m) \in Event /\ EventOf(m).event \in {"message", "question", "partial"}
      BY <2>3, MappedTyped DEF OrderInv, TypeInv, Options
    <3>3. Body(Len(sent))' /\ StreamWellFormed'
      BY <3>1, <3>2, <2>1, <1>2, BodyGrows
    <3> QED
      BY <3>1, <3>3 DEF Position
  <2> QED
    BY <2>2, <2>3
<1>4. CASE MemoryFails
  <2>1. /\ Body(Len(sent)) /\ phase' = "lastCheck"
        /\ Yield(ErrorEvent("MEMORY_EXTRACTION_FAILED"))
    BY <1>4 DEF MemoryFails, OrderInv, Position
  <2>2. Body(Len(sent))' /\ StreamWellFormed'
    BY <2>1, <1>2, BodyGrows, ErrorTyped
  <2> QED
    BY <2>1, <2>2 DEF Position
<1>5. CASE SendError
  <2>1. /\ Body(Len(sent)) /\ phase' = "errored"
        /\ Yield(ErrorEvent("AGENT_ERROR"))
    BY <1>5 DEF SendError, OrderInv, Position
  <2>2. Body(Len(sent))' /\ StreamWellFormed'
    BY <2>1, <1>2, BodyGrows, ErrorTyped
  <2>3. Len(sent') = Len(sent) + 1 /\ sent'[Len(sent')] = ErrorEvent("AGENT_ERROR")
    BY <2>1, <1>2, AppendProperties, ErrorTyped DEF Yield
  <2> QED
    BY <2>1, <2>2, <2>3, <1>2, ErrorTyped DEF Position
<1>6. CASE SendResult
  <2> DEFINE e == ResultEvent(ctx.isError)
  <2>1. Body(Len(sent)) /\ phase' \in {"resulted", "stopping"} /\ ctx' = ctx
    BY <1>6 DEF SendResult, OrderInv, Position
  <2>2. e \in Event /\ e.event = "result" /\ e.error = ctx.isError
    BY ResultTyped DEF OrderInv, TypeInv, Context
  <2>3. sent' = Append(sent, e)
    BY <1>6 DEF SendResult, Yield
  <2> HIDE DEF e
  <2>4. /\ Len(sent') = Len(sent) + 1
        /\ \A i \in 1..Len(sent) : sent'[i] = sent[i]
        /\ sent'[Len(sent')] = e
        /\ DOMAIN sent' = 1..Len(sent')
    BY <2>2, <2>3, <1>2, AppendProperties
  <2>5. \A i \in 1..Len(sent) : sent'[i].event \notin {"result", "done"}
    BY <2>1, <2>4 DEF Body
  <2>6. StreamWellFormed'
    BY <2>2, <2>4, <2>5, <1>2 DEF StreamWellFormed
  <2>7. Body(Len(sent) - 1)'
    BY <2>4, <2>5, <1>2 DEF Body
  <2> QED
    BY <2>1, <2>2, <2>4, <2>6, <2>7, <1>2 DEF Position
<1>7. CASE SendDone
  <2> DEFINE e == DoneEvent(Reason)
  <2>1. phase \in {"resulted", "stopping", "errored"} /\ phase' = "unregister"
    BY <1>7 DEF SendDone
  <2>2. Reason \in {"completed", "interrupted", "error"}
    BY <2>1 DEF Reason
  <2>3. e \in Event /\ e.event = "done" /\ e.reason = Reason
    BY <2>2, DoneTyped
  <2>4. sent' = Append(sent, e)
    BY <1>7 DEF SendDone, Yield
  <2> HIDE DEF e
  <2>5. /\ Len(sent') = Len(sent) + 1 /\ Len(sent) > 0
        /\ \A i \in 1..Len(sent) : sent'[i] = sent[i]
        /\ sent'[Len(sent')] = e
        /\ DOMAIN sent' = 1..Len(sent')
    BY <2>1, <2>3, <2>4, <1>2, AppendProperties DEF OrderInv, Position
  <2>6. Explains(sent[Len(sent)], Reason)
    BY <2>1, <1>2 DEF OrderInv, Position, TypeInv, Context, Explains, Reason
  <2>7. \A i \in 1..(Len(sent) - 1) : sent[i].event \notin {"result", "done"}
    BY <2>1, <1>2 DEF OrderInv, Position, Body
  <2>8. sent[Len(sent)].event # "done"
    BY <2>1, <2>5, <1>2 DEF OrderInv, Position, Body
  <2>9. StreamWellFormed'
    <3> SUFFICES ASSUME NEW i \in 1..Len(sent')
                 PROVE  /\ sent'[i].event = "done" =>
                            /\ i = Len(sent') /\ i > 1
                            /\ Explains(sent'[i - 1], sent'[i].reason)
                        /\ sent'[i].event = "result" =>
                            \/ i = Len(sent')
                            \/ i + 1 = Len(sent') /\ sent'[i + 1].event = "done"
      BY <2>5 DEF StreamWellFormed, Explains
    <3>1. CASE i = Len(sent')
      <4>1. sent'[i - 1] = sent[Len(sent)]
        BY <3>1, <2>5, <1>2
      <4> QED
        BY <3>1, <4>1, <2>3, <2>5, <2>6, <1>2
    <3>2. CASE i = Len(sent)
      BY <3>2, <2>3, <2>5, <2>8, <1>2
    <3>3. CASE i < Len(sent)
      BY <3>3, <2>5, <2>7, <1>2
    <3> QED
      BY <3>1, <3>2, <3>3, <2>5, <1>2
  <2> QED
    BY <2>1, <2>9 DEF Position
<1>8. CASE Register \/ MessagesEnd \/ SdkRaises \/ SaveMemory \/ Continue \/ Interrupted
           \/ RunnerFails
  <2>1. /\ phase \notin {"resulted", "stopping", "unregister", "over"}
        /\ phase' \notin {"resulted", "stopping", "errored", "unregister", "over"}
        /\ sent' = sent
    BY <1>8 DEF Register, MessagesEnd, SdkRaises, SaveMemory, Continue, Interrupted,
       RunnerFails
  <2> QED
    BY <2>1 DEF OrderInv, Position, Body, StreamWellFormed, Explains
<1>9. CASE Unregister \/ UnregisterFails \/ Drop
  <2>1. phase' = "over" /\ sent' = sent
    BY <1>9 DEF Unregister, UnregisterFails, Drop
  <2> QED
    BY <2>1 DEF OrderInv, Position, StreamWellFormed, Explains
<1>10. CASE Terminated \/ UNCHANGED eventVars
  BY <1>10 DEF Terminated, eventVars, OrderInv, Position, Body, StreamWellFormed, Explains
<1> QED
  BY <1>3, <1>4, <1>5, <1>6, <1>7, <1>8, <1>9, <1>10 DEF EventsNext

\* Whatever the SDK sends, and wherever the stream is interrupted, fails or is dropped,
\* its reader sees the events in the promised order.
THEOREM OrderKept == EventsSpec => []StreamWellFormed
<1>1. EventsInit => OrderInv
  <2> SUFFICES ASSUME EventsInit PROVE OrderInv
    OBVIOUS
  <2>1. sent = <<>> /\ phase = "register"
    BY DEF EventsInit
  <2> QED
    BY <2>1, TypeInit DEF OrderInv, StreamWellFormed, Position, Body
<1>2. OrderInv => StreamWellFormed
  BY DEF OrderInv
<1> QED
  BY <1>1, <1>2, OrderStep, PTL DEF EventsSpec

----------------------------------------------------------------------------
(* The files to checkpoint *)

FilesShown(s) == UNION {FilesOf(s[i].blocks) : i \in {j \in DOMAIN s : s[j].from = "assistant"}}
FilesAsked(r) ==
    UNION {FilesOf(Extracted(r[i])) :
           i \in {j \in DOMAIN r : r[j].kind = "assistant" /\ Asked(r[j])}}

FilesInv == TypeInv /\ FilesMatchEvents

\* What an event adds to the files shown, and a message to those of questions.
LEMMA ShownGrows ==
    ASSUME NEW s \in Seq(Event), NEW e \in Event
    PROVE  FilesShown(Append(s, e)) =
               FilesShown(s) \cup (IF e.from = "assistant" THEN FilesOf(e.blocks) ELSE {})
<1> DEFINE t == Append(s, e)
<1>1. /\ Len(s) \in Nat /\ DOMAIN s = 1..Len(s) /\ DOMAIN t = 1..(Len(s) + 1)
      /\ \A i \in 1..Len(s) : t[i] = s[i]
      /\ t[Len(s) + 1] = e
  BY AppendProperties
<1> HIDE DEF t
<1>2. \A i \in DOMAIN t : i \in DOMAIN s \/ i = Len(s) + 1
  BY <1>1
<1>3. DOMAIN s \subseteq DOMAIN t /\ Len(s) + 1 \in DOMAIN t
  BY <1>1
<1>4. ASSUME NEW f \in FilesShown(t)
      PROVE  f \in FilesShown(s) \/ (e.from = "assistant" /\ f \in FilesOf(e.blocks))
  <2>1. PICK i \in DOMAIN t : t[i].from = "assistant" /\ f \in FilesOf(t[i].blocks)
    BY <1>4 DEF FilesShown
  <2> QED
    BY <1>1, <1>2, <2>1 DEF FilesShown
<1>5. FilesShown(s) \subseteq FilesShown(t)
  BY <1>1, <1>3 DEF FilesShown
<1>6. e.from = "assistant" => FilesOf(e.blocks) \subseteq FilesShown(t)
  BY <1>1, <1>3 DEF FilesShown
<1>7. FilesShown(t) =
          FilesShown(s) \cup (IF e.from = "assistant" THEN FilesOf(e.blocks) ELSE {})
  BY <1>4, <1>5, <1>6
<1> QED
  BY <1>7 DEF t

LEMMA AskedGrows ==
    ASSUME NEW r \in Seq(Messages), NEW m \in Messages
    PROVE  FilesAsked(Append(r, m)) =
               FilesAsked(r) \cup
               (IF m.kind = "assistant" /\ Asked(m) THEN FilesOf(Extracted(m)) ELSE {})
<1> DEFINE t == Append(r, m)
<1>1. /\ Len(r) \in Nat /\ DOMAIN r = 1..Len(r) /\ DOMAIN t = 1..(Len(r) + 1)
      /\ \A i \in 1..Len(r) : t[i] = r[i]
      /\ t[Len(r) + 1] = m
  BY AppendProperties
<1> HIDE DEF t
<1>2. \A i \in DOMAIN t : i \in DOMAIN r \/ i = Len(r) + 1
  BY <1>1
<1>3. DOMAIN r \subseteq DOMAIN t /\ Len(r) + 1 \in DOMAIN t
  BY <1>1
<1>4. ASSUME NEW f \in FilesAsked(t)
      PROVE  f \in FilesAsked(r) \/ (m.kind = "assistant" /\ Asked(m) /\ f \in FilesOf(Extracted(m)))
  <2>1. PICK i \in DOMAIN t :
            t[i].kind = "assistant" /\ Asked(t[i]) /\ f \in FilesOf(Extracted(t[i]))
    BY <1>4 DEF FilesAsked
  <2> QED
    BY <1>1, <1>2, <2>1 DEF FilesAsked
<1>5. FilesAsked(r) \subseteq FilesAsked(t)
  BY <1>1, <1>3 DEF FilesAsked
<1>6. m.kind = "assistant" /\ Asked(m) => FilesOf(Extracted(m)) \subseteq FilesAsked(t)
  BY <1>1, <1>3 DEF FilesAsked
<1>7. FilesAsked(t) =
          FilesAsked(r) \cup
          (IF m.kind = "assistant" /\ Asked(m) THEN FilesOf(Extracted(m)) ELSE {})
  BY <1>4, <1>5, <1>6
<1> QED
  BY <1>7 DEF t

\* Of an event that is no message nobody reads a file.
LEMMA NoFilesElse ==
    /\ \A c : ErrorEvent(c).from = "none"
    /\ \A x : ResultEvent(x).from = "none" /\ DoneEvent(x).from = "none"
  BY NoEventTyped DEF ErrorEvent, ResultEvent, DoneEvent

\* The event a message becomes shows its files, unless it is a question.
LEMMA MessageShows ==
    ASSUME NEW m \in Messages
    PROVE  /\ m.kind = "assistant" => EventOf(m) # NoEvent
           /\ m.kind = "assistant" /\ ~Asked(m) =>
                  EventOf(m).from = "assistant" /\ EventOf(m).blocks = Extracted(m)
           /\ m.kind # "assistant" \/ Asked(m) => EventOf(m).from # "assistant"
<1>1. \A from \in {"user", "assistant"} :
        /\ MessageEvent(from, Extracted(m)).event = "message"
        /\ MessageEvent(from, Extracted(m)).blocks = Extracted(m)
        /\ MessageEvent(from, Extracted(m)).from = from
  BY NoEventTyped DEF MessageEvent
<1>2. /\ NoEvent.event = "none" /\ NoEvent.from = "none"
      /\ \A kind \in {"question", "partial"} : [NoEvent EXCEPT !.event = kind].from = "none"
  BY NoEventTyped
<1>3. SpecialToolUse(Extracted(m)).from = "none"
  BY <1>2 DEF SpecialToolUse
<1>4. CASE m.kind = "assistant"
  <2>1. EventOf(m) = AssistantEvent(m)
    BY <1>4 DEF EventOf
  <2>2. CASE Asked(m)
    BY <1>3, <1>4, <2>1, <2>2 DEF AssistantEvent, Asked
  <2>3. CASE ~Asked(m)
    <3>1. EventOf(m) = MessageEvent("assistant", Extracted(m))
      BY <2>1, <2>3 DEF AssistantEvent, Asked
    <3>2. EventOf(m) # NoEvent
      BY <1>1, <1>2, <3>1
    <3> QED
      BY <1>1, <1>4, <2>3, <3>1, <3>2
  <2> QED
    BY <2>2, <2>3
<1>5. CASE m.kind = "user"
  <2>1. EventOf(m) = MessageEvent("user", Extracted(m))
    BY <1>5 DEF EventOf
  <2> QED
    BY <1>1, <1>5, <2>1
<1>6. CASE m.kind \notin {"user", "assistant"}
  <2>1. CASE m.kind = "partial" /\ options.partials
    <3>1. EventOf(m) = [NoEvent EXCEPT !.event = "partial"]
      BY <2>1 DEF EventOf
    <3> QED
      BY <1>2, <1>6, <3>1
  <2>2. CASE ~(m.kind = "partial" /\ options.partials)
    <3>1. EventOf(m) = NoEvent
      BY <2>2, <1>6 DEF EventOf
    <3> QED
      BY <1>2, <1>6, <3>1
  <2> QED
    BY <2>1, <2>2
<1> QED
  BY <1>4, <1>5, <1>6

LEMMA FilesStep == FilesInv /\ [EventsNext]_eventVars => FilesInv'
<1> SUFFICES ASSUME FilesInv, [EventsNext]_eventVars PROVE FilesInv'
  OBVIOUS
<1>1. TypeInv'
  BY TypeStep DEF FilesInv
<1> SUFFICES FilesMatchEvents'
  BY <1>1 DEF FilesInv
<1>2. /\ sent \in Seq(Event) /\ received \in Seq(Messages)
      /\ ctx.files = IF options.checkpointing
                     THEN FilesShown(sent) \cup FilesAsked(received) ELSE {}
  BY DEF FilesInv, FilesMatchEvents, FilesShown, FilesAsked, TypeInv, History
<1> SUFFICES ctx'.files = IF options'.checkpointing
                          THEN FilesShown(sent') \cup FilesAsked(received') ELSE {}
  BY DEF FilesMatchEvents, FilesShown, FilesAsked
<1>3. ASSUME NEW m \in Messages, Receive(m)
      PROVE  ctx'.files = IF options'.checkpointing
                          THEN FilesShown(sent') \cup FilesAsked(received') ELSE {}
  <2>1. options' = options /\ received' = Append(received, m)
    BY <1>3 DEF Receive
  <2>2. ctx'.files = ctx.files \cup EditedFiles(m)
    BY <1>3 DEF Receive, TrackMessage
  <2>3. FilesAsked(received') = FilesAsked(received) \cup
            (IF m.kind = "assistant" /\ Asked(m) THEN FilesOf(Extracted(m)) ELSE {})
    BY <1>2, <2>1, AskedGrows
  <2>4. FilesShown(sent') = FilesShown(sent) \cup
            (IF m.kind = "assistant" /\ ~Asked(m) THEN FilesOf(Extracted(m)) ELSE {})
    <3>1. CASE EventOf(m) = NoEvent
      <4>1. sent' = sent /\ m.kind # "assistant"
        BY <1>3, <3>1, MessageShows DEF Receive
      <4> QED
        BY <4>1
    <3>2. CASE EventOf(m) # NoEvent
      <4>1. sent' = Append(sent, EventOf(m)) /\ EventOf(m) \in Event
        BY <1>3, <3>2, MappedTyped DEF Receive, Yield, FilesInv, TypeInv, Options
      <4>2. FilesShown(sent') = FilesShown(sent) \cup
                (IF EventOf(m).from = "assistant" THEN FilesOf(EventOf(m).blocks) ELSE {})
        BY <1>2, <4>1, ShownGrows
      <4> QED
        BY <4>2, MessageShows
    <3> QED
      BY <3>1, <3>2
  <2> QED
    BY <1>2, <2>1, <2>2, <2>3, <2>4 DEF EditedFiles
<1>4. ASSUME NEW e \in Event, sent' = Append(sent, e), e.from = "none",
             UNCHANGED <<ctx, options, received>>
      PROVE  ctx'.files = IF options'.checkpointing
                          THEN FilesShown(sent') \cup FilesAsked(received') ELSE {}
  <2>1. FilesShown(sent') = FilesShown(sent)
    BY <1>2, <1>4, ShownGrows
  <2> QED
    BY <1>2, <1>4, <2>1
<1>5. CASE MemoryFails
  <2>1. ErrorEvent("MEMORY_EXTRACTION_FAILED") \in Event
    BY ErrorTyped
  <2> QED
    BY <1>4, <1>5, <2>1, NoFilesElse DEF MemoryFails, Yield
<1>6. CASE SendResult
  <2>1. ResultEvent(ctx.isError) \in Event
    BY ResultTyped DEF FilesInv, TypeInv, Context
  <2> QED
    BY <1>4, <1>6, <2>1, NoFilesElse DEF SendResult, Yield
<1>7. CASE SendError
  <2>1. ErrorEvent("AGENT_ERROR") \in Event
    BY ErrorTyped
  <2> QED
    BY <1>4, <1>7, <2>1, NoFilesElse DEF SendError, Yield
<1>8. CASE SendDone
  <2>1. Reason \in {"completed", "interrupted", "error"}
    BY <1>8 DEF SendDone, Reason
  <2>2. DoneEvent(Reason) \in Event
    BY <2>1, DoneTyped
  <2> QED
    BY <1>4, <1>8, <2>2, NoFilesElse DEF SendDone, Yield
<1>9. CASE SdkRaises
  <2>1. /\ ctx'.files = ctx.files
        /\ options' = options /\ received' = received /\ sent' = sent
    BY <1>9 DEF SdkRaises, FilesInv, TypeInv, Context
  <2> QED
    BY <1>2, <2>1
<1>10. CASE UNCHANGED <<ctx, options, received, sent>>
  BY <1>2, <1>10
<1>11. \/ \E m \in Messages : Receive(m)
       \/ MemoryFails \/ SendResult \/ SendError \/ SendDone \/ SdkRaises
       \/ UNCHANGED <<ctx, options, received, sent>>
  BY Zenon DEF EventsNext, Register, MessagesEnd, SaveMemory, Continue, Interrupted,
     RunnerFails, Unregister, UnregisterFails, Drop, Terminated, eventVars
<1> QED
  BY <1>3, <1>5, <1>6, <1>7, <1>8, <1>9, <1>10, <1>11

\* For any messages of any blocks: files_modified has the files of the edits the stream
\* showed and of those in messages a question took the place of, and no other.
THEOREM FilesAgree == EventsSpec => []FilesMatchEvents
<1>1. EventsInit => FilesInv
  <2> SUFFICES ASSUME EventsInit PROVE FilesInv
    OBVIOUS
  <2>1. ctx.files = {} /\ received = <<>> /\ sent = <<>>
    BY DEF EventsInit
  <2> QED
    BY <2>1, TypeInit DEF FilesInv, FilesMatchEvents
<1>2. FilesInv => FilesMatchEvents
  BY DEF FilesInv
<1> QED
  BY <1>1, <1>2, FilesStep, PTL DEF EventsSpec

----------------------------------------------------------------------------
(* Selecting from a sequence.  Induction is over sets: the library's theorems take an   *)
(* operator.                                                                           *)

LEMMA NatSets ==
    ASSUME NEW S, 0 \in S, \A n \in Nat : n \in S => n + 1 \in S
    PROVE  Nat \subseteq S
<1> SUFFICES ASSUME Nat \ S # {} PROVE FALSE
  OBVIOUS
<1> DEFINE less == {ss \in Nat \X Nat : ss[1] < ss[2]}
<1>1. IsWellFoundedOn(less, Nat)
  BY NatLessThanWellFounded DEF OpToRel
<1>2. PICK x \in Nat \ S : \A y \in Nat \ S : <<y, x>> \notin less
  <2> HIDE DEF less
  <2> QED BY <1>1, WFMin
<1>3. x # 0 /\ x - 1 \in Nat
  OBVIOUS
<1>4. x - 1 \in S
  <2>1. \A a, b \in Nat : a < b => <<a, b>> \in less
    OBVIOUS
  <2> HIDE DEF less
  <2>2. <<x - 1, x>> \in less
    BY <1>3, <2>1
  <2> QED BY <1>2, <1>3, <2>2
<1>5. (x - 1) + 1 \in S
  BY <1>3, <1>4
<1> QED
  BY <1>3, <1>5

\* A set of sequences that has the empty one, and with each all that are longer by one.
LEMMA SeqSets ==
    ASSUME NEW X, NEW S, <<>> \in S,
           \A s \in Seq(X), x \in X : s \in S => Append(s, x) \in S
    PROVE  Seq(X) \subseteq S
<1> DEFINE T == {n \in Nat : \A s \in Seq(X) : Len(s) = n => s \in S}
<1>1. 0 \in T
  BY EmptySeq
<1>2. ASSUME NEW n \in Nat, n \in T PROVE n + 1 \in T
  <2> SUFFICES ASSUME NEW s \in Seq(X), Len(s) = n + 1 PROVE s \in S
    OBVIOUS
  <2> DEFINE r == SubSeq(s, 1, n)
  <2>1. \A i \in 1..n : s[i] \in X
    BY ElementOfSeq
  <2>2. /\ r \in Seq(X) /\ Len(r) = n /\ \A i \in 1..n : r[i] = s[i]
    BY <2>1, SubSeqProperties
  <2>3. s[n + 1] \in X
    BY ElementOfSeq
  <2>4. Append(r, s[n + 1]) = s
    <3>1. /\ Append(r, s[n + 1]) \in Seq(X) /\ Len(Append(r, s[n + 1])) = n + 1
          /\ \A i \in 1..n : Append(r, s[n + 1])[i] = s[i]
          /\ Append(r, s[n + 1])[n + 1] = s[n + 1]
      BY <2>2, <2>3, AppendProperties
    <3> QED BY <3>1, SeqEqual
  <2> HIDE DEF r
  <2>5. r \in S
    BY <1>2, <2>2
  <2> QED
    BY <2>2, <2>3, <2>4, <2>5
<1>3. Nat \subseteq T
  <2> HIDE DEF T
  <2> QED BY <1>1, <1>2, NatSets
<1> QED
  BY <1>3, LenProperties

\* What is selected of each prefix of s, up to the m-th.
IsRow(g, s, field, values, m) ==
    g = [n \in 0..m |->
            IF n = 0 THEN <<>>
            ELSE IF s[n][field] \in values THEN Append(g[n - 1], s[n]) ELSE g[n - 1]]

LEMMA UpToExists ==
    ASSUME NEW s, NEW field, NEW values, NEW m \in Nat
    PROVE  \E g : IsRow(g, s, field, values, m)
<1> DEFINE Is(g, k) == IsRow(g, s, field, values, k)
           S == {k \in Nat : \E g : Is(g, k)}
<1>1. 0 \in S
  <2> DEFINE g == [n \in 0..0 |-> <<>>]
  <2>1. Is(g, 0)
    BY DEF IsRow
  <2> QED BY <2>1
<1>2. ASSUME NEW k \in Nat, k \in S PROVE k + 1 \in S
  <2>1. PICK g : Is(g, k)
    BY <1>2
  <2> DEFINE last == IF s[k + 1][field] \in values THEN Append(g[k], s[k + 1]) ELSE g[k]
             h == [n \in 0..(k + 1) |-> IF n = k + 1 THEN last ELSE g[n]]
  <2>2. /\ \A n \in 0..k : h[n] = g[n]
        /\ h[k + 1] = last /\ DOMAIN h = 0..(k + 1)
    OBVIOUS
  <2>3. \A n \in 0..k : g[n] = IF n = 0 THEN <<>>
                        ELSE IF s[n][field] \in values THEN Append(g[n - 1], s[n]) ELSE g[n - 1]
    BY <2>1 DEF IsRow
  <2> HIDE DEF last
  <2>4. \A n \in 0..(k + 1) : h[n] = IF n = 0 THEN <<>>
                        ELSE IF s[n][field] \in values THEN Append(h[n - 1], s[n]) ELSE h[n - 1]
    <3> SUFFICES ASSUME NEW n \in 0..(k + 1)
                 PROVE  h[n] = IF n = 0 THEN <<>>
                        ELSE IF s[n][field] \in values THEN Append(h[n - 1], s[n]) ELSE h[n - 1]
      OBVIOUS
    <3> HIDE DEF h
    <3>1. CASE n = k + 1
      BY <2>2, <3>1 DEF last
    <3>2. CASE n # k + 1 /\ n # 0
      <4>1. n \in 0..k /\ n - 1 \in 0..k
        BY <3>2
      <4> QED BY <2>2, <2>3, <3>2, <4>1
    <3>3. CASE n = 0
      BY <2>2, <2>3, <3>3
    <3> QED BY <3>1, <3>2, <3>3
  <2>5. Is(h, k + 1)
    BY <2>4 DEF IsRow
  <2> HIDE DEF h, Is
  <2> QED BY <2>5
<1>3. Nat \subseteq S
  <2> HIDE DEF S
  <2> QED BY <1>1, <1>2, NatSets
<1> QED
  BY <1>3

\* What is selected is the last of a row, one for each prefix.
LEMMA OnlyRow ==
    ASSUME NEW s, NEW field, NEW values, Len(s) \in Nat
    PROVE  \E g : IsRow(g, s, field, values, Len(s)) /\ Only(s, field, values) = g[Len(s)]
<1> DEFINE row == CHOOSE g : IsRow(g, s, field, values, Len(s))
<1>1. IsRow(row, s, field, values, Len(s))
  <2>1. \E g : IsRow(g, s, field, values, Len(s))
    BY UpToExists
  <2> QED BY <2>1, Zenon
<1>2. Only(s, field, values) = row[Len(s)]
  BY DEF Only, IsRow
<1> HIDE DEF row
<1> QED
  BY <1>1, <1>2

LEMMA RowSteps ==
    ASSUME NEW g, NEW s, NEW field, NEW values, NEW m \in Nat, IsRow(g, s, field, values, m),
           NEW n \in Nat, n + 1 <= m
    PROVE  g[n + 1] = IF s[n + 1][field] \in values THEN Append(g[n], s[n + 1]) ELSE g[n]
<1>1. \A k \in 0..m : g[k] = IF k = 0 THEN <<>>
                  ELSE IF s[k][field] \in values THEN Append(g[k - 1], s[k]) ELSE g[k - 1]
  BY DEF IsRow
<1>2. n + 1 \in 0..m /\ n + 1 # 0 /\ (n + 1) - 1 = n
  OBVIOUS
<1> QED
  BY <1>1, <1>2

\* Appending is associative with concatenating.
LEMMA AppendConcat ==
    ASSUME NEW X, NEW s \in Seq(X), NEW t \in Seq(X), NEW x \in X
    PROVE  s \o Append(t, x) = Append(s \o t, x)
<1>1. <<x>> \in Seq(X)
  OBVIOUS
<1>2. (s \o t) \o <<x>> = s \o (t \o <<x>>)
  BY <1>1, ConcatAssociative
<1>3. s \o t \in Seq(X)
  BY ConcatProperties
<1> QED
  BY <1>2, <1>3, AppendIsConcat

LEMMA OnlyEmpty ==
    ASSUME NEW field, NEW values
    PROVE  Only(<<>>, field, values) = <<>>
<1>1. Len(<<>>) = 0
  OBVIOUS
<1>2. PICK g : IsRow(g, <<>>, field, values, 0) /\ Only(<<>>, field, values) = g[0]
  BY <1>1, OnlyRow
<1> QED
  BY <1>2 DEF IsRow

LEMMA OnlyTyped ==
    ASSUME NEW X, NEW s \in Seq(X), NEW field, NEW values
    PROVE  Only(s, field, values) \in Seq(X)
<1>1. PICK g : IsRow(g, s, field, values, Len(s)) /\ Only(s, field, values) = g[Len(s)]
  BY OnlyRow, LenProperties
<1> DEFINE S == {n \in Nat : n <= Len(s) => g[n] \in Seq(X)}
<1>2. 0 \in S
  BY <1>1, EmptySeq, LenProperties DEF IsRow
<1>3. ASSUME NEW n \in Nat, n \in S PROVE n + 1 \in S
  <2> SUFFICES ASSUME n + 1 <= Len(s) PROVE g[n + 1] \in Seq(X)
    OBVIOUS
  <2>1. g[n] \in Seq(X) /\ s[n + 1] \in X /\ Len(s) \in Nat
    BY <1>3, LenProperties, ElementOfSeq
  <2>2. g[n + 1] = IF s[n + 1][field] \in values THEN Append(g[n], s[n + 1]) ELSE g[n]
    BY <1>1, <2>1, RowSteps
  <2> QED
    BY <2>1, <2>2, AppendProperties
<1>4. Nat \subseteq S
  <2> HIDE DEF S
  <2> QED BY <1>2, <1>3, NatSets
<1> QED
  BY <1>1, <1>4, LenProperties

LEMMA OnlyAppend ==
    ASSUME NEW X, NEW s \in Seq(X), NEW x \in X, NEW field, NEW values
    PROVE  Only(Append(s, x), field, values)
             = IF x[field] \in values THEN Append(Only(s, field, values), x)
               ELSE Only(s, field, values)
<1> DEFINE t == Append(s, x)
<1>1. /\ Len(s) \in Nat /\ Len(t) = Len(s) + 1
      /\ \A i \in 1..Len(s) : t[i] = s[i]
      /\ t[Len(s) + 1] = x
  BY AppendProperties, LenProperties
<1> HIDE DEF t
<1>2. PICK g : IsRow(g, s, field, values, Len(s)) /\ Only(s, field, values) = g[Len(s)]
  BY <1>1, OnlyRow
<1>3. PICK h : IsRow(h, t, field, values, Len(t)) /\ Only(t, field, values) = h[Len(t)]
  BY <1>1, OnlyRow
<1> DEFINE S == {n \in Nat : n <= Len(s) => h[n] = g[n]}
<1>4. 0 \in S
  BY <1>1, <1>2, <1>3 DEF IsRow
<1>5. ASSUME NEW n \in Nat, n \in S PROVE n + 1 \in S
  <2> SUFFICES ASSUME n + 1 <= Len(s) PROVE h[n + 1] = g[n + 1]
    OBVIOUS
  <2>1. h[n] = g[n] /\ t[n + 1] = s[n + 1]
    BY <1>1, <1>5
  <2>2. g[n + 1] = IF s[n + 1][field] \in values THEN Append(g[n], s[n + 1]) ELSE g[n]
    <3>1. IsRow(g, s, field, values, Len(s)) /\ Len(s) \in Nat
      BY <1>1, <1>2
    <3> HIDE DEF S
    <3> QED BY <3>1, RowSteps
  <2>3. h[n + 1] = IF t[n + 1][field] \in values THEN Append(h[n], t[n + 1]) ELSE h[n]
    <3>1. Len(t) \in Nat /\ n + 1 <= Len(t)
      BY <1>1
    <3>2. IsRow(h, t, field, values, Len(t))
      BY <1>3
    <3> HIDE DEF S
    <3> QED BY <3>1, <3>2, RowSteps
  <2> QED
    BY <2>1, <2>2, <2>3
<1>6. Nat \subseteq S
  <2> HIDE DEF S
  <2> QED BY <1>4, <1>5, NatSets
<1>7. h[Len(s)] = g[Len(s)]
  BY <1>1, <1>6
<1>8. h[Len(s) + 1] = IF x[field] \in values THEN Append(h[Len(s)], x) ELSE h[Len(s)]
  <2>1. Len(t) \in Nat /\ Len(s) + 1 <= Len(t)
    BY <1>1
  <2> QED BY <1>1, <1>3, <2>1, RowSteps
<1> QED
  BY <1>1, <1>2, <1>3, <1>7, <1>8 DEF t

LEMMA OnlyConcat ==
    ASSUME NEW X, NEW s \in Seq(X), NEW t \in Seq(X), NEW field, NEW values
    PROVE  Only(s \o t, field, values) = Only(s, field, values) \o Only(t, field, values)
<1> DEFINE F(u) == Only(u, field, values)
           S == {u \in Seq(X) : F(s \o u) = F(s) \o F(u)}
<1>1. <<>> \in S
  <2>1. s \o <<>> = s /\ F(<<>>) = <<>> /\ F(s) \o <<>> = F(s)
    BY OnlyEmpty, OnlyTyped, ConcatEmptySeq
  <2> HIDE DEF F
  <2> QED BY <2>1, EmptySeq
<1>2. ASSUME NEW u \in Seq(X), NEW x \in X, u \in S PROVE Append(u, x) \in S
  <2>1. /\ F(s \o u) = F(s) \o F(u) /\ s \o u \in Seq(X) /\ Append(u, x) \in Seq(X)
        /\ F(s) \in Seq(X) /\ F(u) \in Seq(X)
    BY <1>2, OnlyTyped, ConcatProperties, AppendProperties
  <2>2. s \o Append(u, x) = Append(s \o u, x)
    BY AppendConcat
  <2>3. F(Append(s \o u, x)) = IF x[field] \in values THEN Append(F(s \o u), x) ELSE F(s \o u)
    <3>1. \A w \in Seq(X) :
            F(Append(w, x)) = IF x[field] \in values THEN Append(F(w), x) ELSE F(w)
      BY OnlyAppend
    <3>2. s \o u \in Seq(X)
      BY <2>1
    <3> HIDE DEF F
    <3> QED BY <3>1, <3>2
  <2>4. F(Append(u, x)) = IF x[field] \in values THEN Append(F(u), x) ELSE F(u)
    BY OnlyAppend
  <2> HIDE DEF F
  <2>5. F(s) \o Append(F(u), x) = Append(F(s) \o F(u), x)
    BY <2>1, AppendConcat
  <2> QED
    BY <2>1, <2>2, <2>3, <2>4, <2>5
<1>3. t \in S
  <2> HIDE DEF S
  <2> QED BY <1>1, <1>2, SeqSets
<1> QED
  BY <1>3

\* Nothing is selected just when there is nothing to select.
LEMMA OnlyNone ==
    ASSUME NEW X, NEW s \in Seq(X), NEW field, NEW values
    PROVE  Only(s, field, values) = <<>> <=> \A i \in DOMAIN s : s[i][field] \notin values
<1> DEFINE F(u) == Only(u, field, values)
           S == {u \in Seq(X) : F(u) = <<>> <=> \A i \in DOMAIN u : u[i][field] \notin values}
<1>1. <<>> \in S
  BY OnlyEmpty, EmptySeq
<1>2. ASSUME NEW u \in Seq(X), NEW x \in X, u \in S PROVE Append(u, x) \in S
  <2>1. F(Append(u, x)) = IF x[field] \in values THEN Append(F(u), x) ELSE F(u)
    BY OnlyAppend
  <2>2. F(u) \in Seq(X)
    BY OnlyTyped
  <2>3. Append(F(u), x) # <<>>
    BY <2>2, AppendProperties
  <2>4. /\ Append(u, x) \in Seq(X)
        /\ Len(u) \in Nat /\ DOMAIN u = 1..Len(u) /\ DOMAIN Append(u, x) = 1..(Len(u) + 1)
        /\ \A i \in 1..Len(u) : Append(u, x)[i] = u[i]
        /\ Append(u, x)[Len(u) + 1] = x
    BY AppendProperties, LenProperties
  <2>5. F(u) = <<>> <=> \A i \in DOMAIN u : u[i][field] \notin values
    BY <1>2
  <2> HIDE DEF F
  <2>6. (\A i \in DOMAIN Append(u, x) : Append(u, x)[i][field] \notin values)
          <=> (\A i \in DOMAIN u : u[i][field] \notin values) /\ x[field] \notin values
    BY <2>4
  <2> QED
    BY <2>1, <2>3, <2>4, <2>5, <2>6
<1>3. s \in S
  <2> HIDE DEF S
  <2> QED BY <1>1, <1>2, SeqSets
<1> QED
  BY <1>3

----------------------------------------------------------------------------
(* The chunks of a message's content *)

Deltas   == {"role", "content", "tool", "finish", "[DONE]"}
Says     == STRING \cup {"assistant", "error", "tool_calls", "stop", "none"}
AnyChunk == [delta : Deltas, what : Says, index : Nat]
Content  == [delta : {"content", "tool"}, what : STRING, index : Nat]

ChunkOf(shown, i) ==
    IF shown[i].type = "text"
    THEN [delta |-> "content", what |-> shown[i].what, index |-> 0]
    ELSE [delta |-> "tool", what |-> shown[i].what, index |-> ToolsBefore(shown, i)]
Chunked(shown) == [i \in DOMAIN shown |-> ChunkOf(shown, i)]

LEMMA ContentIsChunked ==
    ASSUME NEW blocks
    PROVE  ContentChunks(blocks) = Chunked(Only(blocks, "type", {"text", "tool_use"}))
  BY DEF ContentChunks, Chunked, ChunkOf

LEMMA ChunkTyped ==
    ASSUME NEW shown \in Seq(Block), NEW i \in 1..Len(shown)
    PROVE  /\ ChunkOf(shown, i) \in Content
           /\ ChunkOf(shown, i).what = shown[i].what
           /\ ChunkOf(shown, i).delta = IF shown[i].type = "text" THEN "content" ELSE "tool"
<1>1. shown[i].what \in STRING
  <2>1. shown[i] \in Block
    BY ElementOfSeq
  <2> QED BY <2>1 DEF Block
<1>2. ToolsBefore(shown, i) \in Nat
  <2> DEFINE all == 1..(i - 1)
             tools == {j \in all : shown[j].type = "tool_use"}
  <2>1. i \in Int
    BY LenProperties
  <2>2. IsFiniteSet(all) /\ tools \in SUBSET all
    BY <2>1, FS_Interval
  <2> HIDE DEF all
  <2>3. IsFiniteSet(tools)
    BY <2>2, FS_Subset
  <2>4. Cardinality(tools) \in Nat
    BY <2>3, FS_CardinalityType
  <2> QED
    BY <2>4 DEF ToolsBefore, all
<1> QED
  BY <1>1, <1>2 DEF ChunkOf, Content

LEMMA ChunkedTyped ==
    ASSUME NEW shown \in Seq(Block)
    PROVE  Chunked(shown) \in Seq(Content) /\ Len(Chunked(shown)) = Len(shown)
<1>1. Len(shown) \in Nat /\ DOMAIN shown = 1..Len(shown)
  BY LenProperties
<1>2. Chunked(shown) \in [1..Len(shown) -> Content]
  BY <1>1, ChunkTyped DEF Chunked
<1>3. Chunked(shown) \in Seq(Content)
  BY <1>1, <1>2, SeqDef
<1> QED
  BY <1>1, <1>2, <1>3, LenProperties

\* One block more gives one chunk more.
LEMMA ChunkedAppend ==
    ASSUME NEW shown \in Seq(Block), NEW x \in Block
    PROVE  \E c \in Content :
             /\ Chunked(Append(shown, x)) = Append(Chunked(shown), c)
             /\ c.what = x.what /\ c.delta = IF x.type = "text" THEN "content" ELSE "tool"
<1> DEFINE n == Len(shown)
           t == Append(shown, x)
           c == ChunkOf(t, n + 1)
<1>1. /\ n \in Nat /\ t \in Seq(Block) /\ Len(t) = n + 1 /\ DOMAIN t = 1..(n + 1)
      /\ DOMAIN shown = 1..n
      /\ \A i \in 1..n : t[i] = shown[i]
      /\ t[n + 1] = x
  BY AppendProperties, LenProperties
<1> HIDE DEF n, t
<1>2. n + 1 \in 1..Len(t)
  BY <1>1
<1>3. c \in Content /\ c.what = x.what /\ c.delta = IF x.type = "text" THEN "content" ELSE "tool"
  BY <1>1, <1>2, ChunkTyped
<1>4. ASSUME NEW i \in 1..n PROVE ChunkOf(t, i) = ChunkOf(shown, i)
  <2>1. \A j \in 1..(i - 1) : t[j] = shown[j]
    BY <1>1
  <2>2. {j \in 1..(i - 1) : t[j].type = "tool_use"}
          = {j \in 1..(i - 1) : shown[j].type = "tool_use"}
    BY <2>1
  <2>3. ToolsBefore(t, i) = ToolsBefore(shown, i)
    BY <2>2 DEF ToolsBefore
  <2> QED
    BY <1>1, <2>3 DEF ChunkOf
<1>5. /\ Chunked(t) \in Seq(Content) /\ Len(Chunked(t)) = n + 1
      /\ Chunked(shown) \in Seq(Content) /\ Len(Chunked(shown)) = n
  BY <1>1, ChunkedTyped DEF n
<1>6. /\ Append(Chunked(shown), c) \in Seq(Content)
      /\ Len(Append(Chunked(shown), c)) = n + 1
      /\ \A i \in 1..n : Append(Chunked(shown), c)[i] = Chunked(shown)[i]
      /\ Append(Chunked(shown), c)[n + 1] = c
  BY <1>3, <1>5, AppendProperties
<1>7. \A i \in 1..n : Chunked(t)[i] = ChunkOf(t, i) /\ Chunked(shown)[i] = ChunkOf(shown, i)
  BY <1>1 DEF Chunked
<1>8. Chunked(t)[n + 1] = c
  BY <1>1 DEF Chunked
<1> HIDE DEF c
<1>9. \A i \in 1..(n + 1) : Chunked(t)[i] = Append(Chunked(shown), c)[i]
  BY <1>1, <1>4, <1>6, <1>7, <1>8
<1>10. Chunked(t) = Append(Chunked(shown), c)
  BY <1>5, <1>6, <1>9, SeqEqual
<1> QED
  BY <1>3, <1>10 DEF t

LEMMA ContentTyped ==
    ASSUME NEW blocks \in Seq(Block)
    PROVE  ContentChunks(blocks) \in Seq(Content)
  BY ContentIsChunked, ChunkedTyped, OnlyTyped

\* Two sequences say the same.
Same(a, b) == Len(a) = Len(b) /\ \A i \in 1..Len(a) : a[i].what = b[i].what

\* The chunks of one kind say what the blocks of its type say.
LEMMA ContentSays ==
    ASSUME NEW blocks \in Seq(Block),
           NEW delta \in {"content", "tool"}, NEW type \in {"text", "tool_use"},
           delta = "content" <=> type = "text"
    PROVE  Same(Only(ContentChunks(blocks), "delta", {delta}), Only(blocks, "type", {type}))
<1> DEFINE F(b) == Only(b, "type", {"text", "tool_use"})
           C(b) == Only(ContentChunks(b), "delta", {delta})
           B(b) == Only(b, "type", {type})
           S    == {b \in Seq(Block) : Same(C(b), B(b))}
<1>1. <<>> \in S
  <2>1. F(<<>>) = <<>> /\ B(<<>>) = <<>> /\ <<>> \in Seq(Block) /\ <<>> \in Seq(Content)
    BY OnlyEmpty, EmptySeq
  <2>2. ContentChunks(<<>>) = <<>>
    <3>1. ContentChunks(<<>>) \in Seq(Content) /\ Len(ContentChunks(<<>>)) = 0
      BY <2>1, ContentIsChunked, ChunkedTyped, EmptySeq
    <3> QED BY <2>1, <3>1, SeqEqual, EmptySeq
  <2>3. C(<<>>) = <<>>
    BY <2>2, OnlyEmpty
  <2> QED
    BY <2>1, <2>3, EmptySeq DEF Same
<1>2. ASSUME NEW b \in Seq(Block), NEW x \in Block, b \in S PROVE Append(b, x) \in S
  <2>1. Append(b, x) \in Seq(Block)
    BY AppendProperties
  <2>2. B(Append(b, x)) = IF x.type = type THEN Append(B(b), x) ELSE B(b)
    BY OnlyAppend
  <2>3. F(Append(b, x)) = IF x.type \in {"text", "tool_use"} THEN Append(F(b), x) ELSE F(b)
    BY OnlyAppend
  <2>4. /\ F(b) \in Seq(Block) /\ B(b) \in Seq(Block) /\ ContentChunks(b) \in Seq(Content)
        /\ C(b) \in Seq(Content)
    BY OnlyTyped, ContentTyped
  <2>5. Same(C(b), B(b))
    BY <1>2
  <2>6. CASE x.type \notin {"text", "tool_use"}
    <3>1. ContentChunks(Append(b, x)) = ContentChunks(b)
      BY <2>3, <2>6, ContentIsChunked
    <3>2. B(Append(b, x)) = B(b)
      BY <2>2, <2>6
    <3> QED
      BY <2>1, <2>5, <3>1, <3>2
  <2>7. CASE x.type \in {"text", "tool_use"}
    <3>1. PICK c \in Content :
            /\ Chunked(Append(F(b), x)) = Append(Chunked(F(b)), c)
            /\ c.what = x.what /\ c.delta = IF x.type = "text" THEN "content" ELSE "tool"
      BY <2>4, ChunkedAppend
    <3>2. ContentChunks(Append(b, x)) = Append(ContentChunks(b), c)
      BY <2>3, <2>7, <3>1, ContentIsChunked
    <3>3. C(Append(b, x)) = IF c.delta = delta THEN Append(C(b), c) ELSE C(b)
      BY <2>4, <3>2, OnlyAppend
    <3>4. c.delta = delta <=> x.type = type
      BY <2>7, <3>1
    <3>5. CASE x.type # type
      BY <2>1, <2>2, <2>5, <3>3, <3>4, <3>5
    <3>6. CASE x.type = type
      <4>1. B(Append(b, x)) = Append(B(b), x) /\ C(Append(b, x)) = Append(C(b), c)
        BY <2>2, <3>3, <3>4, <3>6
      <4> HIDE DEF B, C
      <4>2. Same(Append(C(b), c), Append(B(b), x))
        <5>1. /\ Len(Append(C(b), c)) = Len(C(b)) + 1 /\ Len(C(b)) \in Nat
              /\ \A i \in 1..Len(C(b)) : Append(C(b), c)[i] = C(b)[i]
              /\ Append(C(b), c)[Len(C(b)) + 1] = c
          BY <2>4, AppendProperties, LenProperties
        <5>2. /\ Len(Append(B(b), x)) = Len(B(b)) + 1
              /\ \A i \in 1..Len(B(b)) : Append(B(b), x)[i] = B(b)[i]
              /\ Append(B(b), x)[Len(B(b)) + 1] = x
          BY <2>4, AppendProperties
        <5> QED
          BY <2>5, <3>1, <5>1, <5>2 DEF Same
      <4> QED
        BY <2>1, <4>1, <4>2
    <3> QED
      BY <3>5, <3>6
  <2> QED
    BY <2>6, <2>7
<1>3. blocks \in S
  <2> HIDE DEF S
  <2> QED BY <1>1, <1>2, SeqSets
<1> QED
  BY <1>3

\* What is put after two sequences that say the same keeps them so.
LEMMA SameConcat ==
    ASSUME NEW X, NEW Y, NEW a \in Seq(X), NEW b \in Seq(Y), NEW c \in Seq(X), NEW d \in Seq(Y),
           Same(a, b), Same(c, d)
    PROVE  Same(a \o c, b \o d)
<1>1. /\ Len(a \o c) = Len(a) + Len(c) /\ Len(a) \in Nat /\ Len(c) \in Nat
      /\ \A i \in 1..(Len(a) + Len(c)) : (a \o c)[i] = IF i <= Len(a) THEN a[i] ELSE c[i - Len(a)]
  BY ConcatProperties, LenProperties
<1>2. /\ Len(b \o d) = Len(b) + Len(d)
      /\ \A i \in 1..(Len(b) + Len(d)) : (b \o d)[i] = IF i <= Len(b) THEN b[i] ELSE d[i - Len(b)]
  BY ConcatProperties
<1>3. Len(b) = Len(a) /\ Len(d) = Len(c)
  BY DEF Same
<1>4. ASSUME NEW i \in 1..(Len(a) + Len(c)) PROVE (a \o c)[i].what = (b \o d)[i].what
  <2>1. CASE i <= Len(a)
    BY <1>1, <1>2, <1>3, <2>1 DEF Same
  <2>2. CASE ~(i <= Len(a))
    <3>1. i - Len(a) \in 1..Len(c)
      BY <1>1, <2>2
    <3>2. (a \o c)[i] = c[i - Len(a)] /\ (b \o d)[i] = d[i - Len(a)]
      BY <1>1, <1>2, <1>3, <2>2
    <3> QED BY <3>1, <3>2 DEF Same
  <2> QED BY <2>1, <2>2
<1> QED
  BY <1>1, <1>2, <1>3, <1>4 DEF Same

LEMMA SameSays ==
    ASSUME NEW X, NEW Y, NEW a \in Seq(X), NEW b \in Seq(Y), Same(a, b)
    PROVE  What(a) = What(b)
<1>1. DOMAIN a = DOMAIN b /\ DOMAIN a = 1..Len(a)
  BY LenProperties DEF Same
<1> QED
  BY <1>1 DEF What, Same

----------------------------------------------------------------------------
(* The order of the chunks.  Until the result there is neither a finish nor a [DONE].   *)

Role    == <<Chunk("role", "assistant")>>
Opened  == chunks \o (IF chunks = <<>> THEN Role ELSE <<>>)
Open(c) == \A i \in DOMAIN c : c[i].delta \notin {"finish", "[DONE]"}
Led(c)  == \A i \in DOMAIN c : c[i].delta = "role" <=> i = 1

ChunkInv ==
    /\ chunks \in Seq(AnyChunk) /\ ChunksWellFormed
    /\ phase \notin {"resulted", "stopping", "unregister", "over"} => Open(chunks)
    /\ phase # "over" => \A i \in DOMAIN chunks : chunks[i].delta # "[DONE]"

LEMMA SomeChunks ==
    /\ Role \in Seq(AnyChunk) /\ Len(Role) = 1 /\ Role[1].delta = "role"
    /\ \A what \in Says : /\ <<Chunk("finish", what)>> \in Seq(AnyChunk)
                            /\ Chunk("[DONE]", what) \in AnyChunk
    /\ \A s \in Seq(Content) : s \in Seq(AnyChunk)
<1>1. \A d \in Deltas, what \in Says : Chunk(d, what) \in AnyChunk /\ Chunk(d, what).delta = d
  BY DEF Chunk, AnyChunk
<1>2. Chunk("role", "assistant") \in AnyChunk /\ Chunk("role", "assistant").delta = "role"
  <2>1. "assistant" \in Says
    BY DEF Says
  <2>2. "role" \in Deltas
    BY DEF Deltas
  <2> QED BY <1>1, <2>1, <2>2
<1>3. Content \subseteq AnyChunk
  BY DEF Content, AnyChunk, Deltas, Says
<1>4. \A s \in Seq(Content) : s \in Seq(AnyChunk)
  BY <1>3, SeqMonotonic
<1>5. \A what \in Says : Chunk("finish", what) \in AnyChunk /\ Chunk("[DONE]", what) \in AnyChunk
  BY <1>1 DEF Deltas
<1> QED
  BY <1>2, <1>4, <1>5 DEF Role

\* The role opens the stream once.
LEMMA OpenedLeads ==
    ASSUME chunks \in Seq(AnyChunk), Led(chunks)
    PROVE  /\ Opened \in Seq(AnyChunk) /\ Len(Opened) \in Nat \ {0} /\ Led(Opened)
           /\ Open(chunks) => Open(Opened)
           /\ (\E i \in DOMAIN Opened : Opened[i].delta = "tool") <=> HasToolCalls
           /\ Opened = chunks \/ (chunks = <<>> /\ Opened = Role)
<1>1. Opened = chunks \/ (chunks = <<>> /\ Opened = Role)
  BY SomeChunks, ConcatEmptySeq DEF Opened
<1>2. CASE chunks # <<>>
  <2>1. Opened = chunks /\ Len(chunks) \in Nat \ {0}
    BY <1>1, <1>2, EmptySeq
  <2> QED BY <2>1 DEF HasToolCalls
<1>3. CASE chunks = <<>>
  <2>1. Opened = Role
    BY <1>3, SomeChunks, ConcatEmptySeq DEF Opened
  <2>2. DOMAIN Role = {1} /\ DOMAIN chunks = {}
    BY <1>3, SomeChunks, LenProperties
  <2> QED BY <1>3, <2>1, <2>2, SomeChunks DEF Led, Open, HasToolCalls
<1> QED
  BY <1>1, <1>2, <1>3

\* Before the finish chunk, that is all there is to keep.
LEMMA LedIsEnough ==
    ASSUME chunks' \in Seq(AnyChunk), Led(chunks)', Open(chunks)'
    PROVE  ChunkInv'
  BY DEF Led, Open, ChunksWellFormed, ChunkInv

LEMMA ChunkInvLed ==
    ASSUME ChunkInv, phase # "over"
    PROVE  Led(chunks)
  BY DEF ChunkInv, ChunksWellFormed, Led

\* Content goes to the end of what was opened.
LEMMA ContentGrows ==
    ASSUME chunks \in Seq(AnyChunk), Led(chunks), Open(chunks), NEW more \in Seq(Content),
           chunks' = Opened \o more
    PROVE  chunks' \in Seq(AnyChunk) /\ Led(chunks)' /\ Open(chunks)'
<1> DEFINE n == Len(Opened)
<1>1. /\ Opened \in Seq(AnyChunk) /\ n \in Nat \ {0} /\ Led(Opened) /\ Open(Opened)
      /\ more \in Seq(AnyChunk)
  BY OpenedLeads, SomeChunks
<1>2. /\ chunks' \in Seq(AnyChunk) /\ Len(chunks') = n + Len(more) /\ Len(more) \in Nat
      /\ \A i \in 1..(n + Len(more)) :
            chunks'[i] = IF i <= n THEN Opened[i] ELSE more[i - n]
  BY <1>1, ConcatProperties, LenProperties
<1>3. \A j \in 1..Len(more) : more[j].delta \in {"content", "tool"}
  <2> TAKE j \in 1..Len(more)
  <2>1. more[j] \in Content
    BY ElementOfSeq
  <2> QED BY <2>1 DEF Content
<1>4. DOMAIN chunks' = 1..(n + Len(more)) /\ DOMAIN Opened = 1..n
  BY <1>1, <1>2, LenProperties
<1> HIDE DEF n
<1>5. ASSUME NEW i \in 1..(n + Len(more))
      PROVE  /\ chunks'[i].delta = "role" <=> i = 1
             /\ chunks'[i].delta \notin {"finish", "[DONE]"}
  <2>1. CASE i <= n
    <3>1. chunks'[i] = Opened[i] /\ i \in 1..n
      BY <1>1, <1>2, <2>1
    <3> QED BY <1>1, <1>4, <3>1 DEF Led, Open
  <2>2. CASE ~(i <= n)
    <3>1. chunks'[i] = more[i - n] /\ i - n \in 1..Len(more) /\ i # 1
      BY <1>1, <1>2, <2>2
    <3> QED BY <1>3, <3>1
  <2> QED BY <2>1, <2>2
<1> QED
  BY <1>2, <1>4, <1>5 DEF Led, Open

\* What an event of the body does to the chunks.
LEMMA BodyChunks ==
    ASSUME chunks \in Seq(AnyChunk), Led(chunks), Open(chunks), NEW e \in Event,
           e.event \in {"message", "question", "partial", "error", "done"}, Yield(e)
    PROVE  /\ chunks' \in Seq(AnyChunk) /\ Led(chunks)' /\ Open(chunks)'
           /\ e.event \in {"question", "error", "done"} => chunks' = chunks
           /\ e.event = "partial" => chunks' = Opened \o <<>>
           /\ e.event = "message" => chunks' = Opened \o ContentChunks(e.blocks)
<1>1. chunks' = AdaptEvent(e)
  BY DEF Yield
<1>2. CASE e.event \in {"question", "error", "done"}
  <2>1. chunks' = chunks
    BY <1>1, <1>2 DEF AdaptEvent
  <2> QED BY <1>2, <2>1 DEF Led, Open
<1>3. CASE e.event = "partial"
  <2>1. chunks' = Opened
    BY <1>1, <1>3 DEF AdaptEvent, Opened, Role
  <2>2. <<>> \in Seq(Content) /\ Opened \o <<>> = Opened
    BY OpenedLeads, ConcatEmptySeq, EmptySeq
  <2> QED BY <1>3, <2>1, <2>2, ContentGrows
<1>4. CASE e.event = "message"
  <2>1. chunks' = Opened \o ContentChunks(e.blocks)
    BY <1>1, <1>4 DEF AdaptEvent, Opened, Role
  <2>2. e.blocks \in Seq(Block)
    BY DEF Event
  <2>3. ContentChunks(e.blocks) \in Seq(Content)
    BY <2>2, ContentTyped
  <2> QED BY <1>4, <2>1, <2>3, ContentGrows
<1> QED
  BY <1>2, <1>3, <1>4

\* The finish chunk closes the stream.
LEMMA ResultChunks ==
    ASSUME chunks \in Seq(AnyChunk), Led(chunks), Open(chunks), NEW e,
           e.event = "result", Yield(e)
    PROVE  /\ chunks' \in Seq(AnyChunk) /\ ChunksWellFormed'
           /\ chunks' = Opened \o <<Chunk("finish", FinishReason(e))>>
           /\ \A i \in DOMAIN chunks' :
                /\ chunks'[i].delta # "[DONE]"
                /\ chunks'[i].delta = "finish" => chunks'[i].what = FinishReason(e)
<1> DEFINE n == Len(Opened)
           last == Chunk("finish", FinishReason(e))
<1>1. chunks' = Opened \o <<last>>
  BY DEF Yield, AdaptEvent, Opened, Role
<1>2. /\ Opened \in Seq(AnyChunk) /\ n \in Nat \ {0} /\ Led(Opened) /\ Open(Opened)
      /\ (\E i \in DOMAIN Opened : Opened[i].delta = "tool") <=> HasToolCalls
  BY OpenedLeads
<1>3. FinishReason(e) \in Says /\ (FinishReason(e) = "tool_calls" => HasToolCalls)
  <2>1. /\ FinishReason(e) \in {"error", "tool_calls", "stop"}
        /\ FinishReason(e) = "tool_calls" => HasToolCalls
    BY DEF FinishReason
  <2> HIDE DEF last
  <2> QED BY <2>1 DEF Says
<1>4. <<last>> \in Seq(AnyChunk) /\ Len(<<last>>) = 1 /\ <<last>>[1] = last
  BY <1>3, SomeChunks
<1>5. last.delta = "finish" /\ last.what = FinishReason(e)
  BY DEF Chunk
<1> HIDE DEF last
<1>6. /\ chunks' \in Seq(AnyChunk) /\ Len(chunks') = n + 1
      /\ \A i \in 1..(n + 1) : chunks'[i] = IF i <= n THEN Opened[i] ELSE <<last>>[i - n]
  BY <1>1, <1>2, <1>4, ConcatProperties
<1>7. /\ DOMAIN chunks' = 1..(n + 1) /\ DOMAIN Opened = 1..n
      /\ \A i \in 1..n : chunks'[i] = Opened[i]
      /\ chunks'[n + 1] = last
  <2>1. (n + 1) - n = 1 /\ ~(n + 1 <= n)
    BY <1>2
  <2> QED BY <1>2, <1>4, <1>6, <2>1, LenProperties
<1> HIDE DEF n
<1>8. \A i \in 1..n : /\ chunks'[i].delta \notin {"finish", "[DONE]"}
                      /\ chunks'[i].delta = "role" <=> i = 1
  BY <1>2, <1>7 DEF Led, Open
<1>9. last.what = "tool_calls" => \E j \in 1..n : chunks'[j].delta = "tool"
  BY <1>2, <1>3, <1>5, <1>7
<1>10. ChunksWellFormed'
  <2> SUFFICES ASSUME NEW i \in 1..(n + 1)
               PROVE  /\ chunks'[i].delta = "role" <=> i = 1 /\ chunks'[i].delta # "[DONE]"
                      /\ chunks'[i].delta = "finish" =>
                            /\ \A j \in (i + 1)..Len(chunks') : chunks'[j].delta = "[DONE]"
                            /\ chunks'[i].what = "tool_calls" =>
                                  \E j \in 1..(i - 1) : chunks'[j].delta = "tool"
                      /\ chunks'[i].delta = "[DONE]" => i = Len(chunks')
    BY <1>7 DEF ChunksWellFormed
  <2>1. CASE i \in 1..n
    <3>1. chunks'[i].delta \notin {"finish", "[DONE]"}
      BY <1>8, <2>1
    <3>2. chunks'[i].delta = "role" <=> i = 1
      BY <1>8, <2>1
    <3> QED BY <3>1, <3>2
  <2>2. CASE i = n + 1
    <3>1. i # 1 /\ i - 1 = n /\ (i + 1)..Len(chunks') = {}
      BY <1>2, <1>6, <2>2
    <3> QED BY <1>5, <1>7, <1>9, <2>2, <3>1
  <2> QED BY <1>2, <2>1, <2>2
<1>11. \A i \in DOMAIN chunks' : /\ chunks'[i].delta # "[DONE]"
                                 /\ chunks'[i].delta = "finish" => chunks'[i].what = FinishReason(e)
  <2>1. \A i \in DOMAIN chunks' : i \in 1..n \/ i = n + 1
    BY <1>2, <1>7
  <2>2. \A i \in 1..n : chunks'[i].delta \notin {"finish", "[DONE]"}
    BY <1>8
  <2> QED BY <1>5, <1>7, <2>1, <2>2
<1> QED
  BY <1>1, <1>6, <1>10, <1>11 DEF last

LEMMA DoneChunk ==
    ASSUME ChunkInv, phase # "over", chunks' = Append(chunks, Chunk("[DONE]", "none"))
    PROVE  /\ chunks' \in Seq(AnyChunk) /\ ChunksWellFormed'
           /\ Len(chunks') = Len(chunks) + 1 /\ \A i \in 1..Len(chunks) : chunks'[i] = chunks[i]
           /\ chunks'[Len(chunks')].delta = "[DONE]"
<1> DEFINE last == Chunk("[DONE]", "none")
<1>1. last \in AnyChunk /\ last.delta = "[DONE]"
  <2>1. "none" \in Says
    BY DEF Says
  <2>2. last \in AnyChunk
    BY <2>1, SomeChunks
  <2> QED BY <2>2 DEF Chunk
<1> HIDE DEF last
<1>2. /\ chunks' \in Seq(AnyChunk) /\ Len(chunks') = Len(chunks) + 1
      /\ \A i \in 1..Len(chunks) : chunks'[i] = chunks[i]
      /\ chunks'[Len(chunks) + 1] = last
      /\ Len(chunks) \in Nat /\ DOMAIN chunks = 1..Len(chunks) /\ DOMAIN chunks' = 1..Len(chunks')
  BY <1>1, AppendProperties, LenProperties DEF last, ChunkInv
<1>3. ChunksWellFormed'
  <2> SUFFICES ASSUME NEW i \in 1..Len(chunks')
               PROVE  /\ chunks'[i].delta = "role" <=> i = 1 /\ chunks'[i].delta # "[DONE]"
                      /\ chunks'[i].delta = "finish" =>
                            /\ \A j \in (i + 1)..Len(chunks') : chunks'[j].delta = "[DONE]"
                            /\ chunks'[i].what = "tool_calls" =>
                                  \E j \in 1..(i - 1) : chunks'[j].delta = "tool"
                      /\ chunks'[i].delta = "[DONE]" => i = Len(chunks')
    BY <1>2 DEF ChunksWellFormed
  <2>1. CASE i = Len(chunks')
    BY <1>1, <1>2, <2>1
  <2>2. CASE i \in 1..Len(chunks)
    <3>1. /\ chunks[i].delta = "role" <=> i = 1
          /\ chunks[i].delta # "[DONE]"
          /\ chunks[i].delta = "finish" =>
                /\ \A j \in (i + 1)..Len(chunks) : chunks[j].delta = "[DONE]"
                /\ chunks[i].what = "tool_calls" => \E j \in 1..(i - 1) : chunks[j].delta = "tool"
      BY <1>2, <2>2 DEF ChunkInv, ChunksWellFormed
    <3>2. chunks'[i] = chunks[i] /\ \A j \in 1..(i - 1) : chunks'[j] = chunks[j]
      BY <1>2, <2>2
    <3>3. \A j \in (i + 1)..Len(chunks') : j \in (i + 1)..Len(chunks) \/ j = Len(chunks) + 1
      BY <1>2, <2>2
    <3> QED BY <1>1, <1>2, <2>2, <3>1, <3>2, <3>3
  <2> QED BY <1>2, <2>1, <2>2
<1> QED
  BY <1>1, <1>2, <1>3

LEMMA ChunkStep == OrderInv /\ ChunkInv /\ [EventsNext]_eventVars => ChunkInv'
<1> SUFFICES ASSUME OrderInv, ChunkInv, [EventsNext]_eventVars PROVE ChunkInv'
  OBVIOUS
<1>1. chunks \in Seq(AnyChunk)
  BY DEF ChunkInv
<1>2. phase # "over" => Led(chunks)
  BY ChunkInvLed
<1>3. phase \notin {"resulted", "stopping", "unregister", "over"} => Open(chunks)
  BY DEF ChunkInv
<1>4. ASSUME NEW m \in Messages, Receive(m) PROVE ChunkInv'
  <2>1. phase = "receive"
    BY <1>4 DEF Receive
  <2>2. CASE EventOf(m) = NoEvent
    <3>1. phase' = phase /\ chunks' = chunks
      BY <1>4, <2>2 DEF Receive
    <3> QED BY <3>1 DEF ChunkInv, ChunksWellFormed, Open
  <2>3. CASE EventOf(m) # NoEvent
    <3>1. Yield(EventOf(m))
      BY <1>4, <2>3 DEF Receive
    <3>2. EventOf(m) \in Event /\ EventOf(m).event \in {"message", "question", "partial"}
      BY <2>3, MappedTyped DEF OrderInv, TypeInv, Options
    <3> QED BY <1>1, <1>2, <1>3, <2>1, <3>1, <3>2, BodyChunks, LedIsEnough
  <2> QED BY <2>2, <2>3
<1>5. CASE MemoryFails
  <2>1. phase = "memory" /\ Yield(ErrorEvent("MEMORY_EXTRACTION_FAILED"))
    BY <1>5 DEF MemoryFails
  <2> QED BY <1>1, <1>2, <1>3, <2>1, ErrorTyped, BodyChunks, LedIsEnough
<1>6. CASE SendError
  <2>1. phase = "failed" /\ Yield(ErrorEvent("AGENT_ERROR"))
    BY <1>6 DEF SendError
  <2> QED BY <1>1, <1>2, <1>3, <2>1, ErrorTyped, BodyChunks, LedIsEnough
<1>7. CASE SendResult
  <2> DEFINE e == ResultEvent(ctx.isError)
  <2>1. phase \in {"report", "interrupted"} /\ phase' \in {"resulted", "stopping"} /\ Yield(e)
    BY <1>7 DEF SendResult
  <2>2. e.event = "result"
    BY ResultTyped DEF OrderInv, TypeInv, Context
  <2> HIDE DEF e
  <2>3. /\ chunks' \in Seq(AnyChunk) /\ ChunksWellFormed'
        /\ \A i \in DOMAIN chunks' : chunks'[i].delta # "[DONE]"
    BY <1>1, <1>2, <1>3, <2>1, <2>2, ResultChunks
  <2> QED BY <2>1, <2>3 DEF ChunkInv
<1>8. CASE SendDone
  <2>1. phase \in {"resulted", "stopping", "errored"} /\ phase' = "unregister"
    BY <1>8 DEF SendDone
  <2>2. chunks' = chunks
    <3>1. Reason \in {"completed", "interrupted", "error"}
      BY <2>1 DEF Reason
    <3>2. chunks' = AdaptEvent(DoneEvent(Reason))
      BY <1>8 DEF SendDone, Yield
    <3> QED BY <3>1, <3>2, DoneTyped DEF AdaptEvent
  <2> QED BY <2>1, <2>2 DEF ChunkInv, ChunksWellFormed
<1>9. CASE Unregister
  <2>1. phase = "unregister" /\ phase' = "over" /\ chunks' = Append(chunks, Chunk("[DONE]", "none"))
    BY <1>9 DEF Unregister
  <2> QED BY <2>1, DoneChunk DEF ChunkInv
<1>10. CASE Register \/ MessagesEnd \/ SdkRaises \/ SaveMemory \/ Continue \/ Interrupted
            \/ RunnerFails
  <2>1. /\ phase \notin {"resulted", "stopping", "unregister", "over"}
        /\ phase' \notin {"resulted", "stopping", "unregister", "over"}
        /\ chunks' = chunks
    BY <1>10 DEF Register, MessagesEnd, SdkRaises, SaveMemory, Continue, Interrupted,
       RunnerFails
  <2> QED BY <2>1 DEF ChunkInv, ChunksWellFormed, Open
<1>11. CASE UnregisterFails \/ Drop
  <2>1. phase' = "over" /\ chunks' = chunks
    BY <1>11 DEF UnregisterFails, Drop
  <2> QED BY <2>1 DEF ChunkInv, ChunksWellFormed
<1>12. CASE Terminated \/ UNCHANGED eventVars
  BY <1>12 DEF Terminated, eventVars, ChunkInv, ChunksWellFormed, Open
<1> QED
  BY <1>4, <1>5, <1>6, <1>7, <1>8, <1>9, <1>10, <1>11, <1>12 DEF EventsNext

\* However many messages of however many blocks come, and wherever the stream fails or is
\* interrupted, its OpenAI reader gets the role, the content, one finish and [DONE], in
\* this order.
THEOREM ChunksInOrder == EventsSpec => []ChunksWellFormed
<1>1. EventsInit => OrderInv /\ ChunkInv
  <2> SUFFICES ASSUME EventsInit PROVE OrderInv /\ ChunkInv
    OBVIOUS
  <2>1. sent = <<>> /\ chunks = <<>> /\ phase = "register"
    BY DEF EventsInit
  <2>2. DOMAIN <<>> = {} /\ <<>> \in Seq(AnyChunk)
    BY EmptySeq
  <2>3. ChunkInv
    BY <2>1, <2>2 DEF ChunkInv, ChunksWellFormed, Open
  <2> QED
    BY <2>1, <2>3, TypeInit DEF OrderInv, StreamWellFormed, Position, Body
<1>2. ChunkInv => ChunksWellFormed
  BY DEF ChunkInv
<1> QED
  BY <1>1, <1>2, OrderStep, ChunkStep, PTL DEF EventsSpec

----------------------------------------------------------------------------
(* What the single query and the two streams agree on.  While a query runs, the texts and *)
(* the tool calls collected so far are those streamed so far.                             *)

Running == {"register", "receive", "checking", "memory", "lastCheck", "report", "resulted"}

Agree(delta, type) ==
    Same(Only(chunks, "delta", {delta}), Select(single.content, type)) \/ UserShows(type)

Finished ==
    \A i \in DOMAIN chunks :
        chunks[i].delta = "finish" /\ chunks[i].what # "error"
            => chunks[i].what = Completion.finish \/ UserShows("tool_use")

Collected ==
    /\ single.isError <=> MemoryLost
    /\ Agree("content", "text") /\ Agree("tool", "tool_use")

OutcomeInv ==
    /\ phase \in Running => single.content \in Seq(Block)
    /\ ~cut => phase \notin {"interrupted", "stopping"}
    /\ ~cut /\ phase \in Running => Collected
    /\ ~cut /\ phase \in {"failed", "errored"} => ctx.isError = TRUE
    /\ ~cut /\ phase = "resulted" => Finished
    /\ SameOutcome

\* The blocks of a message are those of its event, and a single query keeps the agent's.
LEMMA MappedSays ==
    ASSUME NEW m \in Messages, EventOf(m) # NoEvent
    PROVE  /\ EventOf(m).reason = "none"
           /\ EventOf(m).event = "message" =>
                /\ EventOf(m).blocks = Extracted(m)
                /\ EventOf(m).from = "assistant" \/ m.kind = "user"
<1>1. \A from \in {"user", "assistant"} :
        /\ MessageEvent(from, Extracted(m)).reason = "none"
        /\ MessageEvent(from, Extracted(m)).blocks = Extracted(m)
        /\ MessageEvent(from, Extracted(m)).from = from
  BY NoEventTyped DEF MessageEvent
<1>2. \A kind \in {"question", "partial"} :
        /\ [NoEvent EXCEPT !.event = kind].event = kind
        /\ [NoEvent EXCEPT !.event = kind].reason = "none"
  BY NoEventTyped
<1>3. CASE m.kind = "assistant"
  <2>1. EventOf(m) = AssistantEvent(m)
    BY <1>3 DEF EventOf
  <2> QED BY <2>1, <1>1, <1>2 DEF AssistantEvent, SpecialToolUse
<1>4. CASE m.kind = "user"
  BY <1>4, <1>1 DEF EventOf
<1>5. CASE m.kind \notin {"user", "assistant"}
  <2>1. CASE m.kind = "partial" /\ options.partials
    BY <2>1, <1>2 DEF EventOf
  <2>2. CASE ~(m.kind = "partial" /\ options.partials)
    <3>1. EventOf(m) = NoEvent
      BY <2>2, <1>5 DEF EventOf
    <3> QED BY <3>1
  <2> QED BY <2>1, <2>2
<1> QED
  BY <1>3, <1>4, <1>5

\* What a user's message showed stays shown.
LEMMA ShownForGood ==
    ASSUME History, [EventsNext]_eventVars, NEW type, UserShows(type)
    PROVE  UserShows(type)'
<1>1. PICK i \in DOMAIN received :
        received[i].kind = "user" /\ Select(Extracted(received[i]), type) # <<>>
  BY DEF UserShows
<1>2. (\E m \in Messages : received' = Append(received, m)) \/ received' = received
  BY Zenon DEF EventsNext, Register, Receive, MessagesEnd, SdkRaises, SaveMemory, MemoryFails,
     Continue, Interrupted, RunnerFails, SendResult, SendError, SendDone, Unregister,
     UnregisterFails, Drop, Terminated, eventVars
<1>3. i \in DOMAIN received' /\ received'[i] = received[i]
  <2>1. ASSUME NEW m \in Messages, received' = Append(received, m)
        PROVE  i \in DOMAIN received' /\ received'[i] = received[i]
    BY <2>1, AppendProperties DEF History
  <2> QED BY <1>2, <2>1
<1> QED
  BY <1>1, <1>3 DEF UserShows, Select

\* The role is no content.
LEMMA OpenedSays ==
    ASSUME chunks \in Seq(AnyChunk), Led(chunks), NEW delta \in {"content", "tool"}
    PROVE  Only(Opened, "delta", {delta}) = Only(chunks, "delta", {delta})
<1>1. CASE Opened = chunks
  BY <1>1
<1>2. CASE chunks = <<>> /\ Opened = Role
  <2>1. \A i \in DOMAIN Role : Role[i]["delta"] \notin {delta}
    <3>1. DOMAIN Role = {1}
      BY SomeChunks, LenProperties
    <3>2. Role[1]["delta"] = "role"
      BY SomeChunks
    <3> QED BY <3>1, <3>2
  <2>2. Only(Role, "delta", {delta}) = <<>>
    BY <2>1, SomeChunks, OnlyNone
  <2> QED BY <1>2, <2>2, OnlyEmpty
<1> QED
  BY <1>1, <1>2, OpenedLeads

LEMMA NothingIsSame ==
    /\ Same(<<>>, <<>>)
    /\ \A X : \A s \in Seq(X) : Same(<<>>, s) \/ Same(s, <<>>) => s = <<>>
  BY EmptySeq DEF Same

LEMMA JoinsAreSame ==
    ASSUME NEW X, NEW Y, NEW a \in Seq(X), NEW b \in Seq(Y), NEW c \in Seq(X), NEW d \in Seq(Y),
           NEW delta, NEW type,
           Same(Only(a, "delta", {delta}), Only(b, "type", {type})),
           Same(Only(c, "delta", {delta}), Only(d, "type", {type}))
    PROVE  Same(Only(a \o c, "delta", {delta}), Only(b \o d, "type", {type}))
<1>1. Only(a \o c, "delta", {delta}) = Only(a, "delta", {delta}) \o Only(c, "delta", {delta})
  BY OnlyConcat, SMTT(30)
<1>2. Only(b \o d, "type", {type}) = Only(b, "type", {type}) \o Only(d, "type", {type})
  BY OnlyConcat, SMTT(30)
<1>3. /\ Only(a, "delta", {delta}) \in Seq(X) /\ Only(c, "delta", {delta}) \in Seq(X)
      /\ Only(b, "type", {type}) \in Seq(Y) /\ Only(d, "type", {type}) \in Seq(Y)
  BY OnlyTyped
<1>4. Same(Only(a, "delta", {delta}) \o Only(c, "delta", {delta}),
           Only(b, "type", {type}) \o Only(d, "type", {type}))
  BY <1>3, SameConcat
<1> QED
  BY <1>1, <1>2, <1>4

\* When an event adds to both alike, they go on agreeing.
LEMMA AgreeGrows ==
    ASSUME chunks \in Seq(AnyChunk), Led(chunks), single.content \in Seq(Block),
           NEW delta \in {"content", "tool"}, NEW type,
           NEW more \in Seq(AnyChunk), NEW said \in Seq(Block),
           Same(Only(chunks, "delta", {delta}), Select(single.content, type)),
           Same(Only(more, "delta", {delta}), Only(said, "type", {type}))
    PROVE  Same(Only(Opened \o more, "delta", {delta}), Select(single.content \o said, type))
<1>1. Opened \in Seq(AnyChunk)
  BY OpenedLeads
<1>2. Same(Only(Opened, "delta", {delta}), Only(single.content, "type", {type}))
  BY OpenedSays DEF Select
<1>3. Same(Only(Opened \o more, "delta", {delta}), Only(single.content \o said, "type", {type}))
  BY <1>1, <1>2, JoinsAreSame
<1> QED
  BY <1>3 DEF Select

\* Chunks that are no content leave what is streamed as it was.
LEMMA StreamedKept ==
    ASSUME chunks \in Seq(AnyChunk), Led(chunks), NEW delta \in {"content", "tool"},
           NEW more \in Seq(AnyChunk), \A i \in DOMAIN more : more[i].delta # delta,
           chunks' = Opened \o more
    PROVE  Only(chunks', "delta", {delta}) = Only(chunks, "delta", {delta})
<1>1. Opened \in Seq(AnyChunk)
  BY OpenedLeads
<1>2. Only(Opened \o more, "delta", {delta})
        = Only(Opened, "delta", {delta}) \o Only(more, "delta", {delta})
  BY <1>1, OnlyConcat
<1>3. Only(more, "delta", {delta}) = <<>>
  BY OnlyNone
<1>4. Only(chunks, "delta", {delta}) \in Seq(AnyChunk)
  BY OnlyTyped
<1> QED
  BY <1>2, <1>3, <1>4, OpenedSays, ConcatEmptySeq

LEMMA NotEnded ==
    ASSUME OrderInv, phase \notin {"unregister", "over"}
    PROVE  ~Ended
<1>1. phase \in Phases /\ sent \in Seq(Event)
  BY DEF OrderInv, TypeInv
<1>2. CASE phase \in {"resulted", "stopping", "errored"}
  BY <1>2 DEF OrderInv, Position, Ended
<1>3. CASE phase \notin {"resulted", "stopping", "unregister", "over"}
  <2>1. Body(Len(sent))
    BY <1>3 DEF OrderInv, Position
  <2>2. Len(sent) \in Nat
    BY <1>1
  <2> QED BY <2>1, <2>2 DEF Body, Ended
<1> QED
  BY <1>2, <1>3

LEMMA SentGrows ==
    ASSUME sent \in Seq(Event), NEW e \in Event, Yield(e)
    PROVE  /\ Len(sent') = Len(sent) + 1 /\ sent'[Len(sent')] = e /\ Len(sent) \in Nat
           /\ \A i \in 1..Len(sent) : sent'[i] = sent[i]
           /\ MemoryLost' <=> MemoryLost \/ e.reason = "MEMORY_EXTRACTION_FAILED"
           /\ Ended' <=> e.event = "done"
<1>1. sent' = Append(sent, e)
  BY DEF Yield
<1>2. /\ Len(sent') = Len(sent) + 1 /\ Len(sent) \in Nat
      /\ \A i \in 1..Len(sent) : sent'[i] = sent[i]
      /\ sent'[Len(sent')] = e
      /\ DOMAIN sent = 1..Len(sent) /\ DOMAIN sent' = 1..Len(sent')
  BY <1>1, AppendProperties
<1>3. \A i \in DOMAIN sent' : i \in DOMAIN sent \/ i = Len(sent')
  BY <1>2
<1>4. DOMAIN sent \subseteq DOMAIN sent' /\ Len(sent') \in DOMAIN sent' /\ Len(sent') > 0
  BY <1>2
<1>5. MemoryLost' <=> MemoryLost \/ e.reason = "MEMORY_EXTRACTION_FAILED"
  BY <1>2, <1>3, <1>4 DEF MemoryLost
<1>6. Ended' <=> e.event = "done"
  BY <1>2, <1>4 DEF Ended
<1> QED
  BY <1>2, <1>5, <1>6

LEMMA AgreeKept ==
    ASSUME History, [EventsNext]_eventVars, NEW delta, NEW type, Agree(delta, type),
           Only(chunks', "delta", {delta}) = Only(chunks, "delta", {delta}),
           single'.content = single.content
    PROVE  Agree(delta, type)'
<1>1. CASE UserShows(type)
  <2>1. UserShows(type)'
    BY <1>1, ShownForGood
  <2> QED BY <2>1 DEF Agree
<1>2. CASE Same(Only(chunks, "delta", {delta}), Select(single.content, type))
  <2>1. Same(Only(chunks', "delta", {delta}), Select(single'.content, type))
    BY <1>2 DEF Select
  <2> QED BY <2>1 DEF Agree, Select
<1> QED
  BY <1>1, <1>2 DEF Agree

\* A user's message adds to the stream alone; when it shows nothing of the type, nothing
\* was added to either.
LEMMA ReceiveAgrees ==
    ASSUME OrderInv, ChunkInv, single.content \in Seq(Block),
           NEW m \in Messages, Receive(m), EventOf(m) # NoEvent,
           NEW delta \in {"content", "tool"}, NEW type \in {"text", "tool_use"},
           delta = "content" <=> type = "text", Agree(delta, type)
    PROVE  Agree(delta, type)'
<1> DEFINE e == EventOf(m)
<1>1. /\ e \in Event /\ e.event \in {"message", "question", "partial"}
      /\ e.event = "message" => e.blocks = Extracted(m) /\ (e.from = "assistant" \/ m.kind = "user")
  BY MappedTyped, MappedSays DEF OrderInv, TypeInv, Options
<1>2. /\ phase = "receive" /\ Yield(e) /\ single' = HandleEvent(e)
      /\ received' = Append(received, m)
  BY DEF Receive
<1>3. chunks \in Seq(AnyChunk) /\ Led(chunks) /\ Open(chunks)
  BY <1>2, ChunkInvLed DEF ChunkInv
<1>4. [EventsNext]_eventVars /\ History
  BY DEF EventsNext, OrderInv, TypeInv
<1>5. Extracted(m) \in Seq(Block) /\ <<>> \in Seq(Block) /\ <<>> \in Seq(AnyChunk)
  BY ExtractedTyped, EmptySeq
<1> HIDE DEF e
<1>6. CASE UserShows(type)
  <2>1. UserShows(type)'
    BY <1>4, <1>6, ShownForGood
  <2> QED BY <2>1 DEF Agree
<1>7. CASE Same(Only(chunks, "delta", {delta}), Select(single.content, type))
  <2>1. ASSUME NEW more \in Seq(AnyChunk), NEW said \in Seq(Block),
               Same(Only(more, "delta", {delta}), Only(said, "type", {type})),
               chunks' = Opened \o more, single'.content = single.content \o said
        PROVE  Agree(delta, type)'
    <3>1. Same(Only(Opened \o more, "delta", {delta}), Select(single.content \o said, type))
      BY <1>3, <1>7, <2>1, AgreeGrows
    <3>2. Same(Only(chunks', "delta", {delta}), Select(single'.content, type))
      BY <2>1, <3>1
    <3> QED BY <3>2 DEF Agree, Select
  <2>2. Same(Only(<<>>, "delta", {delta}), Only(<<>>, "type", {type}))
    BY OnlyEmpty, NothingIsSame
  <2>3. CASE e.event = "question"
    <3>1. chunks' = chunks
      BY <1>1, <1>2, <1>3, <2>3, BodyChunks
    <3>2. single'.content = single.content
      BY <1>2, <2>3 DEF HandleEvent
    <3>3. Agree(delta, type)
      BY <1>7 DEF Agree
    <3> QED BY <1>4, <3>1, <3>2, <3>3, AgreeKept
  <2>4. CASE e.event = "partial"
    <3>1. chunks' = Opened \o <<>>
      BY <1>1, <1>2, <1>3, <2>4, BodyChunks
    <3>2. single'.content = single.content
      BY <1>2, <2>4 DEF HandleEvent
    <3>3. single'.content = single.content \o <<>>
      BY <3>2, ConcatEmptySeq
    <3> QED BY <1>5, <2>1, <2>2, <3>1, <3>3
  <2>5. CASE e.event = "message"
    <3> DEFINE more == ContentChunks(Extracted(m))
    <3>1. chunks' = Opened \o more
      BY <1>1, <1>2, <1>3, <2>5, BodyChunks
    <3>2. /\ Same(Only(more, "delta", {delta}), Only(Extracted(m), "type", {type}))
          /\ more \in Seq(AnyChunk)
      BY <1>5, ContentSays, ContentTyped, SomeChunks
    <3> HIDE DEF more
    <3>3. CASE e.from = "assistant"
      <4>1. single'.content = single.content \o Extracted(m)
        BY <1>1, <1>2, <2>5, <3>3 DEF HandleEvent
      <4> QED BY <1>5, <2>1, <3>1, <3>2, <4>1
    <3>4. CASE e.from # "assistant" /\ Only(Extracted(m), "type", {type}) # <<>>
      <4>1. m.kind = "user"
        BY <1>1, <2>5, <3>4
      <4>2. Len(received') \in DOMAIN received' /\ received'[Len(received')] = m
        BY <1>2, <1>4, AppendProperties DEF History
      <4>3. UserShows(type)'
        BY <3>4, <4>1, <4>2 DEF UserShows, Select
      <4> QED BY <4>3 DEF Agree
    <3>5. CASE e.from # "assistant" /\ Only(Extracted(m), "type", {type}) = <<>>
      <4>1. single'.content = single.content
        BY <1>2, <3>5 DEF HandleEvent
      <4>2. single'.content = single.content \o <<>>
        BY <4>1, ConcatEmptySeq
      <4>3. Same(Only(more, "delta", {delta}), Only(<<>>, "type", {type}))
        BY <3>2, <3>5, OnlyEmpty
      <4> QED BY <1>5, <2>1, <3>1, <3>2, <4>2, <4>3
    <3> QED BY <3>3, <3>4, <3>5
  <2> QED BY <1>1, <2>3, <2>4, <2>5
<1> QED
  BY <1>6, <1>7 DEF Agree

\* While nothing is added, what was collected stays so.
LEMMA CollectedKept ==
    ASSUME History, [EventsNext]_eventVars, Collected, UNCHANGED <<sent, chunks, single>>
    PROVE  Collected'
<1>1. Agree("content", "text")' /\ Agree("tool", "tool_use")'
  BY AgreeKept DEF Collected
<1>2. single'.isError = single.isError /\ (MemoryLost' <=> MemoryLost)
  BY DEF MemoryLost
<1>3. single'.isError <=> MemoryLost'
  BY <1>2, Zenon DEF Collected
<1> QED
  BY <1>1, <1>3, Zenon DEF Collected

LEMMA ReceiveOutcome ==
    ASSUME OrderInv, ChunkInv, OutcomeInv, NEW m \in Messages, Receive(m)
    PROVE  OutcomeInv'
<1>1. /\ phase = "receive" /\ cut' = cut /\ phase' \in {"receive", "checking"}
      /\ single.content \in Seq(Block)
  BY DEF Receive, OutcomeInv, Running
<1>2. [EventsNext]_eventVars /\ History
  BY DEF EventsNext, OrderInv, TypeInv
<1>3. single'.content \in Seq(Block) /\ (~cut => Collected') /\ ~Ended'
  <2>1. CASE EventOf(m) = NoEvent
    <3>1. UNCHANGED <<sent, chunks, single>>
      BY <2>1 DEF Receive
    <3>2. Collected => Collected'
      BY <1>2, <3>1, CollectedKept
    <3>3. ~Ended'
      BY <1>1, <3>1, NotEnded DEF Ended
    <3> QED BY <1>1, <3>1, <3>2, <3>3 DEF OutcomeInv, Running
  <2>2. CASE EventOf(m) # NoEvent
    <3> DEFINE e == EventOf(m)
    <3>1. /\ e \in Event /\ e.event \in {"message", "question", "partial"}
          /\ e.reason = "none" /\ (e.event = "message" => e.blocks = Extracted(m))
      BY <2>2, MappedTyped, MappedSays DEF OrderInv, TypeInv, Options
    <3>2. Yield(e) /\ single' = HandleEvent(e)
      BY <2>2 DEF Receive
    <3>3. Collected => Agree("content", "text")' /\ Agree("tool", "tool_use")'
      BY <1>1, <2>2, ReceiveAgrees DEF Collected
    <3> HIDE DEF e
    <3>4. (MemoryLost' <=> MemoryLost) /\ ~Ended'
      BY <3>1, <3>2, SentGrows DEF OrderInv, TypeInv
    <3>5. single'.isError <=> single.isError
      <4>1. single'.isError = (single.isError \/ e.event = "error")
        BY <3>2 DEF HandleEvent
      <4>2. e.event # "error"
        BY <3>1
      <4> QED BY <4>1, <4>2, Zenon
    <3>6. single'.content \in Seq(Block)
      <4>1. Extracted(m) \in Seq(Block)
        BY ExtractedTyped
      <4>2. single.content \o Extracted(m) \in Seq(Block)
        BY <1>1, <4>1, ConcatProperties
      <4> QED BY <1>1, <3>1, <3>2, <4>2 DEF HandleEvent
    <3>7. Collected => Collected'
      <4> SUFFICES ASSUME Collected PROVE Collected'
        OBVIOUS
      <4>1. single.isError <=> MemoryLost
        BY Zenon DEF Collected
      <4>2. single'.isError <=> MemoryLost'
        BY <3>4, <3>5, <4>1, Zenon
      <4> QED BY <3>3, <4>2, Zenon DEF Collected
    <3> QED BY <1>1, <3>4, <3>6, <3>7 DEF OutcomeInv, Running
  <2> QED BY <2>1, <2>2
<1>4. SameOutcome'
  BY <1>3 DEF SameOutcome
<1> QED
  BY <1>1, <1>3, <1>4 DEF OutcomeInv, Running

LEMMA MemoryOutcome ==
    ASSUME OrderInv, ChunkInv, OutcomeInv, MemoryFails
    PROVE  OutcomeInv'
<1> DEFINE e == ErrorEvent("MEMORY_EXTRACTION_FAILED")
<1>1. /\ phase = "memory" /\ cut' = cut /\ phase' = "lastCheck"
      /\ single.content \in Seq(Block) /\ Yield(e) /\ single' = HandleEvent(e)
  BY DEF MemoryFails, OutcomeInv, Running
<1>2. e \in Event /\ e.event = "error" /\ e.reason = "MEMORY_EXTRACTION_FAILED"
  BY ErrorTyped
<1> HIDE DEF e
<1>3. [EventsNext]_eventVars /\ History
  BY DEF EventsNext, OrderInv, TypeInv
<1>4. chunks' = chunks
  BY <1>1, <1>2, ChunkInvLed, BodyChunks DEF ChunkInv
<1>5. single'.content = single.content
  BY <1>1, <1>2 DEF HandleEvent
<1>6. MemoryLost' /\ ~Ended'
  BY <1>1, <1>2, SentGrows DEF OrderInv, TypeInv
<1>7. single'.isError
  <2>1. single'.isError = (single.isError \/ e.event = "error")
    BY <1>1 DEF HandleEvent
  <2> QED BY <1>2, <2>1, Zenon
<1>8. ASSUME ~cut PROVE Collected'
  <2>1. Collected
    BY <1>1, <1>8 DEF OutcomeInv, Running
  <2>2. Agree("content", "text")' /\ Agree("tool", "tool_use")'
    BY <1>3, <1>4, <1>5, <2>1, AgreeKept DEF Collected
  <2> QED BY <1>6, <1>7, <2>2, Zenon DEF Collected
<1>9. SameOutcome'
  BY <1>6 DEF SameOutcome
<1> QED
  BY <1>1, <1>5, <1>8, <1>9 DEF OutcomeInv, Running

\* The finish chunk says what the single query's completion says.
LEMMA FinishAgrees ==
    ASSUME chunks \in Seq(AnyChunk), single.content \in Seq(Block),
           Agree("tool", "tool_use"), NEW e
    PROVE  \/ FinishReason(e) \in {"error", Completion.finish}
           \/ UserShows("tool_use")
<1> DEFINE a == Only(chunks, "delta", {"tool"})
           b == Only(single.content, "type", {"tool_use"})
<1>1. a = <<>> <=> \A i \in DOMAIN chunks : chunks[i]["delta"] \notin {"tool"}
  BY OnlyNone
<1>2. HasToolCalls <=> a # <<>>
  BY <1>1 DEF HasToolCalls
<1>3. Completion.finish = IF b # <<>> THEN "tool_calls" ELSE "stop"
  BY DEF Completion, Select
<1>4. a \in Seq(AnyChunk) /\ b \in Seq(Block)
  BY OnlyTyped
<1>5. Same(a, b) \/ UserShows("tool_use")
  BY DEF Agree, Select
<1> HIDE DEF a, b
<1>6. Same(a, b) => (a = <<>> <=> b = <<>>)
  BY <1>4, NothingIsSame
<1> QED
  BY <1>2, <1>3, <1>5, <1>6 DEF FinishReason

LEMMA ResultOutcome ==
    ASSUME OrderInv, ChunkInv, OutcomeInv, SendResult
    PROVE  OutcomeInv'
<1> DEFINE e == ResultEvent(ctx.isError)
           last == <<Chunk("finish", FinishReason(e))>>
<1>1. /\ phase \in {"report", "interrupted"} /\ cut' = cut /\ single' = single /\ ctx' = ctx
      /\ phase' = IF phase = "report" THEN "resulted" ELSE "stopping"
      /\ Yield(e)
  BY DEF SendResult
<1>2. e \in Event /\ e.event = "result" /\ e.reason = "none"
  BY ResultTyped, NoEventTyped DEF ResultEvent, OrderInv, TypeInv, Context
<1>3. [EventsNext]_eventVars /\ History /\ sent \in Seq(Event)
  BY DEF EventsNext, OrderInv, TypeInv
<1>4. chunks \in Seq(AnyChunk) /\ Led(chunks) /\ Open(chunks)
  BY <1>1, ChunkInvLed DEF ChunkInv
<1> HIDE DEF e
<1>5. /\ chunks' = Opened \o last
      /\ \A i \in DOMAIN chunks' :
            chunks'[i].delta = "finish" => chunks'[i].what = FinishReason(e)
  BY <1>1, <1>2, <1>4, ResultChunks
<1>6. ~Ended' /\ (MemoryLost' <=> MemoryLost)
  BY <1>1, <1>2, <1>3, SentGrows
<1>7. \A delta \in {"content", "tool"} :
        Only(chunks', "delta", {delta}) = Only(chunks, "delta", {delta})
  <2>1. FinishReason(e) \in Says
    <3>1. FinishReason(e) \in {"error", "tool_calls", "stop"}
      BY DEF FinishReason
    <3> QED BY <3>1 DEF Says
  <2>2. last \in Seq(AnyChunk) /\ \A i \in DOMAIN last : last[i].delta = "finish"
    <3>1. Chunk("finish", FinishReason(e)).delta = "finish"
      BY DEF Chunk
    <3>2. DOMAIN last = {1} /\ last[1] = Chunk("finish", FinishReason(e))
      OBVIOUS
    <3> QED BY <2>1, <3>1, <3>2, SomeChunks
  <2> HIDE DEF last
  <2> QED BY <1>4, <1>5, <2>2, StreamedKept
<1> HIDE DEF last
<1>8. ASSUME ~cut PROVE Collected' /\ Finished' /\ phase' = "resulted"
  <2>1. phase = "report" /\ Collected /\ single.content \in Seq(Block)
    BY <1>1, <1>8 DEF OutcomeInv, Running
  <2>2. Agree("content", "text")' /\ Agree("tool", "tool_use")'
    BY <1>1, <1>3, <1>7, <2>1, AgreeKept DEF Collected
  <2>3. single'.isError <=> MemoryLost'
    <3>1. single.isError <=> MemoryLost
      BY <2>1, Zenon DEF Collected
    <3> QED BY <1>1, <1>6, <3>1, Zenon
  <2>4. FinishReason(e) \in {"error", Completion.finish} \/ UserShows("tool_use")
    BY <1>4, <2>1, FinishAgrees DEF Collected
  <2>5. Completion'.finish = Completion.finish
    BY <1>1 DEF Completion, Select
  <2>6. UserShows("tool_use") => UserShows("tool_use")'
    BY <1>3, ShownForGood
  <2>7. Finished'
    BY <1>5, <2>4, <2>5, <2>6 DEF Finished
  <2> QED BY <1>1, <2>1, <2>2, <2>3, <2>7, Zenon DEF Collected
<1>9. SameOutcome'
  BY <1>6 DEF SameOutcome
<1> QED
  BY <1>1, <1>8, <1>9 DEF OutcomeInv, Running

LEMMA DoneOutcome ==
    ASSUME OrderInv, ChunkInv, OutcomeInv, SendDone
    PROVE  OutcomeInv'
<1> DEFINE e == DoneEvent(Reason)
<1>1. /\ phase \in {"resulted", "stopping", "errored"} /\ phase' = "unregister"
      /\ UNCHANGED <<ctx, single, cut, received>> /\ Yield(e)
  BY DEF SendDone
<1>2. Reason \in {"completed", "interrupted", "error"}
  BY <1>1 DEF Reason
<1>3. e \in Event /\ e.event = "done" /\ e.reason = Reason
  BY <1>2, DoneTyped
<1>4. sent \in Seq(Event)
  BY DEF OrderInv, TypeInv
<1> HIDE DEF e
<1>5. chunks' = chunks
  BY <1>1, <1>3 DEF Yield, AdaptEvent
<1>6. /\ Len(sent') = Len(sent) + 1 /\ sent'[Len(sent')].reason = Reason
      /\ (MemoryLost' <=> MemoryLost)
  BY <1>1, <1>2, <1>3, <1>4, SentGrows
<1>7. sent'[Len(sent') - 1] = sent[Len(sent)]
  <2>1. Len(sent) > 0 /\ Len(sent) \in Nat
    BY <1>1, <1>4 DEF OrderInv, Position
  <2>2. Len(sent') - 1 = Len(sent) /\ Len(sent) \in 1..Len(sent)
    BY <1>6, <2>1
  <2>3. sent'[Len(sent)] = sent[Len(sent)]
    BY <1>1, <1>3, <1>4, <2>2, SentGrows
  <2> QED BY <2>2, <2>3
<1>8. /\ Completion' = Completion /\ (SingleIsError' <=> SingleIsError)
      /\ \A type : UserShows(type)' <=> UserShows(type)
      /\ \A delta : Streamed(delta)' = Streamed(delta)
  <2>1. Completion' = Completion /\ \A type : UserShows(type)' <=> UserShows(type)
    BY <1>1 DEF Completion, Select, UserShows
  <2>2. SingleIsError' <=> SingleIsError
    BY <1>1, Zenon DEF SingleIsError
  <2>3. \A delta : Streamed(delta)' = Streamed(delta)
    BY <1>5 DEF Streamed, What
  <2> QED BY <2>1, <2>2, <2>3
<1>9. ASSUME ~cut, phase = "resulted" PROVE SameOutcome'
  <2>1. Collected /\ Finished /\ single.content \in Seq(Block)
    BY <1>9 DEF OutcomeInv, Running
  <2>2. SingleIsError' <=> sent'[Len(sent')].reason = "error" \/ MemoryLost'
    <3>1. Reason = "error" <=> ctx.isError
      <4>1. Reason = IF ctx.isError THEN "error" ELSE "completed"
        BY <1>9 DEF Reason
      <4> QED BY <4>1
    <3>2. single.isError <=> MemoryLost
      BY <2>1, Zenon DEF Collected
    <3>3. SingleIsError <=> Reason = "error" \/ MemoryLost
      BY <3>1, <3>2, Zenon DEF SingleIsError
    <3> QED BY <1>6, <1>8, <3>3, Zenon
  <2>3. /\ What(Completion.calls) = Streamed("tool") \/ UserShows("tool_use")
        /\ What(Completion.texts) = Streamed("content") \/ UserShows("text")
    <3>1. chunks \in Seq(AnyChunk)
      BY DEF ChunkInv
    <3>2. /\ Only(chunks, "delta", {"tool"}) \in Seq(AnyChunk)
          /\ Only(chunks, "delta", {"content"}) \in Seq(AnyChunk)
          /\ Select(single.content, "tool_use") \in Seq(Block)
          /\ Select(single.content, "text") \in Seq(Block)
      BY <2>1, <3>1, OnlyTyped DEF Select
    <3>3. /\ Completion.calls = Select(single.content, "tool_use")
          /\ Completion.texts = Select(single.content, "text")
      BY DEF Completion
    <3>4. /\ Agree("tool", "tool_use") /\ Agree("content", "text")
      BY <2>1 DEF Collected
    <3>5. Same(Only(chunks, "delta", {"tool"}), Select(single.content, "tool_use"))
            => What(Only(chunks, "delta", {"tool"})) = What(Select(single.content, "tool_use"))
      BY <3>2, SameSays
    <3>6. Same(Only(chunks, "delta", {"content"}), Select(single.content, "text"))
            => What(Only(chunks, "delta", {"content"})) = What(Select(single.content, "text"))
      BY <3>2, SameSays
    <3> QED BY <3>3, <3>4, <3>5, <3>6 DEF Streamed, Agree
  <2>4. \A i \in DOMAIN chunks' :
            chunks'[i].delta = "finish" /\ chunks'[i].what # "error"
                => chunks'[i].what = Completion'.finish \/ UserShows("tool_use")'
    BY <1>5, <1>8, <2>1 DEF Finished
  <2>5. /\ What(Completion.calls)' = Streamed("tool")' \/ UserShows("tool_use")'
        /\ What(Completion.texts)' = Streamed("content")' \/ UserShows("text")'
    BY <1>8, <2>3 DEF What
  <2> QED BY <2>2, <2>4, <2>5 DEF SameOutcome
<1>10. ASSUME ~cut, phase = "errored" PROVE SameOutcome'
  <2>1. Reason = "error" /\ ctx.isError
    BY <1>10 DEF Reason, OutcomeInv
  <2>2. SingleIsError'
    BY <1>8, <2>1, Zenon DEF SingleIsError
  <2>3. \A i \in DOMAIN chunks' : chunks'[i].delta # "finish"
    BY <1>5, <1>10 DEF ChunkInv, Open
  <2>4. sent'[Len(sent') - 1].event # "result"
    BY <1>7, <1>10 DEF OrderInv, Position
  <2> QED BY <1>6, <2>1, <2>2, <2>3, <2>4 DEF SameOutcome
<1>11. ~cut => SameOutcome'
  BY <1>1, <1>9, <1>10 DEF OutcomeInv
<1>12. SameOutcome'
  <2>1. cut => SameOutcome'
    BY <1>1 DEF SameOutcome
  <2> QED BY <1>11, <2>1
<1> QED
  BY <1>1, <1>12 DEF OutcomeInv, Running

LEMMA ClosedOutcome ==
    ASSUME OrderInv, ChunkInv, OutcomeInv, Unregister
    PROVE  OutcomeInv'
<1> DEFINE last == Chunk("[DONE]", "none")
<1>1. /\ phase = "unregister" /\ phase' = "over" /\ chunks' = Append(chunks, last)
      /\ UNCHANGED <<ctx, sent, single, cut, received>>
  BY DEF Unregister
<1>2. /\ chunks \in Seq(AnyChunk) /\ Len(chunks') = Len(chunks) + 1
      /\ \A i \in 1..Len(chunks) : chunks'[i] = chunks[i]
      /\ chunks'[Len(chunks')].delta = "[DONE]" /\ chunks' \in Seq(AnyChunk)
  BY <1>1, DoneChunk DEF ChunkInv
<1>3. last \in AnyChunk /\ last.delta = "[DONE]"
  <2>1. "none" \in Says
    BY DEF Says
  <2>2. last \in AnyChunk
    BY <2>1, SomeChunks
  <2> QED BY <2>2 DEF Chunk
<1> HIDE DEF last
<1>4. \A delta \in {"content", "tool"} : Streamed(delta)' = Streamed(delta)
  <2> TAKE delta \in {"content", "tool"}
  <2>1. last["delta"] \notin {delta}
    BY <1>3
  <2>2. Only(Append(chunks, last), "delta", {delta}) = Only(chunks, "delta", {delta})
    BY <1>2, <1>3, <2>1, OnlyAppend
  <2>3. Only(chunks', "delta", {delta}) = Only(chunks, "delta", {delta})
    BY <1>1, <2>2
  <2> QED BY <2>3 DEF Streamed, What
<1>5. \A i \in DOMAIN chunks' :
        chunks'[i].delta = "finish" => i \in DOMAIN chunks /\ chunks'[i] = chunks[i]
  BY <1>2
<1>6. /\ Completion' = Completion /\ (SingleIsError' <=> SingleIsError)
      /\ \A type : UserShows(type)' <=> UserShows(type)
      /\ (Ended' <=> Ended) /\ (MemoryLost' <=> MemoryLost)
  <2>1. Completion' = Completion /\ \A type : UserShows(type)' <=> UserShows(type)
    BY <1>1 DEF Completion, Select, UserShows
  <2>2. SingleIsError' <=> SingleIsError
    BY <1>1, Zenon DEF SingleIsError
  <2> QED BY <1>1, <2>1, <2>2 DEF Ended, MemoryLost
<1>7. SameOutcome'
  <2> SUFFICES ASSUME Ended, ~cut
               PROVE  /\ SingleIsError' <=> sent[Len(sent)].reason = "error" \/ MemoryLost
                      /\ \A i \in DOMAIN chunks' :
                            chunks'[i].delta = "finish" /\ chunks'[i].what # "error"
                                => chunks'[i].what = Completion.finish \/ UserShows("tool_use")
                      /\ sent[Len(sent) - 1].event = "result" =>
                            /\ What(Completion.calls) = Streamed("tool")' \/ UserShows("tool_use")
                            /\ What(Completion.texts) = Streamed("content")' \/ UserShows("text")
    BY <1>1, <1>6 DEF SameOutcome, What
  <2>1. /\ SingleIsError <=> sent[Len(sent)].reason = "error" \/ MemoryLost
        /\ \A i \in DOMAIN chunks :
              chunks[i].delta = "finish" /\ chunks[i].what # "error"
                  => chunks[i].what = Completion.finish \/ UserShows("tool_use")
        /\ sent[Len(sent) - 1].event = "result" =>
              /\ What(Completion.calls) = Streamed("tool") \/ UserShows("tool_use")
              /\ What(Completion.texts) = Streamed("content") \/ UserShows("text")
    BY DEF OutcomeInv, SameOutcome
  <2> QED BY <1>4, <1>5, <1>6, <2>1
<1> QED
  BY <1>1, <1>7 DEF OutcomeInv, Running

LEMMA OutcomeStep == OrderInv /\ ChunkInv /\ OutcomeInv /\ [EventsNext]_eventVars => OutcomeInv'
<1> SUFFICES ASSUME OrderInv, ChunkInv, OutcomeInv, [EventsNext]_eventVars PROVE OutcomeInv'
  OBVIOUS
<1>1. History
  BY DEF OrderInv, TypeInv
<1>2. UNCHANGED <<sent, chunks, single>> => (Collected => Collected')
  BY <1>1, CollectedKept
<1>3. UNCHANGED sent => (Ended' <=> Ended)
  BY DEF Ended
<1>4. CASE Register \/ MessagesEnd \/ SaveMemory \/ Continue
  <2>1. /\ phase \in Running \ {"resulted"} /\ phase' \in Running \ {"resulted"}
        /\ UNCHANGED <<sent, chunks, single, cut>>
    BY <1>4 DEF Register, MessagesEnd, SaveMemory, Continue, Running
  <2>2. ~Ended'
    BY <1>3, <2>1, NotEnded DEF Running
  <2>3. SameOutcome'
    BY <2>2 DEF SameOutcome
  <2> QED BY <1>2, <2>1, <2>3 DEF OutcomeInv, Running
<1>5. CASE SdkRaises
  <2>1. phase = "receive" /\ phase' = "failed" /\ sent' = sent /\ cut' = cut
    BY <1>5 DEF SdkRaises
  <2>2. ctx'.isError = TRUE
    BY <1>5 DEF SdkRaises, OrderInv, TypeInv, Context
  <2>3. ~Ended'
    BY <1>3, <2>1, NotEnded
  <2> QED BY <2>1, <2>2, <2>3 DEF OutcomeInv, Running, SameOutcome
<1>6. CASE Interrupted \/ RunnerFails \/ Drop
  <2>1. cut' = TRUE /\ phase' \in {"interrupted", "failed", "over"}
    BY <1>6 DEF Interrupted, RunnerFails, Drop
  <2> QED BY <2>1 DEF OutcomeInv, Running, SameOutcome
<1>7. CASE SendError
  <2> DEFINE e == ErrorEvent("AGENT_ERROR")
  <2>1. phase = "failed" /\ phase' = "errored" /\ UNCHANGED <<ctx, single, cut>> /\ Yield(e)
    BY <1>7 DEF SendError
  <2>2. e \in Event /\ e.event = "error"
    BY ErrorTyped
  <2> HIDE DEF e
  <2>3. ~Ended'
    BY <2>1, <2>2, SentGrows DEF OrderInv, TypeInv
  <2> QED BY <2>1, <2>3 DEF OutcomeInv, Running, SameOutcome
<1>8. CASE UnregisterFails
  <2>1. phase' = "over" /\ UNCHANGED <<ctx, sent, single, chunks, cut, received>>
    BY <1>8 DEF UnregisterFails
  <2>2. SameOutcome'
    BY <2>1 DEF OutcomeInv, SameOutcome, Ended, SingleIsError, MemoryLost, Completion, Select,
       What, Streamed, UserShows
  <2> QED BY <2>1, <2>2 DEF OutcomeInv, Running
<1>9. CASE Terminated \/ UNCHANGED eventVars
  <2>1. UNCHANGED <<ctx, phase, sent, single, chunks, cut, received>>
    BY <1>9 DEF Terminated, eventVars
  <2>2. SameOutcome'
    BY <2>1 DEF OutcomeInv, SameOutcome, Ended, SingleIsError, MemoryLost, Completion, Select,
       What, Streamed, UserShows
  <2>3. Finished => Finished'
    BY <2>1 DEF Finished, Completion, Select, UserShows
  <2> QED BY <1>2, <2>1, <2>2, <2>3 DEF OutcomeInv, Running
<1> QED
  BY <1>4, <1>5, <1>6, <1>7, <1>8, <1>9, ReceiveOutcome, MemoryOutcome, ResultOutcome,
     DoneOutcome, ClosedOutcome DEF EventsNext

\* Whatever the messages, a single query and a stream of them come to the same outcome, and
\* an OpenAI completion to that of an OpenAI stream, but for the exceptions that
\* SameOutcome names.
THEOREM OutcomesAgree == EventsSpec => []SameOutcome
<1>1. EventsInit => OrderInv /\ ChunkInv /\ OutcomeInv
  <2> SUFFICES ASSUME EventsInit PROVE OrderInv /\ ChunkInv /\ OutcomeInv
    OBVIOUS
  <2>1. /\ sent = <<>> /\ chunks = <<>> /\ phase = "register"
        /\ single.content = <<>> /\ single.isError = FALSE
    BY DEF EventsInit
  <2>2. DOMAIN <<>> = {} /\ \A X : <<>> \in Seq(X)
    BY EmptySeq
  <2>3. ChunkInv
    BY <2>1, <2>2 DEF ChunkInv, ChunksWellFormed, Open
  <2>4. OrderInv
    BY <2>1, TypeInit DEF OrderInv, StreamWellFormed, Position, Body
  <2>5. Agree("content", "text") /\ Agree("tool", "tool_use")
    BY <2>1, OnlyEmpty, NothingIsSame DEF Agree, Select
  <2>6. ~Ended
    BY <2>1, <2>4, NotEnded
  <2>7. single.isError <=> MemoryLost
    BY <2>1, <2>2 DEF MemoryLost
  <2>8. OutcomeInv
    BY <2>1, <2>2, <2>5, <2>6, <2>7 DEF OutcomeInv, Collected, SameOutcome, Running
  <2> QED
    BY <2>3, <2>4, <2>8
<1>2. OutcomeInv => SameOutcome
  BY DEF OutcomeInv
<1> QED
  BY <1>1, <1>2, OrderStep, ChunkStep, OutcomeStep, PTL DEF EventsSpec
=============================================================================
