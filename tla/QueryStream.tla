---------------------------- MODULE QueryStream ----------------------------
(***************************************************************************)
(* One streaming query: QueryStreamEventGenerator of routes/query_stream.  *)
(* A producer task pulls events from the agent and puts them in a bounded  *)
(* asyncio.Queue; the generator that feeds the SSE response gets them.     *)
(* None in the queue marks the end.  The client may leave at any time: the *)
(* SSE library then cancels the response, at the queue's get or while an   *)
(* event is being sent.                                                    *)
(*                                                                         *)
(* A task runs alone between two awaits, and a cancellation is delivered   *)
(* before the task's next step, so that cancelling is one step here.       *)
(***************************************************************************)
EXTENDS Naturals, Sequences

CONSTANTS
    QueueSize,      \* maxsize of the event queue
    MaxEvents,      \* bound: events the agent yields
    MayLeave,       \* whether the client may disconnect
    Faults          \* bound: which services fail, of "create", "interrupt", "update"

ASSUME QueueAssumption == QueueSize \in Nat \ {0}
ASSUME EventsAssumption == MaxEvents \in Nat
ASSUME LeaveAssumption == MayLeave \in BOOLEAN

Kinds  == {"init", "message", "error", "result"}
Events == Kinds \cup {"streamError"}     \* the generator's own error events
Done   == "None"                         \* the sentinel
Errors == {"error", "streamError"}

VARIABLES
    queue,       \* event_queue
    prod,        \* where the producer task is
    held,        \* the event it pulled last
    pulled,      \* how many it pulled
    known,       \* whether self.session_id is set
    row,         \* whether the session's row exists
    isError,     \* self.is_error
    raising,     \* the producer task ends in an error
    cons,        \* where the generator is
    hand,        \* what it got and has not finished sending
    scoped,      \* its cancellation is repeated at every await
    status,      \* the status recorded for the session ("failed": tried in vain)
    gone,        \* the client has disconnected
    marked,      \* the interrupt was requested
    log,         \* history: the events put in the queue
    delivered,   \* history: the events sent while the client listened
    late,        \* history: events pulled after the client left
    failed       \* history: the agent's stream raised

producerVars == <<prod, held, pulled, known, row, isError, raising, late, failed>>
consumerVars == <<cons, hand, scoped, status, delivered>>
vars == <<queue, producerVars, consumerVars, gone, marked, log>>

Init ==
    /\ queue = <<>> /\ log = <<>> /\ delivered = <<>> /\ hand = <<>>
    /\ prod = "new" /\ cons = "get"
    /\ held = Done /\ pulled = 0 /\ late = 0
    /\ known \in BOOLEAN                 \* query.session_id
    /\ row \in BOOLEAN /\ (row => known)
    /\ isError = FALSE /\ raising = FALSE /\ failed = FALSE
    /\ scoped = FALSE /\ gone = FALSE /\ marked = FALSE
    /\ status = "unset"

----------------------------------------------------------------------------
(* The producer task *)

ProducerOver == prod = "over"

Begin ==
    /\ prod = "new"
    /\ prod' = "pull"
    /\ UNCHANGED <<queue, held, pulled, known, row, isError, raising, late, failed,
                   consumerVars, gone, marked, log>>

\* Mutant of Tracked: an error event is not noticed.
NothingTracked(k) == UNCHANGED isError

\* _track_event_metadata
Tracked(k) == isError' = (isError \/ k = "error")

\* The agent yields init first.  An init event that names a session new to
\* the generator has the session created before it is passed on.
Pull(k) ==
    /\ prod = "pull"
    /\ pulled < MaxEvents
    /\ (k = "init") <=> (pulled = 0)
    /\ held' = k
    /\ pulled' = pulled + 1
    /\ late' = IF gone THEN late + 1 ELSE late
    /\ Tracked(k)
    /\ prod' = IF k = "init" /\ ~known THEN "create" ELSE "check"
    /\ known' = (known \/ k = "init")
    /\ UNCHANGED <<queue, row, raising, failed, consumerVars, gone, marked, log>>

AgentEnds ==
    /\ prod = "pull"
    /\ pulled > 0
    /\ prod' = "sentinel"
    /\ UNCHANGED <<queue, held, pulled, known, row, isError, raising, late, failed,
                   consumerVars, gone, marked, log>>

\* Mutant of AgentRaises: the exception only ends the stream.
RaisesUnnoticed ==
    /\ prod = "pull"
    /\ prod' = "sentinel"
    /\ failed' = TRUE
    /\ UNCHANGED <<queue, held, pulled, known, row, isError, raising, late,
                   consumerVars, gone, marked, log>>

AgentRaises ==
    /\ prod = "pull"
    /\ prod' = "streamError"
    /\ failed' = TRUE
    /\ UNCHANGED <<queue, held, pulled, known, row, isError, raising, late,
                   consumerVars, gone, marked, log>>

CreateSession ==
    /\ prod = "create"
    /\ row' = TRUE
    /\ prod' = "check"
    /\ UNCHANGED <<queue, held, pulled, known, isError, raising, late, failed,
                   consumerVars, gone, marked, log>>

CreateSessionFails ==
    /\ prod = "create"
    /\ "create" \in Faults
    /\ prod' = "createError"
    /\ UNCHANGED <<queue, held, pulled, known, row, isError, raising, late, failed,
                   consumerVars, gone, marked, log>>

\* Mutant of CheckConnection: the connection is never looked at.
NeverCheck ==
    /\ prod = "check"
    /\ prod' = "put"
    /\ UNCHANGED <<queue, held, pulled, known, row, isError, raising, late, failed,
                   consumerVars, gone, marked, log>>

\* request.is_disconnected(): interrupt the agent and leave the loop.
CheckConnection ==
    /\ prod = "check"
    /\ prod' = IF ~gone THEN "put" ELSE IF known THEN "leave" ELSE "sentinel"
    /\ UNCHANGED <<queue, held, pulled, known, row, isError, raising, late, failed,
                   consumerVars, gone, marked, log>>

Room == Len(queue) < QueueSize

PutEvent ==
    /\ prod \in {"put", "createError", "streamError"}
    /\ Room
    /\ LET e == IF prod = "put" THEN held ELSE "streamError"
       IN queue' = Append(queue, e) /\ log' = Append(log, e)
    /\ isError' = (isError \/ prod = "createError")
    /\ prod' = CASE prod = "put" -> "pull"
                 [] prod = "createError" -> "check"
                 [] prod = "streamError" -> "sentinel"
    /\ UNCHANGED <<held, pulled, known, row, raising, late, failed,
                   consumerVars, gone, marked>>

PutSentinel ==
    /\ prod = "sentinel"
    /\ Room
    /\ queue' = Append(queue, Done)
    /\ prod' = "over"
    /\ UNCHANGED <<held, pulled, known, row, isError, raising, late, failed,
                   consumerVars, gone, marked, log>>

\* agent_service.interrupt, on a disconnect or on the task's cancellation.
Interrupt ==
    /\ prod \in {"leave", "interrupt"}
    /\ marked' = TRUE
    /\ prod' = "sentinel"
    /\ UNCHANGED <<queue, held, pulled, known, row, isError, raising, late, failed,
                   consumerVars, gone, log>>

\* In the loop the error is one more stream error; while the task is being
\* cancelled it takes the place of the cancellation.
InterruptFails ==
    /\ "interrupt" \in Faults
    /\ \/ prod = "leave" /\ prod' = "streamError" /\ UNCHANGED raising
       \/ prod = "interrupt" /\ prod' = "sentinel" /\ raising' = TRUE
    /\ UNCHANGED <<queue, held, pulled, known, row, isError, late, failed,
                   consumerVars, gone, marked, log>>

Producer ==
    \/ Begin \/ (\E k \in Kinds : Pull(k)) \/ AgentEnds \/ AgentRaises
    \/ CreateSession \/ CreateSessionFails \/ CheckConnection
    \/ PutEvent \/ PutSentinel \/ Interrupt \/ InterruptFails

\* Where a cancelled producer goes on: a task not yet begun never runs, one
\* that waits to put the sentinel ends without it.
AfterCancel ==
    CASE prod \in {"new", "sentinel"} -> "over"
      [] prod \in {"pull", "create", "createError", "check", "put", "leave"} ->
            IF known THEN "interrupt" ELSE "sentinel"
      [] prod \in {"streamError", "interrupt"} -> "sentinel"

CancelProducer ==
    /\ prod' = AfterCancel
    /\ raising' = (raising /\ prod' # "over")
    /\ UNCHANGED <<held, pulled, known, row, isError, late, failed>>

----------------------------------------------------------------------------
(* The generator and the response that drives it *)

\* Mutant of Get: the newest event is taken.
GetNewest ==
    /\ cons = "get"
    /\ queue # <<>>
    /\ queue' = SubSeq(queue, 1, Len(queue) - 1)
    /\ LET e == queue[Len(queue)]
       IN /\ cons' = IF e = Done THEN "cleanup" ELSE "yield"
          /\ hand' = IF e = Done THEN <<>> ELSE <<e>>
    /\ UNCHANGED <<producerVars, scoped, status, delivered, gone, marked, log>>

Get ==
    /\ cons = "get"
    /\ queue # <<>>
    /\ queue' = Tail(queue)
    /\ LET e == Head(queue)
       IN /\ cons' = IF e = Done THEN "cleanup" ELSE "yield"
          /\ hand' = IF e = Done THEN <<>> ELSE <<e>>
    /\ UNCHANGED <<producerVars, scoped, status, delivered, gone, marked, log>>

\* The response has sent the event; to a client that left, nowhere.
Sent ==
    /\ cons = "yield"
    /\ cons' = "get"
    /\ hand' = <<>>
    /\ delivered' = IF gone THEN delivered ELSE delivered \o hand
    /\ UNCHANGED <<queue, producerVars, scoped, status, gone, marked, log>>

Leave ==
    /\ MayLeave
    /\ ~gone
    /\ cons # "over"
    /\ gone' = TRUE
    /\ UNCHANGED <<queue, producerVars, consumerVars, marked, log>>

\* The library notices.  A generator that awaits the queue is cancelled, and
\* again at each later await; one suspended at its yield is not running: it
\* is closed later, outside the cancelled scope, and goes straight to its
\* finally.  A generator that ended by itself (nothing in hand) can still be
\* cancelled in its last await, and loses the status.
Cancelled ==
    /\ gone
    /\ \/ cons = "get" /\ cons' = "interrupt" /\ scoped' = TRUE
       \/ cons = "yield" /\ cons' = "cleanup" /\ UNCHANGED scoped
       \/ cons = "update" /\ ~scoped /\ hand = <<>> /\ cons' = "over" /\ UNCHANGED scoped
    /\ UNCHANGED <<queue, producerVars, hand, status, delivered, gone, marked, log>>

\* except CancelledError: the interrupt is itself cancelled, before or after
\* it reached the cache.
InterruptOnCancel ==
    /\ cons = "interrupt"
    /\ cons' = "cleanup"
    /\ marked' \in {marked, known}
    /\ UNCHANGED <<queue, producerVars, hand, scoped, status, delivered, gone, log>>

\* Mutant of Cleanup: the producer is awaited but not cancelled.
CleanupByWaiting ==
    /\ cons = "cleanup"
    /\ cons' = IF ProducerOver THEN "update" ELSE "join"
    /\ UNCHANGED <<queue, producerVars, hand, scoped, status, delivered, gone, marked, log>>

\* finally: cancel the producer unless it is done, and wait for it.
Cleanup ==
    /\ cons = "cleanup"
    /\ IF ProducerOver
       THEN cons' = "update" /\ UNCHANGED producerVars
       ELSE cons' = "join" /\ CancelProducer
    /\ UNCHANGED <<queue, hand, scoped, status, delivered, gone, marked, log>>

\* A cancellation repeated while the generator awaits the producer is
\* passed on to the producer.
CancelAgain ==
    /\ cons = "join"
    /\ scoped
    /\ ~ProducerOver
    /\ CancelProducer
    /\ UNCHANGED <<queue, consumerVars, gone, marked, log>>

\* await self.producer_task: an error of the producer skips the rest.
Join ==
    /\ cons = "join"
    /\ ProducerOver
    /\ cons' = IF raising THEN "over" ELSE "update"
    /\ UNCHANGED <<queue, producerVars, hand, scoped, status, delivered, gone, marked, log>>

\* Mutant of UpdateStatus: without its guard on the flag.
AlwaysCompleted ==
    /\ cons = "update"
    /\ cons' = "over"
    /\ status' = IF known /\ row /\ ~scoped THEN "completed" ELSE status
    /\ UNCHANGED <<queue, producerVars, hand, scoped, delivered, gone, marked, log>>

\* _update_session_status: cut short inside a cancelled scope; an unknown
\* session is refused by update_session.
UpdateStatus ==
    /\ cons = "update"
    /\ cons' = "over"
    /\ status' = IF known /\ row /\ ~scoped
                 THEN IF isError THEN "error" ELSE "completed"
                 ELSE status
    /\ UNCHANGED <<queue, producerVars, hand, scoped, delivered, gone, marked, log>>

UpdateFails ==
    /\ cons = "update"
    /\ "update" \in Faults
    /\ cons' = "over"
    /\ status' = "failed"
    /\ UNCHANGED <<queue, producerVars, hand, scoped, delivered, gone, marked, log>>

Generator ==
    \/ Get \/ Sent \/ InterruptOnCancel \/ Cleanup \/ CancelAgain \/ Join
    \/ UpdateStatus \/ UpdateFails

Stopped == cons = "over" /\ ProducerOver /\ UNCHANGED vars

Next == Producer \/ Generator \/ Leave \/ Cancelled \/ Stopped

StreamSafe == Init /\ [][Next]_vars

\* The event loop runs every ready task, the library delivers its
\* cancellation, and the agent's stream goes on.
StreamSpec == StreamSafe /\ WF_vars(Producer) /\ WF_vars(Generator) /\ WF_vars(Cancelled)

----------------------------------------------------------------------------
(* Properties *)

ProducerSteps == {"new", "pull", "create", "createError", "check", "put", "leave",
                  "streamError", "interrupt", "sentinel", "over"}
ConsumerSteps == {"get", "yield", "interrupt", "cleanup", "join", "update", "over"}

TypeOK ==
    /\ queue \in Seq(Events \cup {Done}) /\ Len(queue) <= QueueSize
    /\ log \in Seq(Events) /\ delivered \in Seq(Events)
    /\ hand \in Seq(Events)
    /\ prod \in ProducerSteps /\ cons \in ConsumerSteps
    /\ held \in Kinds \cup {Done}
    /\ pulled \in Nat /\ late \in Nat
    /\ known \in BOOLEAN /\ row \in BOOLEAN /\ isError \in BOOLEAN /\ raising \in BOOLEAN
    /\ scoped \in BOOLEAN /\ gone \in BOOLEAN /\ marked \in BOOLEAN /\ failed \in BOOLEAN
    /\ status \in {"unset", "completed", "error", "failed"}

\* The events still in the queue, without the sentinel behind them.
Waiting == IF queue # <<>> /\ queue[Len(queue)] = Done
           THEN SubSeq(queue, 1, Len(queue) - 1) ELSE queue

\* Every event the producer put reaches a client that stays, once and in the
\* order put: what was sent, what is being sent and what waits in the queue
\* are together all there was (query_stream.py 191, 253-257).
NothingLost == ~gone => log = delivered \o hand \o Waiting

\* A client that stays to the end is told of every failure: after an agent
\* whose stream raised, the last event is an error event (198-220).
FailureReported ==
    cons = "over" /\ ~gone /\ failed
        => delivered # <<>> /\ delivered[Len(delivered)] = "streamError"

\* Once the client has left, the agent is asked for at most one more event:
\* the producer looks at the connection before each put (185-188).
StopsPulling == late <= 1

\* The error events that set is_error: the agent's own and that of a session that could not
\* be created.  The one sent for an agent that raised, the last of all, does not (198-220).
FlaggedErrors ==
    {i \in DOMAIN delivered : delivered[i] \in Errors /\ ~(failed /\ i = Len(delivered))}

\* With a client that stays, the stream of a session that exists does not end before its
\* status was written, and the status is "error" exactly if the client was sent an error
\* event that sets is_error: a session whose agent raised after none counts as completed
\* (94-135, 146-147, 230-232, 241-272).
StatusMatchesEvents ==
    ~gone =>
        /\ cons = "over" /\ row => status # "unset"
        /\ status = "completed" => FlaggedErrors = {}
        /\ status = "error" => FlaggedErrors # {}

\* Error events set the is_error flag (tests/unit/routes/test_query_stream.py 164): a
\* generator that has sent one to a client that stayed does not end without it.
ErrorsAreFlagged ==
    cons = "over" /\ ~gone /\ (\E i \in DOMAIN delivered : delivered[i] \in Errors) => isError

\* Whatever the client does, the stream ends or its producer waits to put
\* the sentinel in a full queue, with the generator waiting for it.
EndsUnlessFull ==
    <>[](\/ cons = "over" /\ ProducerOver
         \/ cons = "join" /\ prod = "sentinel" /\ ~Room)

\* A client that disconnects unblocks the producer
\* (tests/integration/test_query_backpressure.py 91, query_stream.py 265).
DisconnectUnblocksProducer == gone ~> ProducerOver
=============================================================================
