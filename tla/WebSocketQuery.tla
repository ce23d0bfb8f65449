-------------------------- MODULE WebSocketQuery ---------------------------
(***************************************************************************)
(* One connection to /query/ws beside the session's other streams.  The    *)
(* connection handles one message at a time: a prompt cancels the query    *)
(* that runs, waits for its task and starts the next; an interrupt asks    *)
(* SessionControl.  When the connection ends, so does its query.           *)
(***************************************************************************)
EXTENDS AgentSession

CONSTANTS
    Prompts,       \* the streams that prompts on this connection start
    Signals        \* the interrupt requests that may arrive on it

Nobody == "nobody"

ASSUME ConnectionAssumption ==
    /\ Prompts \subseteq Streams \ Scoped /\ Signals \subseteq Requests
    /\ Nobody \notin Prompts

VARIABLES
    conn,          \* what the handler is doing
    task,          \* the stream of state.query_task, or of none yet
    next           \* the stream of the prompt being handled

socketVars == <<conn, task, next>>
allVars == <<vars, socketVars>>

SocketInit == Init /\ conn = "receive" /\ task = Nobody /\ next = Nobody

\* A task is done when its stream is over or left to the garbage collector.
TaskRuns == task # Nobody /\ phase[task] \notin {"idle", "abandoned", "over"}

\* The running task is cancelled at its await; one that already unregisters
\* has its DEL cut short.
CancelTask ==
    /\ IF Cancellable(task)
       THEN Cancel(task) /\ UNCHANGED <<late, asked>>
       ELSE /\ phase[task] = "unregister"
            /\ \/ active' = FALSE /\ UNCHANGED calm
               \/ UNCHANGED active /\ calm' = FALSE
            /\ Finish(task)
    /\ UNCHANGED <<marker, ask>>

\* Mutant of Prompt: the running query is left alone.
PromptBeside(s) ==
    /\ conn = "receive"
    /\ phase[s] = "idle"
    /\ next' = s
    /\ conn' = "start"
    /\ UNCHANGED <<vars, task>>

Prompt(s) ==
    /\ conn = "receive"
    /\ phase[s] = "idle"
    /\ next' = s
    /\ IF TaskRuns
       THEN CancelTask /\ conn' = "await"
       ELSE conn' = "start" /\ UNCHANGED vars
    /\ UNCHANGED task

\* await state.query_task
TaskDone ==
    /\ conn \in {"await", "closing"}
    /\ ~TaskRuns
    /\ conn' = IF conn = "await" THEN "start" ELSE "closed"
    /\ UNCHANGED <<vars, task, next>>

StartTask ==
    /\ conn = "start"
    /\ Open(next)
    /\ task' = next
    /\ next' = Nobody
    /\ conn' = "receive"

Signal(r) ==
    /\ conn = "receive"
    /\ RequireActive(r)
    /\ conn' = "signal"
    /\ UNCHANGED <<task, next>>

SignalSent(r) ==
    /\ conn = "signal"
    /\ MarkInterrupted(r)
    /\ conn' = "receive"
    /\ UNCHANGED <<task, next>>

\* The error of a message ends the connection.
SignalFails(r) ==
    /\ conn = "signal" \/ (conn = "receive" /\ ask[r] = "idle")
    /\ ControlFails(r)
    /\ conn' = "failed"
    /\ UNCHANGED <<task, next>>

SignalRefused ==
    /\ conn = "signal"
    /\ \A r \in Signals : ask[r] # "mark"
    /\ conn' = "receive"
    /\ UNCHANGED <<vars, task, next>>

\* Mutant of Disconnect: no finally.
DropConnection ==
    /\ conn \in {"receive", "failed"}
    /\ conn' = "closed"
    /\ UNCHANGED <<vars, task, next>>

\* WebSocketDisconnect at receive_text, or an error: finally.
Disconnect ==
    /\ conn \in {"receive", "failed"}
    /\ IF TaskRuns
       THEN CancelTask /\ conn' = "closing"
       ELSE conn' = "closed" /\ UNCHANGED vars
    /\ UNCHANGED <<task, next>>

Connection ==
    \/ \E s \in Prompts : Prompt(s)
    \/ TaskDone \/ StartTask
    \/ \E r \in Signals : Signal(r) \/ SignalSent(r) \/ SignalFails(r)
    \/ SignalRefused \/ Disconnect

\* The streams run by themselves, but the connection opens and cancels its
\* own.  An interrupt the connection is not handling may come over HTTP.
Others ==
    /\ \/ \E s \in Streams : StreamStep(s) \/ CacheFails(s) \/ UnregisterFails(s)
       \/ \E s \in Streams \ Prompts : Open(s) \/ Close(s) \/ Crash(s)
       \/ \E r \in Requests : Control(r) /\ (conn = "signal" => r \notin Signals)
       \/ Expiry
    /\ UNCHANGED socketVars

SocketNext == Connection \/ Others

SocketSafe == SocketInit /\ [][SocketNext]_allVars

SocketSpec ==
    /\ SocketSafe
    /\ \A s \in Streams : WF_allVars(StreamStep(s) /\ UNCHANGED socketVars)
    /\ WF_allVars(ActiveExpires /\ UNCHANGED socketVars)
    /\ WF_allVars(TaskDone \/ StartTask)
    /\ \A r \in Signals : WF_allVars(SignalSent(r))
    /\ WF_allVars(SignalRefused)
    /\ WF_allVars(conn = "failed" /\ Disconnect)

----------------------------------------------------------------------------
(* Properties *)

\* A connection runs one query at a time: of its streams, all but one are
\* over or left to the garbage collector (websocket.py 103-111).
OneQueryPerConnection ==
    \A s, t \in Prompts :
        phase[s] \notin {"idle", "abandoned", "over"}
            /\ phase[t] \notin {"idle", "abandoned", "over"} => s = t

\* A connection that is gone leaves no query running behind it
\* (websocket.py 329-333).
NoQueryAfterDisconnect ==
    conn = "closed" => \A s \in Prompts : phase[s] \in {"idle", "abandoned", "over"}

=============================================================================
