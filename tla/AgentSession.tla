--------------------------- MODULE AgentSession ----------------------------
(***************************************************************************)
(* The streams and interrupts of one agent session, in any instance.       *)
(* StreamQueryRunner.run registers the session as active in Redis, passes  *)
(* the agent's events on one by one, looks for the interrupt marker after  *)
(* each, and unregisters in its finally.  SessionControl.interrupt sets    *)
(* the marker when the session is active.  Nothing limits a session to one *)
(* stream at a time.                                                       *)
(***************************************************************************)
EXTENDS Naturals

CONSTANTS
    Streams,       \* the calls of query_stream that name this session
    Scoped,        \* those whose cancellation is repeated at every await
    Requests,      \* the calls of interrupt
    Faults         \* bound: what may go wrong, of "cache", "close", "crash", "ttl"

ASSUME ScopedAssumption == Scoped \subseteq Streams

VARIABLES
    active,        \* the key active_session:<id>
    marker,        \* the key interrupted:<id>
    phase,         \* where each stream is
    reason,        \* why it ends: the reason of its done event, or "closed"
    ask,           \* where each interrupt request is, and its answer
    late,          \* history: events the stream pulled with the marker set
    asked,         \* history: the streams that run while an interrupt is handled
    calm           \* history: streams never overlapped, no key was lost or left

vars == <<active, marker, phase, reason, ask, late, asked, calm>>

\* Between registering and unregistering.
Registered(s) == phase[s] \in {"running", "yielded", "checking", "report",
                               "abandoned", "unregister"}
Ended(s)      == phase[s] \in {"idle", "over"}
Live          == {s \in Streams : ~Ended(s)}

Init ==
    /\ active = FALSE /\ marker = FALSE
    /\ phase = [s \in Streams |-> "idle"]
    /\ reason = [s \in Streams |-> "none"]
    /\ ask = [r \in Requests |-> "idle"]
    /\ late = [s \in Streams |-> 0]
    /\ asked = {}
    /\ calm = TRUE

Goto(s, p) == phase' = [phase EXCEPT ![s] = p]
Because(s, why) == reason' = [reason EXCEPT ![s] = why]

\* Nothing of a stream that is over is kept.
Finish(s) ==
    /\ Goto(s, "over")
    /\ Because(s, "none")
    /\ late' = [late EXCEPT ![s] = 0]
    /\ asked' = asked \ {s}

----------------------------------------------------------------------------
(* StreamQueryRunner.run *)

Open(s) ==
    /\ phase[s] = "idle"
    /\ Goto(s, "register")
    /\ calm' = (calm /\ Live = {})
    /\ UNCHANGED <<active, marker, reason, ask, late, asked>>

Register(s) ==
    /\ phase[s] = "register"
    /\ active' = TRUE
    /\ Goto(s, "running")
    /\ UNCHANGED <<marker, reason, ask, late, asked, calm>>

\* The next event of the agent, handed to whoever drives the stream.
Event(s) ==
    /\ phase[s] = "running"
    /\ Goto(s, "yielded")
    /\ late' = IF marker /\ late[s] < 2 THEN [late EXCEPT ![s] = @ + 1] ELSE late
    /\ UNCHANGED <<active, marker, reason, ask, asked, calm>>

Resume(s) ==
    /\ phase[s] = "yielded"
    /\ Goto(s, "checking")
    /\ UNCHANGED <<active, marker, reason, ask, late, asked, calm>>

\* Mutant of CheckMarker: the marker is looked for only at the end.
PassOn(s) ==
    /\ phase[s] = "checking"
    /\ Goto(s, "running")
    /\ UNCHANGED <<active, marker, reason, ask, late, asked, calm>>

CheckMarker(s) ==
    /\ phase[s] = "checking"
    /\ IF marker
       THEN Goto(s, "report") /\ Because(s, "interrupted")
       ELSE Goto(s, "running") /\ UNCHANGED reason
    /\ UNCHANGED <<active, marker, ask, late, asked, calm>>

\* The agent is through, or its stream raises.
AgentEnds(s) ==
    /\ phase[s] = "running"
    /\ Goto(s, "report")
    /\ \E why \in {"completed", "error"} : Because(s, why)
    /\ UNCHANGED <<active, marker, ask, late, asked, calm>>

\* Redis fails in register or is_interrupted: an error event and done.
CacheFails(s) ==
    /\ "cache" \in Faults
    /\ phase[s] \in {"register", "checking"}
    /\ Goto(s, "report")
    /\ Because(s, "error")
    /\ calm' = FALSE
    /\ UNCHANGED <<active, marker, ask, late, asked>>

\* The result (or error) event and the done event are handed on.
Report(s) ==
    /\ phase[s] = "report"
    /\ Goto(s, "unregister")
    /\ UNCHANGED <<active, marker, reason, ask, late, asked, calm>>

\* Mutant of Unregister: the key is left to its TTL.
KeepKey(s) ==
    /\ phase[s] \in {"unregister", "abandoned"}
    /\ Finish(s)
    /\ UNCHANGED <<active, marker, ask, calm>>

\* finally, in the driver's task or in the finalizer of an abandoned stream.
Unregister(s) ==
    /\ phase[s] \in {"unregister", "abandoned"}
    /\ active' = FALSE
    /\ Finish(s)
    /\ UNCHANGED <<marker, ask, calm>>

\* The DEL fails, or is cancelled once more before it is sent.
UnregisterFails(s) ==
    /\ \/ phase[s] \in {"unregister", "abandoned"} /\ "cache" \in Faults
       \/ phase[s] = "unregister" /\ reason[s] = "closed" /\ s \in Scoped
    /\ Finish(s)
    /\ calm' = FALSE
    /\ UNCHANGED <<active, marker, ask>>

\* The driver is cancelled.  A generator that awaits runs its finally at
\* once; one suspended at a yield is left to the garbage collector.
Cancel(s) ==
    /\ Goto(s, IF phase[s] \in {"yielded", "report"} THEN "abandoned" ELSE "unregister")
    /\ Because(s, "closed")
    /\ active' \in (IF phase[s] = "register" THEN {active, TRUE} ELSE {active})
    /\ calm' = (calm /\ phase[s] # "register")

Cancellable(s) == phase[s] \in {"register", "running", "yielded", "checking", "report"}

Close(s) ==
    /\ "close" \in Faults
    /\ Cancellable(s)
    /\ Cancel(s)
    /\ UNCHANGED <<marker, ask, late, asked>>

Crash(s) ==
    /\ "crash" \in Faults
    /\ ~Ended(s)
    /\ Finish(s)
    /\ calm' = FALSE
    /\ UNCHANGED <<active, marker, ask>>

StreamStep(s) ==
    \/ Register(s) \/ Event(s) \/ Resume(s) \/ CheckMarker(s) \/ AgentEnds(s)
    \/ Report(s) \/ Unregister(s)

----------------------------------------------------------------------------
(* SessionControl.interrupt *)

\* Mutant of RequireActive: every session is taken for active.
SupposeActive(r) ==
    /\ ask[r] = "idle"
    /\ ask' = [ask EXCEPT ![r] = "mark"]
    /\ asked' = asked \cup {s \in Streams : Registered(s)}
    /\ UNCHANGED <<active, marker, phase, reason, late, calm>>

RequireActive(r) ==
    /\ ask[r] = "idle"
    /\ ask' = [ask EXCEPT ![r] = IF active THEN "mark" ELSE "no"]
    /\ asked' = IF active THEN asked \cup {s \in Streams : Registered(s)} ELSE asked
    /\ UNCHANGED <<active, marker, phase, reason, late, calm>>

MarkInterrupted(r) ==
    /\ ask[r] = "mark"
    /\ marker' = TRUE
    /\ ask' = [ask EXCEPT ![r] = "yes"]
    /\ asked' = asked \cup {s \in Streams : Registered(s)}
    /\ UNCHANGED <<active, phase, reason, late, calm>>

ControlFails(r) ==
    /\ "cache" \in Faults
    /\ ask[r] \in {"idle", "mark"}
    /\ ask' = [ask EXCEPT ![r] = "failed"]
    /\ UNCHANGED <<active, marker, phase, reason, late, asked, calm>>

----------------------------------------------------------------------------
(* redis_session_ttl and redis_interrupt_ttl *)

\* Mutant of ActiveExpires: the key is set without a TTL.
ActiveForEver == FALSE /\ UNCHANGED vars

ActiveExpires ==
    /\ "ttl" \in Faults
    /\ active
    /\ active' = FALSE
    /\ calm' = FALSE
    /\ UNCHANGED <<marker, phase, reason, ask, late, asked>>

MarkerExpires ==
    /\ "ttl" \in Faults
    /\ marker
    /\ marker' = FALSE
    /\ late' = [s \in Streams |-> 0]
    /\ UNCHANGED <<active, phase, reason, ask, asked, calm>>

Disturb(s) == CacheFails(s) \/ UnregisterFails(s) \/ Close(s) \/ Crash(s)
Control(r) == RequireActive(r) \/ MarkInterrupted(r) \/ ControlFails(r)
Expiry     == ActiveExpires \/ MarkerExpires

Next ==
    \/ \E s \in Streams : Open(s) \/ StreamStep(s) \/ Disturb(s)
    \/ \E r \in Requests : Control(r)
    \/ Expiry

SafeSpec == Init /\ [][Next]_vars

\* The event loop resumes every stream, Redis drops expired keys.  Whether
\* the agent ever ends, or anybody interrupts, is left open.
Spec == SafeSpec /\ (\A s \in Streams : WF_vars(StreamStep(s))) /\ WF_vars(ActiveExpires)

----------------------------------------------------------------------------
(* Properties *)

Phases  == {"idle", "register", "running", "yielded", "checking", "report",
            "abandoned", "unregister", "over"}
Reasons == {"none", "completed", "error", "interrupted", "closed"}

TypeOK ==
    /\ active \in BOOLEAN /\ marker \in BOOLEAN /\ calm \in BOOLEAN
    /\ phase \in [Streams -> Phases]
    /\ reason \in [Streams -> Reasons]
    /\ ask \in [Requests -> {"idle", "mark", "yes", "no", "failed"}]
    /\ late \in [Streams -> 0..2]
    /\ asked \in SUBSET Streams

\* While streams of the session follow one another and Redis serves, the
\* session counts as active exactly while a stream is registered, so that
\* interrupt, answer and control accept it then and only then
\* (stream_query_runner.py 94-132, session_control.py 19-25).
ActiveIffRegistered == calm => (active <=> \E s \in Streams : Registered(s))

\* Once the marker is set, a stream takes at most one more event from the
\* agent (stream_query_runner.py 96-109).
StopsAfterMark == \A s \in Streams : late[s] <= 1

\* A marked session's streams come to their end, however long the agent
\* would go on, unless the marker runs out first.
InterruptEndsStreams ==
    \A s \in Streams : marker /\ Registered(s) ~> ~marker \/ ~Registered(s)

\* The active key outlives no stream for ever, crashes included.
ActiveGoes == (\A s \in Streams : phase[s] = "over") ~> ~active

\* "Only active sessions are marked as interrupted to avoid stale signals":
\* a stream no interrupt was meant for is not interrupted (service.py 381).
NoStaleSignal == \A s \in Streams : reason[s] = "interrupted" => s \in asked

\* interrupt answers for "a running agent session" (service.py 367): while a
\* stream runs the session counts as active, and can be interrupted.  Streams
\* share one key, and the first to end, or one that was dropped and is finalized
\* late, deletes it under the next: it does not hold, see find_uninterruptible.
RunningIsActive ==
    (\E s \in Streams : phase[s] \in {"running", "yielded", "checking"}) => active
=============================================================================
