------------------------- MODULE AgentSessionProofs -------------------------
(* Proofs about AgentSession and WebSocketQuery, for any streams, requests and faults. *)
EXTENDS WebSocketQuery, TLAPS

LEMMA FinishTyped ==
    ASSUME TypeOK, NEW s \in Streams, Finish(s)
    PROVE  /\ phase' \in [Streams -> Phases] /\ reason' \in [Streams -> Reasons]
           /\ late' \in [Streams -> 0..2] /\ asked' \in SUBSET Streams
  BY DEF TypeOK, Finish, Goto, Because, Phases, Reasons

LEMMA TypeStep ==
    ASSUME TypeOK, [Next]_vars
    PROVE  TypeOK'
<1> USE DEF TypeOK, Goto, Because, Phases, Reasons
<1>1. ASSUME NEW s \in Streams, Open(s) PROVE TypeOK'
  BY <1>1 DEF Open
<1>2. ASSUME NEW s \in Streams, Register(s) PROVE TypeOK'
  BY <1>2 DEF Register
<1>3. ASSUME NEW s \in Streams, Event(s) PROVE TypeOK'
  BY <1>3 DEF Event
<1>4. ASSUME NEW s \in Streams, Resume(s) PROVE TypeOK'
  BY <1>4 DEF Resume
<1>5. ASSUME NEW s \in Streams, CheckMarker(s) PROVE TypeOK'
  BY <1>5 DEF CheckMarker
<1>6. ASSUME NEW s \in Streams, AgentEnds(s) PROVE TypeOK'
  BY <1>6 DEF AgentEnds
<1>7. ASSUME NEW s \in Streams, CacheFails(s) PROVE TypeOK'
  BY <1>7 DEF CacheFails
<1>8. ASSUME NEW s \in Streams, Report(s) PROVE TypeOK'
  BY <1>8 DEF Report
<1>9. ASSUME NEW s \in Streams, Unregister(s) \/ UnregisterFails(s) PROVE TypeOK'
  <2>1. active' \in BOOLEAN /\ marker' \in BOOLEAN /\ calm' \in BOOLEAN /\ ask' = ask
    BY <1>9, Zenon DEF Unregister, UnregisterFails
  <2> QED
    BY <1>9, <2>1, FinishTyped DEF Unregister, UnregisterFails
<1>10. ASSUME NEW s \in Streams, Close(s) PROVE TypeOK'
  <2>1. calm' \in BOOLEAN
    BY <1>10, Zenon DEF Close, Cancel
  <2>2. active' \in BOOLEAN
    BY <1>10, Zenon DEF Close, Cancel
  <2> QED
    BY <1>10, <2>1, <2>2 DEF Close, Cancel
<1>11. ASSUME NEW s \in Streams, Crash(s) PROVE TypeOK'
  <2>1. active' \in BOOLEAN /\ marker' \in BOOLEAN /\ calm' \in BOOLEAN /\ ask' = ask
    BY <1>11, Zenon DEF Crash
  <2> QED
    BY <1>11, <2>1, FinishTyped DEF Crash
<1>12. ASSUME NEW r \in Requests, Control(r) PROVE TypeOK'
  BY <1>12 DEF Control, RequireActive, MarkInterrupted, ControlFails
<1>13. CASE Expiry \/ UNCHANGED vars
  <2>1. active' \in BOOLEAN /\ marker' \in BOOLEAN /\ calm' \in BOOLEAN
    BY <1>13, Zenon DEF Expiry, ActiveExpires, MarkerExpires, vars
  <2> QED
    BY <1>13, <2>1 DEF Expiry, ActiveExpires, MarkerExpires, vars
<1> QED
  BY <1>1, <1>2, <1>3, <1>4, <1>5, <1>6, <1>7, <1>8, <1>9, <1>10, <1>11, <1>12, <1>13 DEF Next, StreamStep, Disturb

\* What a stream has before it when it has pulled an event with the marker set.
AfterEvent == {"yielded", "checking", "report", "abandoned", "unregister"}

\* A stream has at most one late event, and has not got past it.
LateInv ==
    \A s \in Streams :
        late[s] # 0 => late[s] = 1 /\ marker = TRUE /\ phase[s] \in AfterEvent

LEMMA LateStep ==
    ASSUME TypeOK, LateInv, [Next]_vars
    PROVE  LateInv'
<1> USE DEF TypeOK, LateInv, AfterEvent, Goto, Because
<1>1. ASSUME NEW s \in Streams, Open(s) PROVE LateInv'
  BY <1>1 DEF Open
<1>2. ASSUME NEW s \in Streams, Register(s) PROVE LateInv'
  BY <1>2 DEF Register
<1>3. ASSUME NEW s \in Streams, Event(s) PROVE LateInv'
  BY <1>3 DEF Event
<1>4. ASSUME NEW s \in Streams, Resume(s) PROVE LateInv'
  BY <1>4 DEF Resume
<1>5. ASSUME NEW s \in Streams, CheckMarker(s) PROVE LateInv'
  BY <1>5 DEF CheckMarker
<1>6. ASSUME NEW s \in Streams, AgentEnds(s) PROVE LateInv'
  BY <1>6 DEF AgentEnds
<1>7. ASSUME NEW s \in Streams, CacheFails(s) PROVE LateInv'
  BY <1>7 DEF CacheFails
<1>8. ASSUME NEW s \in Streams, Report(s) PROVE LateInv'
  BY <1>8 DEF Report
<1>9. ASSUME NEW s \in Streams, Unregister(s) \/ UnregisterFails(s) PROVE LateInv'
  BY <1>9 DEF Unregister, UnregisterFails, Finish
<1>10. ASSUME NEW s \in Streams, Close(s) PROVE LateInv'
  BY <1>10 DEF Close, Cancel
<1>11. ASSUME NEW s \in Streams, Crash(s) PROVE LateInv'
  BY <1>11 DEF Crash, Finish
<1>12. ASSUME NEW r \in Requests, Control(r) PROVE LateInv'
  BY <1>12 DEF Control, RequireActive, MarkInterrupted, ControlFails
<1>13. CASE Expiry \/ UNCHANGED vars
  BY <1>13 DEF Expiry, ActiveExpires, MarkerExpires, vars
<1> QED
  BY <1>1, <1>2, <1>3, <1>4, <1>5, <1>6, <1>7, <1>8, <1>9, <1>10, <1>11, <1>12, <1>13 DEF Next, StreamStep, Disturb

\* In calm times at most one stream is live, and the key is set if it is registered.
CalmInv ==
    calm = TRUE =>
        /\ \A s, t \in Live : s = t
        /\ active = TRUE <=> \E s \in Streams : Registered(s)

LEMMA CalmStep ==
    ASSUME TypeOK, CalmInv, [Next]_vars
    PROVE  CalmInv'
<1> USE DEF TypeOK, CalmInv, Registered, Ended, Live, Goto, Because
<1>1. ASSUME NEW s \in Streams, Open(s) PROVE CalmInv'
  <2> SUFFICES ASSUME calm' = TRUE PROVE CalmInv'
    BY DEF CalmInv
  <2>1. calm = TRUE /\ Live = {}
    BY <1>1, Zenon DEF Open
  <2>2. active' = active /\ phase' = [phase EXCEPT ![s] = "register"]
    BY <1>1 DEF Open
  <2>3. active # TRUE /\ \A t \in Streams : ~Registered(t) /\ t \notin Live
    BY <2>1
  <2>4. \A t \in Streams : ~Registered(t)' /\ (t # s => t \notin Live')
    BY <2>2, <2>3
  <2> QED
    BY <2>2, <2>3, <2>4
<1>2. ASSUME NEW s \in Streams, Register(s) PROVE CalmInv'
  BY <1>2 DEF Register
<1>3. ASSUME NEW s \in Streams, Event(s) PROVE CalmInv'
  BY <1>3 DEF Event
<1>4. ASSUME NEW s \in Streams, Resume(s) PROVE CalmInv'
  BY <1>4 DEF Resume
<1>5. ASSUME NEW s \in Streams, CheckMarker(s) PROVE CalmInv'
  BY <1>5 DEF CheckMarker
<1>6. ASSUME NEW s \in Streams, AgentEnds(s) PROVE CalmInv'
  BY <1>6 DEF AgentEnds
<1>7. ASSUME NEW s \in Streams, CacheFails(s) PROVE CalmInv'
  BY <1>7 DEF CacheFails
<1>8. ASSUME NEW s \in Streams, Report(s) PROVE CalmInv'
  BY <1>8 DEF Report
<1>9. ASSUME NEW s \in Streams, Unregister(s) \/ UnregisterFails(s) PROVE CalmInv'
  <2> SUFFICES ASSUME calm' = TRUE PROVE CalmInv'
    BY DEF CalmInv
  <2>1. Unregister(s) /\ calm = TRUE /\ active' = FALSE
    BY <1>9 DEF Unregister, UnregisterFails
  <2>2. \A t \in Streams : t # s => ~Registered(t) /\ t \notin Live
    BY <2>1 DEF Unregister
  <2>3. phase' = [phase EXCEPT ![s] = "over"]
    BY <2>1 DEF Unregister, Finish
  <2>4. \A t \in Streams : ~Registered(t)' /\ t \notin Live'
    BY <2>2, <2>3
  <2> QED
    BY <2>1, <2>4
<1>10. ASSUME NEW s \in Streams, Close(s) PROVE CalmInv'
  <2> SUFFICES ASSUME calm' = TRUE PROVE CalmInv'
    BY DEF CalmInv
  <2>1. calm = TRUE /\ phase[s] # "register"
    BY <1>10, Zenon DEF Close, Cancel
  <2>2. active' = active
    BY <1>10, <2>1 DEF Close, Cancel
  <2>3. \A t \in Streams : (Registered(t)' <=> Registered(t)) /\ (t \in Live' <=> t \in Live)
    BY <1>10, <2>1 DEF Close, Cancel, Cancellable
  <2> QED
    BY <2>1, <2>2, <2>3
<1>11. ASSUME NEW s \in Streams, Crash(s) PROVE CalmInv'
  BY <1>11 DEF Crash, Finish
<1>12. ASSUME NEW r \in Requests, Control(r) PROVE CalmInv'
  BY <1>12 DEF Control, RequireActive, MarkInterrupted, ControlFails
<1>13. CASE Expiry \/ UNCHANGED vars
  BY <1>13 DEF Expiry, ActiveExpires, MarkerExpires, vars
<1> QED
  BY <1>1, <1>2, <1>3, <1>4, <1>5, <1>6, <1>7, <1>8, <1>9, <1>10, <1>11, <1>12, <1>13 DEF Next, StreamStep, Disturb

\* The type invariant holds.
THEOREM TypeCorrect == SafeSpec => []TypeOK
<1>1. Init => TypeOK
  <2> SUFFICES ASSUME Init PROVE TypeOK
    OBVIOUS
  <2>1. active \in BOOLEAN /\ marker \in BOOLEAN /\ calm \in BOOLEAN
    BY Zenon DEF Init
  <2> QED
    BY <2>1 DEF Init, TypeOK, Phases, Reasons
<1> QED
  BY <1>1, TypeStep, PTL DEF SafeSpec

\* For any number of streams and interrupts, whatever fails: once the marker
\* is set a stream takes at most one more event from the agent.
THEOREM StopsSoon == SafeSpec => []StopsAfterMark
<1>1. Init => LateInv
  BY DEF Init, LateInv
<1>2. LateInv => StopsAfterMark
  <2> SUFFICES ASSUME LateInv, NEW s \in Streams PROVE late[s] <= 1
    BY DEF StopsAfterMark
  <2>1. late[s] = 0 \/ late[s] = 1
    BY DEF LateInv
  <2> QED
    BY <2>1
<1> QED
  BY <1>1, <1>2, LateStep, TypeCorrect, PTL DEF SafeSpec

\* For any number of streams that follow one another: the session counts as
\* active exactly while one of them is registered.
THEOREM ActiveIsExact == SafeSpec => []ActiveIffRegistered
<1>1. Init => CalmInv
  BY DEF Init, CalmInv, Live, Ended, Registered
<1>2. TypeOK /\ CalmInv => ActiveIffRegistered
  <2> SUFFICES ASSUME TypeOK, CalmInv, calm
               PROVE  active <=> \E s \in Streams : Registered(s)
    BY Zenon DEF ActiveIffRegistered
  <2> DEFINE Some == \E s \in Streams : Registered(s)
  <2>0. calm = TRUE
    BY Zenon DEF TypeOK
  <2>1. active = TRUE <=> Some
    BY <2>0 DEF CalmInv
  <2>2. active \in BOOLEAN
    BY DEF TypeOK
  <2> HIDE DEF Some
  <2>3. active <=> Some
    BY <2>1, <2>2, Zenon
  <2> QED
    BY <2>3 DEF Some
<1> QED
  BY <1>1, <1>2, CalmStep, TypeCorrect, PTL DEF SafeSpec

----------------------------------------------------------------------------
(* One connection beside the other streams *)

Runs(s) == phase[s] \notin {"idle", "abandoned", "over"}

\* Only the task's stream runs; the prompt to come is fresh, and its turn comes,
\* as the end does, when the task does not run.
SocketInv ==
    /\ phase \in [Streams -> Phases]
    /\ task \in Prompts \cup {Nobody}
    /\ \A s \in Prompts : Runs(s) => s = task
    /\ conn \in {"await", "start"} => next \in Prompts /\ phase[next] = "idle"
    /\ conn \in {"start", "closed"} => ~TaskRuns

\* A step after which no prompt's stream runs that did not, and a fresh one is fresh.
Quiet(old, new) ==
    /\ new \in [Streams -> Phases]
    /\ \A s \in Prompts :
          /\ new[s] \notin {"idle", "abandoned", "over"} => old[s] \notin {"idle", "abandoned", "over"}
          /\ old[s] = "idle" => new[s] = "idle"

LEMMA OthersAreQuiet ==
    ASSUME phase \in [Streams -> Phases], Others
    PROVE  Quiet(phase, phase')
<1> USE ConnectionAssumption DEF Quiet, Phases, Goto
<1>1. ASSUME NEW s \in Streams, StreamStep(s) PROVE Quiet(phase, phase')
  BY <1>1 DEF StreamStep, Register, Event, Resume, CheckMarker, AgentEnds, Report, Unregister, Finish
<1>2. ASSUME NEW s \in Streams, CacheFails(s) \/ UnregisterFails(s) PROVE Quiet(phase, phase')
  BY <1>2 DEF CacheFails, UnregisterFails, Finish
<1>3. ASSUME NEW s \in Streams \ Prompts, Open(s) \/ Close(s) \/ Crash(s) PROVE Quiet(phase, phase')
  BY <1>3 DEF Open, Close, Cancel, Crash, Finish
<1>4. ASSUME phase' = phase PROVE Quiet(phase, phase')
  BY <1>4
<1>5. ASSUME NEW r \in Requests, Control(r) PROVE phase' = phase
  BY <1>5 DEF Control, RequireActive, MarkInterrupted, ControlFails
<1>6. ASSUME Expiry PROVE phase' = phase
  BY <1>6 DEF Expiry, ActiveExpires, MarkerExpires
<1> QED
  BY <1>1, <1>2, <1>3, <1>4, <1>5, <1>6 DEF Others

LEMMA CancelIsQuiet ==
    ASSUME phase \in [Streams -> Phases], task \in Prompts, CancelTask
    PROVE  Quiet(phase, phase')
  BY ConnectionAssumption DEF CancelTask, Cancel, Cancellable, Finish, Quiet, Phases, Goto

\* What a quiet step keeps.
LEMMA QuietKeeps ==
    ASSUME SocketInv, Quiet(phase, phase'), task' = task,
           conn' \in {"await", "start"} => next' \in Prompts /\ phase[next'] = "idle",
           conn' \in {"start", "closed"} => ~TaskRuns
    PROVE  SocketInv'
  BY DEF SocketInv, Quiet, Runs, TaskRuns

LEMMA SocketStep ==
    ASSUME SocketInv, [SocketNext]_allVars
    PROVE  SocketInv'
<1> USE DEF SocketInv
<1>0. ASSUME UNCHANGED vars PROVE Quiet(phase, phase')
  BY <1>0 DEF Quiet, vars
<1>1. ASSUME NEW s \in Prompts, Prompt(s) PROVE SocketInv'
  <2>1. CASE TaskRuns
    <3>1. task \in Prompts /\ CancelTask /\ conn' = "await" /\ next' = s /\ task' = task
      BY <1>1, <2>1 DEF Prompt, TaskRuns
    <3> QED
      BY <1>1, <3>1, CancelIsQuiet, QuietKeeps DEF Prompt
  <2>2. CASE ~TaskRuns
    BY <1>1, <2>2, <1>0, QuietKeeps DEF Prompt
  <2> QED
    BY <2>1, <2>2
<1>2. CASE TaskDone
  BY <1>2, <1>0, QuietKeeps DEF TaskDone
<1>3. CASE StartTask
  <2>1. next \in Prompts /\ task' = next /\ conn' = "receive" /\ phase' = [phase EXCEPT ![next] = "register"]
    BY <1>3 DEF StartTask, Open, Goto
  <2>2. \A s \in Prompts : ~Runs(s)
    BY <1>3, ConnectionAssumption DEF StartTask, TaskRuns, Runs
  <2> QED
    BY <2>1, <2>2, ConnectionAssumption DEF Runs, Phases
<1>4. ASSUME NEW r \in Signals, Signal(r) \/ SignalSent(r) \/ SignalFails(r) PROVE SocketInv'
  <2>1. phase' = phase /\ task' = task /\ conn' \in {"signal", "receive", "failed"}
    BY <1>4 DEF Signal, SignalSent, SignalFails, RequireActive, MarkInterrupted, ControlFails
  <2> QED
    BY <2>1 DEF Runs, TaskRuns
<1>5. CASE SignalRefused
  BY <1>5, <1>0, QuietKeeps DEF SignalRefused
<1>6. CASE Disconnect
  <2>1. CASE TaskRuns
    <3>1. task \in Prompts /\ CancelTask /\ conn' = "closing" /\ task' = task
      BY <1>6, <2>1 DEF Disconnect, TaskRuns
    <3> QED
      BY <3>1, CancelIsQuiet, QuietKeeps
  <2>2. CASE ~TaskRuns
    BY <1>6, <2>2, <1>0, QuietKeeps DEF Disconnect
  <2> QED
    BY <2>1, <2>2
<1>7. CASE Others
  BY <1>7, OthersAreQuiet, QuietKeeps DEF Others, socketVars
<1>8. CASE UNCHANGED allVars
  BY <1>8, <1>0, QuietKeeps DEF allVars, socketVars
<1> QED
  BY <1>1, <1>2, <1>3, <1>4, <1>5, <1>6, <1>7, <1>8 DEF SocketNext, Connection

LEMMA SocketInvariant == SocketSafe => []SocketInv
<1>1. SocketInit => SocketInv
  BY ConnectionAssumption DEF SocketInit, Init, SocketInv, Runs, TaskRuns, Phases
<1> QED
  BY <1>1, SocketStep, PTL DEF SocketSafe

\* However prompts, interrupts, failures and the other streams of the session
\* interleave, a connection runs one query at a time (websocket.py 103-111).
THEOREM OneQueryAtATime == SocketSafe => []OneQueryPerConnection
<1>1. SocketInv => OneQueryPerConnection
  BY DEF SocketInv, OneQueryPerConnection, Runs
<1> QED
  BY <1>1, SocketInvariant, PTL

\* A connection that is gone leaves no query running (websocket.py 329-333).
THEOREM NothingRunsOn == SocketSafe => []NoQueryAfterDisconnect
<1>1. SocketInv => NoQueryAfterDisconnect
  BY ConnectionAssumption DEF SocketInv, NoQueryAfterDisconnect, Runs, TaskRuns
<1> QED
  BY <1>1, SocketInvariant, PTL
=============================================================================
