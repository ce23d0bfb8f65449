------------------------------ MODULE Lifetime ------------------------------
(***************************************************************************)
(* One life of the process: lifespan makes the clients, asks Redis, lets   *)
(* requests in, and at the end waits for the sessions registered with      *)
(* ShutdownManager before it closes the clients.  Who registers sessions   *)
(* is outside: at this commit only the tests do.                           *)
(***************************************************************************)
EXTENDS Integers

CONSTANTS
    Handlers,     \* whoever registers a session and later unregisters it
    Served        \* session ids

VARIABLES
    phase,        \* "off", "pinging", "serving", "waiting", "closing", "closed" or "aborted"
    clients,      \* of app_state: those of "db" and "cache" that are open
    stopping,     \* _shutting_down
    active,       \* _active_sessions
    event,        \* _shutdown_event
    waited,       \* what wait_for_sessions answered, "nothing" before
    serves,       \* the session of each handler
    working,      \* handlers between register_session, answered True, and unregister_session
    left          \* handlers that unregistered, or were refused

lifeVars == <<phase, clients, stopping, active, event, waited, serves, working, left>>

LifeInit ==
    /\ phase = "off" /\ clients = {}
    /\ stopping = FALSE /\ active = {} /\ event = FALSE /\ waited = "nothing"
    /\ serves \in [Handlers -> Served] /\ working = {} /\ left = {}

\* A fresh manager; neither client connects when it is made.
StartUp ==
    /\ phase = "off"
    /\ stopping' = FALSE /\ active' = {} /\ event' = FALSE
    /\ clients' = {"db", "cache"}
    /\ phase' = "pinging"
    /\ UNCHANGED <<waited, serves, working, left>>

\* RedisCache.ping answers False when Redis is not there and never raises, so the
\* first attempt always ends the loop of init_cache and the service starts.
PingAnswers ==
    /\ phase = "pinging"
    /\ phase' = "serving"
    /\ UNCHANGED <<clients, stopping, active, event, waited, serves, working, left>>

\* Mutant of Refuses: a session registers also during shutdown.
RefusesNobody == FALSE

\* register_session and check_shutdown_state
Refuses == stopping

Register(h) ==
    /\ phase \in {"serving", "waiting", "closing"} /\ h \notin working \cup left
    /\ IF Refuses
       THEN left' = left \cup {h} /\ UNCHANGED <<active, working>>
       ELSE /\ active' = active \cup {serves[h]}
            /\ working' = working \cup {h}
            /\ UNCHANGED left
    /\ UNCHANGED <<phase, clients, stopping, event, waited, serves>>

Unregister(h) ==
    /\ h \in working
    /\ active' = active \ {serves[h]}
    /\ event' = (event \/ (stopping /\ active' = {}))
    /\ working' = working \ {h} /\ left' = left \cup {h}
    /\ UNCHANGED <<phase, clients, stopping, waited, serves>>

\* initiate_shutdown, and wait_for_sessions when there is nothing to wait for.
ShutDown ==
    /\ phase = "serving"
    /\ stopping' = TRUE
    /\ event' = (event \/ active = {})
    /\ IF active = {}
       THEN phase' = "closing" /\ waited' = "all ended"
       ELSE phase' = "waiting" /\ UNCHANGED waited
    /\ UNCHANGED <<clients, active, serves, working, left>>

\* The waiter runs some time after the event was set; the timeout may come first.
EndWait ==
    /\ phase = "waiting"
    /\ \/ event /\ waited' = "all ended"
       \/ waited' = "timeout"
    /\ phase' = "closing"
    /\ UNCHANGED <<clients, stopping, active, event, serves, working, left>>

\* close_cache, then close_db; a client that raises ends the shutdown there.
CloseClient ==
    /\ phase = "closing"
    /\ \/ /\ clients' = IF "cache" \in clients THEN clients \ {"cache"} ELSE clients \ {"db"}
          /\ phase' = IF "cache" \in clients THEN "closing" ELSE "closed"
       \/ phase' = "aborted" /\ UNCHANGED clients
    /\ UNCHANGED <<stopping, active, event, waited, serves, working, left>>

LifeNext ==
    \/ StartUp \/ PingAnswers \/ ShutDown \/ EndWait \/ CloseClient
    \/ \E h \in Handlers : Register(h) \/ Unregister(h)

LifeSpec == LifeInit /\ [][LifeNext]_lifeVars

----------------------------------------------------------------------------

\* A handler whose session no other handler serves: _active_sessions is a set,
\* and the first of two handlers to leave takes the session of both with it.
OwnSession(h) == \A g \in Handlers \ {h} : serves[g] # serves[h]

\* When the wait answers that all sessions ended they have, and none begins
\* afterwards; no client is closed under one unless the wait timed out
\* (shutdown.py 41-138, main.py 167-178).
WaitTellsTruth ==
    \A h \in working : OwnSession(h) =>
        /\ waited # "all ended"
        /\ phase \in {"closing", "closed", "aborted"} => waited = "timeout"
        /\ clients # {"db", "cache"} => waited = "timeout"
=============================================================================
