---------------------------- MODULE SessionLock ----------------------------
(***************************************************************************)
(* The distributed lock of one session: SessionLockManager's retry loop    *)
(* over RedisCache.acquire_lock (SET NX EX) and release_lock (a Lua        *)
(* compare-and-delete).  A worker is one call of with_session_lock in some *)
(* API instance; what it runs under the lock is left open here and is      *)
(* given by SessionStore.  Time is the time slept in the retry loop.       *)
(***************************************************************************)
EXTENDS Integers

CONSTANTS
    Workers,          \* the calls of with_session_lock on this session
    NoToken,          \* the lock key is absent
    InitialDelay,     \* _LOCK_INITIAL_RETRY_DELAY
    MaxDelay,         \* _LOCK_MAX_RETRY_DELAY
    AcquireTimeout    \* acquire_timeout

ASSUME LockAssumption ==
    /\ NoToken \notin Workers \X Nat
    /\ InitialDelay \in Nat \ {0}
    /\ MaxDelay \in Nat
    /\ InitialDelay <= MaxDelay
    /\ AcquireTimeout \in Nat

VARIABLES
    key,        \* the value of lock:session_lock:<id> in Redis
    keyTtl,     \* whether that key carries an expiry
    phase,      \* where each worker is in with_session_lock
    attempt,    \* calls of acquire_lock the worker has made
    waited,     \* time the worker has slept between attempts
    delay,      \* its next retry_delay
    expired     \* history: the workers whose lock lapsed while they held it

lockVars == <<key, keyTtl, phase, attempt, waited, delay, expired>>

Running  == {"trying", "sleeping", "critical", "releasing"}
Finished == {"done", "timeout", "failed", "crashed"}
Phases   == {"idle"} \cup Running \cup Finished

\* uuid4() is drawn anew by every acquire_lock call: a caller and the number
\* of its attempt identify the draw.
Token(w, n) == <<w, n>>
MyToken(w)  == Token(w, attempt[w])

Holds(w) == phase[w] \in {"critical", "releasing"}

LockInit ==
    /\ key = NoToken
    /\ keyTtl = FALSE
    /\ phase = [w \in Workers |-> "idle"]
    /\ attempt = [w \in Workers |-> 0]
    /\ waited = [w \in Workers |-> 0]
    /\ delay = [w \in Workers |-> InitialDelay]
    /\ expired = {}

----------------------------------------------------------------------------
(* The retry loop *)

Start(w) ==
    /\ phase[w] = "idle"
    /\ phase' = [phase EXCEPT ![w] = "trying"]
    /\ UNCHANGED <<key, keyTtl, attempt, waited, delay, expired>>

\* Mutants of SetNxEx: no EX, no NX.
SetWithoutTtl(w) == key = NoToken /\ key' = Token(w, attempt[w] + 1) /\ keyTtl' = FALSE
SetWithoutNx(w) == key' = Token(w, attempt[w] + 1) /\ keyTtl' = TRUE

\* SET key token NX EX ttl, as Redis executes it for w's next attempt.
SetNxEx(w) ==
    /\ key = NoToken
    /\ key' = Token(w, attempt[w] + 1)
    /\ keyTtl' = TRUE

Acquire(w) ==
    /\ phase[w] = "trying"
    /\ SetNxEx(w)
    /\ attempt' = [attempt EXCEPT ![w] = @ + 1]
    /\ phase' = [phase EXCEPT ![w] = "critical"]
    /\ UNCHANGED <<waited, delay, expired>>

\* The attempt returned None: give up after acquire_timeout, else back off.
GiveUpOrBackOff(w) ==
    /\ attempt' = [attempt EXCEPT ![w] = @ + 1]
    /\ phase' = [phase EXCEPT ![w] =
                    IF waited[w] >= AcquireTimeout THEN "timeout" ELSE "sleeping"]
    /\ UNCHANGED <<waited, delay, expired>>

AcquireBusy(w) ==
    /\ phase[w] = "trying"
    /\ key # NoToken
    /\ GiveUpOrBackOff(w)
    /\ UNCHANGED <<key, keyTtl>>

\* Redis set the key but the reply was lost: the client's retry policy sends
\* the SET again, NX now fails against the worker's own token, and the caller
\* is told the lock is taken.
AcquireReplyLost(w) ==
    /\ phase[w] = "trying"
    /\ SetNxEx(w)
    /\ GiveUpOrBackOff(w)

\* The retries are used up and the error leaves with_session_lock, whether or
\* not Redis executed the SET.
AcquireFails(w) ==
    /\ phase[w] = "trying"
    /\ SetNxEx(w) \/ UNCHANGED <<key, keyTtl>>
    /\ attempt' = [attempt EXCEPT ![w] = @ + 1]
    /\ phase' = [phase EXCEPT ![w] = "failed"]
    /\ UNCHANGED <<waited, delay, expired>>

NextDelay(d) == IF 2 * d <= MaxDelay THEN 2 * d ELSE MaxDelay

\* Mutant of Sleep: the loop waits for a wake-up that nobody sends.
SleepWithoutWaking(w) == phase[w] = "sleeping" /\ UNCHANGED lockVars

Sleep(w) ==
    /\ phase[w] = "sleeping"
    /\ waited' = [waited EXCEPT ![w] = @ + delay[w]]
    /\ delay' = [delay EXCEPT ![w] = NextDelay(@)]
    /\ phase' = [phase EXCEPT ![w] = "trying"]
    /\ UNCHANGED <<key, keyTtl, attempt, expired>>

----------------------------------------------------------------------------
(* The critical section and the finally block *)

\* The function returned, raised or was cancelled: the finally block follows.
Leave(w) ==
    /\ phase[w] = "critical"
    /\ phase' = [phase EXCEPT ![w] = "releasing"]
    /\ UNCHANGED <<key, keyTtl, attempt, waited, delay, expired>>

\* Mutant of CompareAndDelete: a plain DEL.
DeleteAnyway(w) == key' = NoToken /\ keyTtl' = FALSE

\* The Lua script deletes the key only if it still holds the caller's value.
CompareAndDelete(w) ==
    IF key = MyToken(w)
    THEN key' = NoToken /\ keyTtl' = FALSE
    ELSE UNCHANGED <<key, keyTtl>>

Release(w) ==
    /\ phase[w] = "releasing"
    /\ CompareAndDelete(w)
    /\ phase' = [phase EXCEPT ![w] = "done"]
    /\ UNCHANGED <<attempt, waited, delay, expired>>

\* An error of the release is logged and swallowed.
ReleaseFails(w) ==
    /\ phase[w] = "releasing"
    /\ phase' = [phase EXCEPT ![w] = "done"]
    /\ UNCHANGED <<key, keyTtl, attempt, waited, delay, expired>>

----------------------------------------------------------------------------
(* The environment *)

\* The API instance running w dies; what it left in Redis stays.
Crash(w) ==
    /\ phase[w] \in Running
    /\ phase' = [phase EXCEPT ![w] = "crashed"]
    /\ UNCHANGED <<key, keyTtl, attempt, waited, delay, expired>>

\* The TTL of the key runs out; its holder, if still there, is not told.
Expire ==
    /\ key # NoToken
    /\ keyTtl
    /\ key' = NoToken
    /\ keyTtl' = FALSE
    /\ expired' = expired \cup {w \in Workers : Holds(w) /\ key = MyToken(w)}
    /\ UNCHANGED <<phase, attempt, waited, delay>>

Attempt(w) ==
    Acquire(w) \/ AcquireBusy(w) \/ AcquireReplyLost(w) \/ AcquireFails(w)

Next ==
    \/ \E w \in Workers :
          \/ Start(w) \/ Attempt(w) \/ Sleep(w)
          \/ Leave(w) \/ Release(w) \/ ReleaseFails(w)
          \/ Crash(w)
    \/ Expire

SafeSpec == LockInit /\ [][Next]_lockVars

\* The event loop runs every ready coroutine, the function under the lock
\* ends, and Redis drops a key whose TTL has run out.
Fairness ==
    /\ \A w \in Workers :
          /\ WF_lockVars(Attempt(w))
          /\ WF_lockVars(Sleep(w))
          /\ WF_lockVars(Leave(w))
          /\ WF_lockVars(Release(w) \/ ReleaseFails(w))
    /\ WF_lockVars(Expire)

Spec == SafeSpec /\ Fairness

----------------------------------------------------------------------------
(* Properties *)

\* Type correctness.
TypeOK ==
    /\ key \in (Workers \X Nat) \cup {NoToken}
    /\ keyTtl \in BOOLEAN
    /\ phase \in [Workers -> Phases]
    /\ attempt \in [Workers -> Nat]
    /\ waited \in [Workers -> Nat]
    /\ delay \in [Workers -> Nat]
    /\ expired \in SUBSET Workers

\* session_lock_manager.py runs func under the lock: two callers are inside
\* only if the lock of one of them ran out under it.  A stale release, a lost
\* reply or a failed release never lets a second caller in.
MutexUnlessExpired ==
    \A v, w \in Workers :
        phase[v] = "critical" /\ phase[w] = "critical" /\ v # w
            => v \in expired \/ w \in expired

\* The wait of with_session_lock is bounded by acquire_timeout and one more
\* delay, whatever the holder does.
WaitBounded ==
    \A w \in Workers : waited[w] < AcquireTimeout + MaxDelay

\* release_lock never deletes a lock that another caller holds: a live lock
\* goes away only by its holder's own release or by its TTL.
OnlyHolderOrTtlFrees ==
    [][\A w \in Workers :
          Holds(w) /\ key = MyToken(w) /\ key' # key
              => phase'[w] = "done" \/ w \in expired']_lockVars

\* A call of with_session_lock never waits for ever, even when the lock is
\* never freed in time for it.
AttemptsEnd ==
    \A w \in Workers :
        phase[w] = "trying" ~> phase[w] \in Finished \cup {"critical"}

\* A lock orphaned by a crash, a lost reply or a failed release does not stay:
\* every value of the key is gone in the end.
OrphansGo ==
    \A w \in Workers, n \in 1..(AcquireTimeout + 2) :
        key = Token(w, n) ~> key # Token(w, n)

\* The abstract lease this lock implements.
Lease == INSTANCE LeasedSection WITH
            inside <- {w \in Workers : phase[w] = "critical"},
            lapsed <- {w \in expired : phase[w] = "critical"}
ImplementsLease == Lease!Spec
=============================================================================
