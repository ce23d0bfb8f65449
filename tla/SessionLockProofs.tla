------------------------- MODULE SessionLockProofs -------------------------
(***************************************************************************)
(* Proofs about SessionLock for every set of workers and every choice of   *)
(* the delays.  The argument rests on one fact, HoldersOwnKey: a worker    *)
(* that holds the lock and has not outlived it finds its own token in the  *)
(* key.  SET NX needs an absent key and the release compares before it     *)
(* deletes, so no other worker's step can break it.                        *)
(***************************************************************************)
EXTENDS SessionLock, TLAPS

\* A holder whose lock has not lapsed owns the key.
HoldersOwnKey == \A w \in Workers : Holds(w) /\ w \notin expired => key = MyToken(w)

\* Only a worker that once held the lock can have outlived it.
ExpiredOnlyHolders ==
    \A w \in expired : phase[w] \in {"critical", "releasing", "done", "crashed"}

\* What the retry loop keeps: the delay stays capped, and a worker backs off
\* only while its wait is below acquire_timeout.
BackoffBounded ==
    \A w \in Workers :
        /\ delay[w] <= MaxDelay
        /\ phase[w] = "sleeping" => waited[w] < AcquireTimeout
        /\ waited[w] < AcquireTimeout + MaxDelay

LockInv == TypeOK /\ HoldersOwnKey /\ ExpiredOnlyHolders

----------------------------------------------------------------------------

\* Tokens are pairs, so no token is the absent key and two workers never
\* share one.
LEMMA TokensDiffer ==
    ASSUME TypeOK
    PROVE  /\ \A w \in Workers : MyToken(w) # NoToken
           /\ \A v, w \in Workers : MyToken(v) = MyToken(w) => v = w
  BY LockAssumption DEF TypeOK, MyToken, Token

\* The type invariant of the retry loop, the lock key and the history.
THEOREM TypeCorrect == SafeSpec => []TypeOK
<1>1. LockInit => TypeOK
  <2> SUFFICES ASSUME LockInit PROVE TypeOK
    OBVIOUS
  <2>1. keyTtl \in BOOLEAN
    BY Zenon DEF LockInit
  <2>2. phase \in [Workers -> Phases]
    BY DEF LockInit, Phases
  <2>3. delay \in [Workers -> Nat]
    BY LockAssumption DEF LockInit
  <2> QED
    BY <2>1, <2>2, <2>3 DEF LockInit, TypeOK
<1>2. TypeOK /\ [Next]_lockVars => TypeOK'
  <2> SUFFICES ASSUME TypeOK, [Next]_lockVars PROVE TypeOK'
    OBVIOUS
  <2> USE DEF TypeOK, Phases, Running, Finished
  <2>1. ASSUME NEW w \in Workers, Start(w) PROVE TypeOK'
    BY <2>1 DEF Start
  <2>2. ASSUME NEW w \in Workers, Acquire(w) PROVE TypeOK'
    BY <2>2 DEF Acquire, SetNxEx, Token
  <2>3. ASSUME NEW w \in Workers, AcquireBusy(w) PROVE TypeOK'
    BY <2>3 DEF AcquireBusy, GiveUpOrBackOff
  <2>4. ASSUME NEW w \in Workers, AcquireReplyLost(w) PROVE TypeOK'
    BY <2>4 DEF AcquireReplyLost, SetNxEx, GiveUpOrBackOff, Token
  <2>5. ASSUME NEW w \in Workers, AcquireFails(w) PROVE TypeOK'
    <3>1. CASE SetNxEx(w)
      BY <2>5, <3>1 DEF AcquireFails, SetNxEx, Token
    <3>2. CASE UNCHANGED <<key, keyTtl>>
      BY <2>5, <3>2 DEF AcquireFails
    <3> QED
      BY <2>5, <3>1, <3>2 DEF AcquireFails
  <2>6. ASSUME NEW w \in Workers, Sleep(w) PROVE TypeOK'
    BY <2>6, LockAssumption DEF Sleep, NextDelay
  <2>7. ASSUME NEW w \in Workers, Leave(w) PROVE TypeOK'
    BY <2>7 DEF Leave
  <2>8. ASSUME NEW w \in Workers, Release(w) PROVE TypeOK'
    BY <2>8 DEF Release, CompareAndDelete
  <2>9. ASSUME NEW w \in Workers, ReleaseFails(w) PROVE TypeOK'
    BY <2>9 DEF ReleaseFails
  <2>10. ASSUME NEW w \in Workers, Crash(w) PROVE TypeOK'
    BY <2>10 DEF Crash
  <2>11. CASE Expire
    BY <2>11 DEF Expire
  <2>12. CASE UNCHANGED lockVars
    BY <2>12 DEF lockVars
  <2> QED
    BY <2>1, <2>2, <2>3, <2>4, <2>5, <2>6, <2>7, <2>8, <2>9, <2>10, <2>11,
       <2>12 DEF Next, Attempt
<1> QED
  BY <1>1, <1>2, PTL DEF SafeSpec

----------------------------------------------------------------------------

\* The key changes only in three ways: it is set when absent, deleted by the
\* worker whose token it holds, or dropped by its TTL.
LEMMA HoldersOwnKeyStep ==
    ASSUME TypeOK, TypeOK', HoldersOwnKey, [Next]_lockVars
    PROVE  HoldersOwnKey'
<1> USE DEF HoldersOwnKey, Holds, TypeOK
<1>0. /\ \A w \in Workers : MyToken(w) # NoToken
      /\ \A v, w \in Workers : MyToken(v) = MyToken(w) => v = w
  BY TokensDiffer
<1>1. ASSUME NEW w \in Workers, Start(w) PROVE HoldersOwnKey'
  BY <1>1 DEF Start, MyToken
<1>2. ASSUME NEW w \in Workers, Acquire(w) PROVE HoldersOwnKey'
  <2>1. \A v \in Workers : Holds(v) => v \in expired
    BY <1>2, <1>0 DEF Acquire, SetNxEx
  <2>2. key' = MyToken(w)'
    BY <1>2 DEF Acquire, SetNxEx, MyToken, Token
  <2> QED
    BY <1>2, <2>1, <2>2 DEF Acquire
<1>3. ASSUME NEW w \in Workers, AcquireBusy(w) PROVE HoldersOwnKey'
  BY <1>3 DEF AcquireBusy, GiveUpOrBackOff, MyToken, Token
<1>4. ASSUME NEW w \in Workers, AcquireReplyLost(w) PROVE HoldersOwnKey'
  BY <1>4, <1>0 DEF AcquireReplyLost, SetNxEx, GiveUpOrBackOff
<1>5. ASSUME NEW w \in Workers, AcquireFails(w) PROVE HoldersOwnKey'
  <2>1. CASE SetNxEx(w)
    BY <1>5, <1>0, <2>1 DEF AcquireFails, SetNxEx
  <2>2. CASE UNCHANGED <<key, keyTtl>>
    BY <1>5, <2>2 DEF AcquireFails, MyToken, Token
  <2> QED
    BY <1>5, <2>1, <2>2 DEF AcquireFails
<1>6. ASSUME NEW w \in Workers, Sleep(w) PROVE HoldersOwnKey'
  BY <1>6 DEF Sleep, MyToken
<1>7. ASSUME NEW w \in Workers, Leave(w) PROVE HoldersOwnKey'
  BY <1>7 DEF Leave, MyToken
<1>8. ASSUME NEW w \in Workers, Release(w) PROVE HoldersOwnKey'
  <2>1. \A v \in Workers : MyToken(v)' = MyToken(v)
    BY <1>8 DEF Release, MyToken
  <2> QED
    BY <1>8, <1>0, <2>1 DEF Release, CompareAndDelete
<1>9. ASSUME NEW w \in Workers, ReleaseFails(w) PROVE HoldersOwnKey'
  BY <1>9 DEF ReleaseFails, MyToken
<1>10. ASSUME NEW w \in Workers, Crash(w) PROVE HoldersOwnKey'
  BY <1>10 DEF Crash, MyToken
<1>11. CASE Expire
  BY <1>11 DEF Expire, MyToken
<1>12. CASE UNCHANGED lockVars
  BY <1>12 DEF lockVars, MyToken
<1> QED
  BY <1>1, <1>2, <1>3, <1>4, <1>5, <1>6, <1>7, <1>8, <1>9, <1>10, <1>11, <1>12
     DEF Next, Attempt

\* A worker enters the history only from a phase in which it holds the lock,
\* and never goes back to one in which it waits.
LEMMA ExpiredStep ==
    ASSUME TypeOK, ExpiredOnlyHolders, [Next]_lockVars
    PROVE  ExpiredOnlyHolders'
  BY DEF ExpiredOnlyHolders, TypeOK, Next, Attempt, Start, Acquire, AcquireBusy,
         AcquireReplyLost, AcquireFails, GiveUpOrBackOff, Sleep, Leave, Release,
         ReleaseFails, Crash, Expire, Holds, Running, lockVars

\* LockInv is inductive, with the type invariant proved above.
THEOREM LockInvariant == SafeSpec => []LockInv
<1>1. LockInit => HoldersOwnKey /\ ExpiredOnlyHolders
  BY DEF LockInit, HoldersOwnKey, ExpiredOnlyHolders, Holds
<1>2. TypeOK /\ TypeOK' /\ HoldersOwnKey /\ ExpiredOnlyHolders /\ [Next]_lockVars
         => HoldersOwnKey' /\ ExpiredOnlyHolders'
  BY HoldersOwnKeyStep, ExpiredStep
<1> QED
  BY <1>1, <1>2, TypeCorrect, PTL DEF SafeSpec, LockInv

\* Two callers are inside with_session_lock's function at once only if the
\* lock of one of them ran out under it.
THEOREM MutualExclusion == SafeSpec => []MutexUnlessExpired
<1>1. LockInv => MutexUnlessExpired
  BY TokensDiffer DEF LockInv, HoldersOwnKey, Holds, MutexUnlessExpired
<1> QED
  BY <1>1, LockInvariant, PTL

\* No step but its holder's release or its TTL takes a live lock away.
THEOREM NoForeignRelease == SafeSpec => OnlyHolderOrTtlFrees
<1> DEFINE Frees == \A w \in Workers :
                       Holds(w) /\ key = MyToken(w) /\ key' # key
                          => phase'[w] = "done" \/ w \in expired'
<1>1. ASSUME TypeOK, [Next]_lockVars, NEW w \in Workers,
             Holds(w), key = MyToken(w), key' # key
      PROVE  phase'[w] = "done" \/ w \in expired'
  <2>0. key # NoToken
    BY <1>1, TokensDiffer
  <2>1. ASSUME NEW v \in Workers, Release(v) PROVE phase'[w] = "done"
    <3>1. key = MyToken(v)
      BY <1>1, <2>1 DEF Release, CompareAndDelete
    <3>2. v = w
      BY <1>1, <3>1, TokensDiffer
    <3> QED
      BY <1>1, <2>1, <3>2 DEF Release, TypeOK
  <2>2. ASSUME Expire PROVE w \in expired'
    BY <1>1, <2>2 DEF Expire
  <2> QED
    BY <1>1, <2>0, <2>1, <2>2
       DEF Next, Attempt, Start, Acquire, AcquireBusy, AcquireReplyLost,
           AcquireFails, SetNxEx, Sleep, Leave, ReleaseFails, Crash, lockVars
<1>2. TypeOK /\ [Next]_lockVars => [Frees]_lockVars
  BY <1>1
<1> QED
  BY <1>2, TypeCorrect, PTL DEF SafeSpec, OnlyHolderOrTtlFrees

----------------------------------------------------------------------------

\* The backoff doubles up to its cap and is entered only below the timeout.
THEOREM WaitIsBounded == SafeSpec => []WaitBounded
<1>1. LockInit => BackoffBounded
  <2>1. LockInit => \A w \in Workers : /\ phase[w] = "idle"
                                        /\ delay[w] = InitialDelay
                                        /\ waited[w] = 0
    BY Zenon DEF LockInit
  <2>2. InitialDelay <= MaxDelay /\ 0 < AcquireTimeout + MaxDelay
    BY LockAssumption
  <2> QED
    BY <2>1, <2>2, Zenon DEF BackoffBounded
<1>2. TypeOK /\ BackoffBounded /\ [Next]_lockVars => BackoffBounded'
  <2> SUFFICES ASSUME TypeOK, BackoffBounded, [Next]_lockVars
               PROVE  BackoffBounded'
    OBVIOUS
  <2> USE DEF BackoffBounded, TypeOK
  <2>1. ASSUME NEW w \in Workers, Start(w) PROVE BackoffBounded'
    BY <2>1 DEF Start
  <2>2. ASSUME NEW w \in Workers, Acquire(w) PROVE BackoffBounded'
    BY <2>2 DEF Acquire
  <2>3. ASSUME NEW w \in Workers, GiveUpOrBackOff(w) PROVE BackoffBounded'
    BY <2>3, LockAssumption DEF GiveUpOrBackOff
  <2>4. ASSUME NEW w \in Workers, AcquireFails(w) PROVE BackoffBounded'
    BY <2>4 DEF AcquireFails
  <2>5. ASSUME NEW w \in Workers, Sleep(w) PROVE BackoffBounded'
    BY <2>5, LockAssumption DEF Sleep, NextDelay
  <2>6. ASSUME NEW w \in Workers, Leave(w) \/ Release(w) \/ ReleaseFails(w)
        PROVE BackoffBounded'
    BY <2>6 DEF Leave, Release, ReleaseFails
  <2>7. ASSUME NEW w \in Workers, Crash(w) PROVE BackoffBounded'
    BY <2>7 DEF Crash
  <2>8. CASE Expire
    BY <2>8 DEF Expire
  <2>9. CASE UNCHANGED lockVars
    BY <2>9 DEF lockVars
  <2> QED
    BY <2>1, <2>2, <2>3, <2>4, <2>5, <2>6, <2>7, <2>8, <2>9
       DEF Next, Attempt, AcquireBusy, AcquireReplyLost
<1>3. BackoffBounded => WaitBounded
  BY DEF BackoffBounded, WaitBounded
<1> QED
  BY <1>1, <1>2, <1>3, TypeCorrect, PTL DEF SafeSpec

----------------------------------------------------------------------------

\* Taking the lock is the lease's Enter: whoever is still inside has lapsed.
LEMMA AcquireEnters ==
    ASSUME LockInv, NEW w \in Workers, Acquire(w)
    PROVE  Lease!Enter(w)
<1>1. \A v \in Workers : Holds(v) => v \in expired
  BY TokensDiffer DEF LockInv, HoldersOwnKey, Acquire, SetNxEx
<1>2. w \notin expired
  BY DEF LockInv, ExpiredOnlyHolders, Acquire
<1> QED
  BY <1>1, <1>2 DEF LockInv, TypeOK, Acquire, Holds, Lease!Enter

\* The TTL takes the lock from at most one worker, which lapses if it is
\* still inside.
LEMMA ExpireLapses ==
    ASSUME LockInv, Expire
    PROVE  (\E w \in Workers : Lease!Lapse(w))
              \/ UNCHANGED <<{w \in Workers : phase[w] = "critical"},
                             {w \in expired : phase[w] = "critical"}>>
<1>1. \A v, w \in Workers : MyToken(v) = MyToken(w) => v = w
  BY TokensDiffer DEF LockInv
<1>2. CASE \E w \in Workers : phase[w] = "critical" /\ key = MyToken(w)
  <2>1. PICK w \in Workers : phase[w] = "critical" /\ key = MyToken(w)
    BY <1>2
  <2>2. expired' = expired \cup {w}
    BY <1>1, <2>1 DEF Expire, Holds
  <2>3. Lease!Lapse(w)
    BY <2>1, <2>2 DEF Expire, Lease!Lapse
  <2> QED
    BY <2>3
<1>3. CASE ~ \E w \in Workers : phase[w] = "critical" /\ key = MyToken(w)
  BY <1>3 DEF Expire, Holds, LockInv, TypeOK
<1> QED
  BY <1>2, <1>3

\* The lock over Redis implements the abstract lease.
THEOREM LockImplementsLease == SafeSpec => ImplementsLease
<1> DEFINE inside == {w \in Workers : phase[w] = "critical"}
           lapsed == {w \in expired : phase[w] = "critical"}
<1>1. LockInit => Lease!Init
  BY DEF LockInit, Lease!Init
<1>2. LockInv /\ [Next]_lockVars => [Lease!Next]_<<inside, lapsed>>
  <2> SUFFICES ASSUME LockInv, [Next]_lockVars
               PROVE  Lease!Next \/ UNCHANGED <<inside, lapsed>>
    OBVIOUS
  <2> USE DEF LockInv, TypeOK
  <2>1. ASSUME NEW w \in Workers, Start(w) PROVE UNCHANGED <<inside, lapsed>>
    BY <2>1 DEF Start
  <2>2. ASSUME NEW w \in Workers, Acquire(w) PROVE Lease!Next
    BY <2>2, AcquireEnters DEF Lease!Next
  <2>3. ASSUME NEW w \in Workers,
               AcquireBusy(w) \/ AcquireReplyLost(w) \/ AcquireFails(w)
        PROVE  UNCHANGED <<inside, lapsed>>
    BY <2>3 DEF AcquireBusy, AcquireReplyLost, AcquireFails, GiveUpOrBackOff
  <2>4. ASSUME NEW w \in Workers, Sleep(w) PROVE UNCHANGED <<inside, lapsed>>
    BY <2>4 DEF Sleep
  <2>5. ASSUME NEW w \in Workers, Leave(w) PROVE Lease!Next
    <3>1. Lease!Exit(w)
      BY <2>5 DEF Leave, Lease!Exit
    <3> QED
      BY <3>1 DEF Lease!Next
  <2>6. ASSUME NEW w \in Workers, Release(w) \/ ReleaseFails(w)
        PROVE  UNCHANGED <<inside, lapsed>>
    BY <2>6 DEF Release, ReleaseFails
  <2>7. ASSUME NEW w \in Workers, Crash(w)
        PROVE  Lease!Next \/ UNCHANGED <<inside, lapsed>>
    <3>1. CASE phase[w] = "critical"
      <4>1. Lease!Exit(w)
        BY <2>7, <3>1 DEF Crash, Lease!Exit
      <4> QED
        BY <4>1 DEF Lease!Next
    <3>2. CASE phase[w] # "critical"
      BY <2>7, <3>2 DEF Crash
    <3> QED
      BY <3>1, <3>2
  <2>8. ASSUME Expire PROVE Lease!Next \/ UNCHANGED <<inside, lapsed>>
    BY <2>8, ExpireLapses DEF Lease!Next
  <2>9. CASE UNCHANGED lockVars
    BY <2>9 DEF lockVars
  <2> QED
    BY <2>1, <2>2, <2>3, <2>4, <2>5, <2>6, <2>7, <2>8, <2>9 DEF Next, Attempt
<1> QED
  BY <1>1, <1>2, LockInvariant, PTL DEF SafeSpec, ImplementsLease, Lease!Spec
=============================================================================
