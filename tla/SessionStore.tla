---------------------------- MODULE SessionStore ----------------------------
(***************************************************************************)
(* One session in SessionService: its PostgreSQL row, its Redis entry and  *)
(* owner index, and the operations that read and write them, one step per  *)
(* await.  Only update_session runs under the session lock, which is used  *)
(* here through its promise, LeasedSection (SessionLock implements it).    *)
(* Of the columns that update_session writes together (status, total_turns,*)
(* total_cost_usd) the turns stand for all three; of the metadata only the *)
(* fields that promote_session and update_tags set are kept.               *)
(***************************************************************************)
EXTENDS Integers

CONSTANTS
    Workers,          \* calls of SessionService methods on this session
    Ops,              \* the methods called: a subset of AllOps
    Faults            \* what the environment may do: sets of AllFaults, one of
                      \* which a behaviour meets

AllOps    == {"create", "get", "increment", "promote", "tags", "delete"}
AllFaults == {"expire", "lapse", "abort"}

ASSUME StoreAssumption == Ops \subseteq AllOps /\ Faults \subseteq SUBSET AllFaults

VARIABLES
    row,              \* the sessions row in PostgreSQL
    cached,           \* session:<id> in Redis
    indexed,          \* whether session:owner:<hash> lists the session
    inside, lapsed,   \* the session lock
    op, pc,           \* the method each worker runs and its next step
    carried,          \* the Session object it carries between awaits
    outcome,          \* what the method answered
    faults,           \* what the environment does
    committed         \* history: the increments that reached the row

dataVars  == <<row, cached, indexed>>
lockVars  == <<inside, lapsed>>
storeVars == <<row, cached, indexed, inside, lapsed, op, pc, carried, outcome,
               faults, committed>>

Absent  == [turns |-> 0 - 1, meta |-> {}]      \* no row, no entry, no object
NewRow  == [turns |-> 0, meta |-> {}]
Fields  == {"promote", "tags"}                 \* named after their writers

Lock == INSTANCE LeasedSection

StoreInit ==
    /\ \E c \in {<<Absent, Absent>>, <<NewRow, Absent>>, <<NewRow, NewRow>>} :
          row = c[1] /\ cached = c[2] /\ indexed = (c[2] = NewRow)
    /\ Lock!Init
    /\ op \in [Workers -> Ops]
    /\ faults \in Faults
    /\ pc = [w \in Workers |-> "start"]
    /\ carried = [w \in Workers |-> Absent]
    /\ outcome = [w \in Workers |-> "pending"]
    /\ committed = 0

----------------------------------------------------------------------------
(* Moves between the steps of a method *)

At(w, step) == pc[w] = step
Goto(w, step) ==
    /\ pc' = [pc EXCEPT ![w] = step]
    /\ UNCHANGED <<op, outcome>>

\* update_session answers from inside the lock; leaving it is a later step.
Answer(w, result) ==
    /\ pc' = [pc EXCEPT ![w] = IF w \in inside THEN "unlock" ELSE "done"]
    /\ outcome' = [outcome EXCEPT ![w] = result]
    /\ UNCHANGED op

Carry(w, session) == carried' = [carried EXCEPT ![w] = session]

FirstStep == [create |-> "insert", get |-> "read", increment |-> "lock",
              promote |-> "read", tags |-> "read", delete |-> "lookup"]

Begin(w) ==
    /\ At(w, "start")
    /\ Goto(w, FirstStep[op[w]])
    /\ UNCHANGED <<dataVars, lockVars, carried, committed>>

----------------------------------------------------------------------------
(* create_session *)

InsertRow(w) ==
    /\ At(w, "insert")
    /\ \/ row = Absent /\ row' = NewRow /\ Carry(w, NewRow) /\ Goto(w, "set")
       \/ row # Absent /\ UNCHANGED <<row, carried>> /\ Answer(w, "conflict")
    /\ UNCHANGED <<cached, indexed, lockVars, committed>>

\* redis-py raises its own ConnectionError and TimeoutError, which the first
\* handler (the builtins) lets through to "except Exception": logged only.
CreateCacheFails(w) ==
    /\ "abort" \in faults
    /\ op[w] = "create"
    /\ pc[w] \in {"set", "index"}
    /\ Answer(w, "ok")
    /\ UNCHANGED <<dataVars, lockVars, carried, committed>>

----------------------------------------------------------------------------
(* get_session, alone and at the head of the other methods *)

AfterGet == [get |-> "found", increment |-> "write", promote |-> "readMeta",
             tags |-> "readMeta"]

GotSession(w) ==
    IF AfterGet[op[w]] = "found" THEN Answer(w, "ok") ELSE Goto(w, AfterGet[op[w]])

ReadCache(w) ==
    /\ At(w, "read")
    /\ Carry(w, cached)
    /\ IF cached # Absent THEN GotSession(w) ELSE Goto(w, "fetch")
    /\ UNCHANGED <<dataVars, lockVars, committed>>

FetchRow(w) ==
    /\ At(w, "fetch")
    /\ Carry(w, row)
    /\ IF row # Absent THEN Goto(w, "fill") ELSE Answer(w, "none")
    /\ UNCHANGED <<dataVars, lockVars, committed>>

\* cache_session: the entry, then the owner index.
SetEntry(w) == cached' = carried[w] /\ UNCHANGED indexed
AddToIndex  == indexed' = TRUE /\ UNCHANGED cached

FillCache(w) ==
    /\ At(w, "fill")
    /\ SetEntry(w)
    /\ Goto(w, "fillIndex")
    /\ UNCHANGED <<row, lockVars, carried, committed>>

FillIndex(w) ==
    /\ At(w, "fillIndex")
    /\ AddToIndex
    /\ GotSession(w)
    /\ UNCHANGED <<row, lockVars, carried, committed>>

\* The cache write that ends create, update, promote and update_tags.
CacheResult(w) ==
    /\ At(w, "set")
    /\ SetEntry(w)
    /\ Goto(w, "index")
    /\ UNCHANGED <<row, lockVars, carried, committed>>

IndexResult(w) ==
    /\ At(w, "index")
    /\ AddToIndex
    /\ Answer(w, "ok")
    /\ UNCHANGED <<row, lockVars, carried, committed>>

----------------------------------------------------------------------------
(* update_session(increment_turns=True) *)

\* Mutant of LockSession: the lock key names the operation, so nobody waits.
EnterUnlocked(w) ==
    /\ At(w, "lock")
    /\ inside' = inside \cup {w}
    /\ Goto(w, "read")
    /\ UNCHANGED <<dataVars, lapsed, carried, committed>>

LockSession(w) ==
    /\ At(w, "lock")
    /\ Lock!Enter(w)
    /\ Goto(w, "read")
    /\ UNCHANGED <<dataVars, carried, committed>>

\* Mutant of LockTimesOut: the caller starts over, and over.
LockRetriedForEver(w) ==
    /\ At(w, "lock")
    /\ Goto(w, "start")
    /\ UNCHANGED <<dataVars, lockVars, carried, committed>>

LockTimesOut(w) ==
    /\ At(w, "lock")
    /\ Answer(w, "failed")
    /\ UNCHANGED <<dataVars, lockVars, carried, committed>>

\* Mutants of WriteRow: the cache is written although the UPDATE was rolled
\* back, and an UPDATE of every column with what the object carries.
WriteRolledBack(w) ==
    /\ At(w, "write")
    /\ Carry(w, [carried[w] EXCEPT !.turns = @ + 1])
    /\ Goto(w, "set")
    /\ UNCHANGED <<row, cached, indexed, lockVars, committed>>

WriteWholeRow(w) ==
    LET updated == [carried[w] EXCEPT !.turns = @ + 1] IN
    /\ At(w, "write")
    /\ Carry(w, updated)
    /\ IF row # Absent THEN row' = updated /\ committed' = committed + 1
       ELSE UNCHANGED <<row, committed>>
    /\ Goto(w, "set")
    /\ UNCHANGED <<cached, indexed, lockVars>>

\* The new value is computed from the object read before; UPDATE ... WHERE
\* leaves an absent row absent, and nobody looks at what it returned.
WriteRow(w) ==
    LET updated == [carried[w] EXCEPT !.turns = @ + 1] IN
    /\ At(w, "write")
    /\ Carry(w, updated)
    /\ IF row # Absent
       THEN row' = [row EXCEPT !.turns = updated.turns] /\ committed' = committed + 1
       ELSE UNCHANGED <<row, committed>>
    /\ Goto(w, "set")
    /\ UNCHANGED <<cached, indexed, lockVars>>

Unlock(w) ==
    /\ At(w, "unlock")
    /\ Lock!Exit(w)
    /\ Goto(w, "done")
    /\ UNCHANGED <<dataVars, carried, committed>>

----------------------------------------------------------------------------
(* promote_session and update_tags *)

\* get_session_metadata_for_update: an absent row has no metadata.
ReadMetadata(w) ==
    /\ At(w, "readMeta")
    /\ Carry(w, [carried[w] EXCEPT !.meta = row.meta])
    /\ Goto(w, "writeMeta")
    /\ UNCHANGED <<dataVars, lockVars, committed>>

\* The whole metadata column is written; the row comes back to be cached.
WriteMetadata(w) ==
    /\ At(w, "writeMeta")
    /\ IF row # Absent
       THEN /\ row' = [row EXCEPT !.meta = carried[w].meta \cup {op[w]}]
            /\ Carry(w, row')
            /\ Goto(w, "set")
       ELSE UNCHANGED <<row, carried>> /\ Answer(w, "none")
    /\ UNCHANGED <<cached, indexed, lockVars, committed>>

----------------------------------------------------------------------------
(* delete_session *)

FindOwner(w) ==
    /\ At(w, "lookup")
    /\ Goto(w, IF cached # Absent THEN "unindex" ELSE "lookupRow")
    /\ UNCHANGED <<dataVars, lockVars, carried, committed>>

FindOwnerInRow(w) ==
    /\ At(w, "lookupRow")
    /\ Goto(w, IF row # Absent THEN "unindex" ELSE "drop")
    /\ UNCHANGED <<dataVars, lockVars, carried, committed>>

RemoveFromIndex(w) ==
    /\ At(w, "unindex")
    /\ indexed' = FALSE
    /\ Goto(w, "drop")
    /\ UNCHANGED <<row, cached, lockVars, carried, committed>>

\* DEL counts the keys it removed: the answer, and whether the row goes too.
DropEntry(w) ==
    /\ At(w, "drop")
    /\ cached' = Absent
    /\ IF cached # Absent THEN Goto(w, "dropRow") ELSE Answer(w, "notFound")
    /\ UNCHANGED <<row, indexed, lockVars, carried, committed>>

DropRow(w) ==
    /\ At(w, "dropRow")
    /\ row' = Absent
    /\ Answer(w, "ok")
    /\ UNCHANGED <<cached, indexed, lockVars, carried, committed>>

----------------------------------------------------------------------------
(* The environment *)

\* An await raises or the instance dies: the method ends here with what it
\* has written so far, and its lock is released or left to its TTL.
Abort(w) ==
    /\ "abort" \in faults
    /\ pc[w] \notin {"start", "done"}
    /\ pc' = [pc EXCEPT ![w] = "done"]
    /\ outcome' = [outcome EXCEPT ![w] = "failed"]
    /\ IF w \in inside THEN Lock!Exit(w) ELSE UNCHANGED lockVars
    /\ UNCHANGED <<dataVars, op, carried, committed>>

LockLapses(w) ==
    /\ "lapse" \in faults
    /\ w \notin lapsed
    /\ Lock!Lapse(w)
    /\ UNCHANGED <<dataVars, op, pc, carried, outcome, committed>>

\* Mutant of EntryExpires: entries are set without a TTL.
NeverExpires == FALSE /\ UNCHANGED storeVars

\* redis_session_ttl, on the entry and on the index.
EntryExpires ==
    /\ "expire" \in faults
    /\ cached # Absent
    /\ cached' = Absent
    /\ UNCHANGED <<row, indexed, lockVars, op, pc, carried, outcome, committed>>

\* The index gets its TTL after the entry, and so outlives it.
IndexExpires ==
    /\ "expire" \in faults
    /\ indexed
    /\ cached = Absent \/ \E w \in Workers : pc[w] \in {"index", "fillIndex"}
    /\ indexed' = FALSE
    /\ UNCHANGED <<row, cached, lockVars, op, pc, carried, outcome, committed>>

Step(w) ==
    \/ Begin(w)
    \/ InsertRow(w)
    \/ ReadCache(w) \/ FetchRow(w) \/ FillCache(w) \/ FillIndex(w)
    \/ CacheResult(w) \/ IndexResult(w)
    \/ LockSession(w) \/ LockTimesOut(w) \/ WriteRow(w) \/ Unlock(w)
    \/ ReadMetadata(w) \/ WriteMetadata(w)
    \/ FindOwner(w) \/ FindOwnerInRow(w) \/ RemoveFromIndex(w)
    \/ DropEntry(w) \/ DropRow(w)

StoreNext ==
    /\ \/ \E w \in Workers :
             Step(w) \/ CreateCacheFails(w) \/ Abort(w) \/ LockLapses(w)
       \/ EntryExpires
       \/ IndexExpires
    /\ UNCHANGED faults

SafeStore == StoreInit /\ [][StoreNext]_storeVars

\* The event loop runs every ready coroutine; Redis drops expired keys.
StoreSpec ==
    /\ SafeStore
    /\ \A w \in Workers : WF_storeVars(Step(w) /\ UNCHANGED faults)
    /\ WF_storeVars(EntryExpires /\ UNCHANGED faults)

----------------------------------------------------------------------------
(* Properties *)

Present  == [turns : Nat, meta : SUBSET Fields]
Sessions == Present \cup {Absent}
GetSteps == {"read", "fetch", "fill", "fillIndex"}
Steps    == GetSteps \cup
            {"start", "insert", "set", "index", "lock", "write", "unlock", "readMeta",
             "writeMeta", "lookup", "lookupRow", "unindex", "drop", "dropRow", "done"}
Outcomes == {"pending", "ok", "none", "conflict", "notFound", "failed"}

\* Type correctness.
StoreTypeOK ==
    /\ row \in Sessions /\ cached \in Sessions
    /\ indexed \in BOOLEAN
    /\ inside \in SUBSET Workers /\ lapsed \in SUBSET Workers
    /\ op \in [Workers -> Ops]
    /\ pc \in [Workers -> Steps]
    /\ carried \in [Workers -> Sessions]
    /\ outcome \in [Workers -> Outcomes]
    /\ faults \in Faults
    /\ committed \in Nat

Finished(w)  == pc[w] = "done"

\* "Write to DB first, then cache": as long as nobody deletes the session, no
\* reader is ever shown a turn that no UPDATE has committed, whatever expires,
\* lapses or dies in between.
NobodyDeletes       == \A w \in Workers : op[w] # "delete"
CacheShowsCommitted == NobodyDeletes => cached.turns <= committed

\* What promote_session or update_tags wrote and answered stays in the row,
\* however stale the objects are that updates and cache fills carry meanwhile;
\* only the other of the two, which takes no lock either, and a deletion may
\* take it away (session.py 439-498, 586-682).
NoOtherField(w) ==
    \A v \in Workers : op[v] # "delete" /\ (op[v] \in Fields => op[v] = op[w])
FieldsStay ==
    \A w \in Workers :
        op[w] \in Fields /\ outcome[w] = "ok" /\ NoOtherField(w) => op[w] \in row.meta

\* update_session: "increment_turns: If True, atomically increment total_turns
\* by 1": no increment that reached the row is lost.
IncrementsCount == row # Absent => row.turns = committed

\* While updates alone run, and nothing but the entry's TTL interferes, the
\* lock keeps that promise (session.py 439-515).
UpdatesOnly  == \A w \in Workers : op[w] = "increment"
OnlyExpiry   == faults \subseteq {"expire"}
UpdatesCount == UpdatesOnly /\ OnlyExpiry => IncrementsCount

\* delete_session removes the row "as well to prevent zombie sessions"
\* (session.py 562): when it answered that the session is deleted and all calls
\* are over, neither store has it.  A reader that fetched the row between the
\* two deletions caches it again: this does not hold, see the README.
NobodyCreates == \A w \in Workers : op[w] # "create"
DeletedIsGone ==
    /\ NobodyCreates /\ \A w \in Workers : Finished(w)
    /\ \E w \in Workers : op[w] = "delete" /\ outcome[w] = "ok"
    => cached = Absent /\ row = Absent

\* "True if deleted, False if not found" (session.py 524): where the answer is
\* not found there is no session.  The entry alone decides, and may have expired
\* before its row: this does not hold, see the README.
NotFoundIsAbsent ==
    NobodyCreates =>
        \A w \in Workers : op[w] = "delete" /\ outcome[w] = "notFound" => row = Absent

\* Every method ends, the ones waiting for the lock included.
MethodsEnd == \A w \in Workers : pc[w] # "start" ~> Finished(w)

\* The TTL heals the cache: in the end it shows the row or nothing, however
\* the methods raced.
CacheHeals == <>[](cached \in {Absent, row})
=============================================================================
