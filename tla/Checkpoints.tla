----------------------------- MODULE Checkpoints -----------------------------
(***************************************************************************)
(* File checkpoints of sessions in Redis: a record per checkpoint, a list  *)
(* per session that is read, extended and written back whole, and an index *)
(* from the user message to the checkpoint.  Each creation is the call of  *)
(* CheckpointManager.create_from_context at the end of one query.          *)
(***************************************************************************)
EXTENDS Integers

CONSTANTS
    Makers,       \* the creations; each stands for the checkpoint it makes
    Sessions,
    Messages,     \* uuids of user messages
    Nobody

ASSUME CheckpointsAssumption == Nobody \notin Makers

VARIABLES
    owner, about, \* the session and the message of each creation
    ckStep,       \* "idle", "record", "read", "write", "index", "done", "skipped" or "failed"
    seen,         \* the list each creation read
    records,      \* checkpoint:<id>
    lists,        \* checkpoints:<session>
    byMessage,    \* checkpoint_uuid_index:<uuid>
    \* history
    overlapped,   \* creations beside which another of the session was made
    expired       \* creations something of which expired

ckVars == <<owner, about, ckStep, seen, records, lists, byMessage, overlapped, expired>>

CheckpointInit ==
    /\ owner \in [Makers -> Sessions] /\ about \in [Makers -> Messages]
    /\ ckStep = [m \in Makers |-> "idle"] /\ seen = [m \in Makers |-> {}]
    /\ records = {} /\ lists = [s \in Sessions |-> {}]
    /\ byMessage = [u \in Messages |-> Nobody]
    /\ overlapped = {} /\ expired = {}

InProgress(m) == ckStep[m] \in {"record", "read", "write", "index"}
Then(m, step) == ckStep' = [ckStep EXCEPT ![m] = step]

\* Checkpointing is off, no message was tracked or there is no service: nothing.
BeginCheckpoint(m) ==
    /\ ckStep[m] = "idle"
    /\ \/ Then(m, "skipped") /\ UNCHANGED overlapped
       \/ /\ Then(m, "record")
          /\ LET beside == {n \in Makers \ {m} : InProgress(n) /\ owner[n] = owner[m]} IN
             overlapped' = overlapped \cup beside \cup (IF beside = {} THEN {} ELSE {m})
    /\ UNCHANGED <<owner, about, seen, records, lists, byMessage, expired>>

CacheCheckpoint(m) ==
    /\ ckStep[m] = "record"
    /\ records' = records \cup {m}
    /\ Then(m, "read")
    /\ UNCHANGED <<owner, about, seen, lists, byMessage, overlapped, expired>>

ReadList(m) ==
    /\ ckStep[m] = "read"
    /\ seen' = [seen EXCEPT ![m] = lists[owner[m]]]
    /\ Then(m, "write")
    /\ UNCHANGED <<owner, about, records, lists, byMessage, overlapped, expired>>

\* Mutant of Extended: the list is not carried over.
StartsAgain(m) == {m}

Extended(m) == seen[m] \cup {m}

WriteList(m) ==
    /\ ckStep[m] = "write"
    /\ lists' = [lists EXCEPT ![owner[m]] = Extended(m)]
    /\ Then(m, "index")
    /\ UNCHANGED <<owner, about, seen, records, byMessage, overlapped, expired>>

CreateUuidIndex(m) ==
    /\ ckStep[m] = "index"
    /\ byMessage' = [byMessage EXCEPT ![about[m]] = m]
    /\ Then(m, "done")
    /\ UNCHANGED <<owner, about, seen, records, lists, overlapped, expired>>

\* Redis raises - what it was asked may have been done - or the query is
\* cancelled; the manager answers None and nothing is taken back.
CheckpointFails(m) ==
    /\ InProgress(m)
    /\ Then(m, "failed")
    /\ \/ UNCHANGED <<records, lists, byMessage>>
       \/ ckStep[m] = "record" /\ records' = records \cup {m} /\ UNCHANGED <<lists, byMessage>>
       \/ /\ ckStep[m] = "write"
          /\ lists' = [lists EXCEPT ![owner[m]] = Extended(m)]
          /\ UNCHANGED <<records, byMessage>>
       \/ /\ ckStep[m] = "index"
          /\ byMessage' = [byMessage EXCEPT ![about[m]] = m]
          /\ UNCHANGED <<records, lists>>
    /\ UNCHANGED <<owner, about, seen, overlapped, expired>>

\* Each key has a lifetime of its own; a list starts anew with every addition.
ExpireCheckpoint ==
    /\ \/ \E m \in records :
             /\ records' = records \ {m} /\ expired' = expired \cup {m}
             /\ UNCHANGED <<lists, byMessage>>
       \/ \E s \in Sessions :
             /\ lists[s] # {}
             /\ lists' = [lists EXCEPT ![s] = {}] /\ expired' = expired \cup lists[s]
             /\ UNCHANGED <<records, byMessage>>
       \/ \E u \in Messages :
             /\ byMessage[u] # Nobody
             /\ byMessage' = [byMessage EXCEPT ![u] = Nobody]
             /\ expired' = expired \cup {m \in Makers : about[m] = u}
             /\ UNCHANGED <<records, lists>>
    /\ UNCHANGED <<owner, about, ckStep, seen, overlapped>>

CheckpointNext ==
    \/ ExpireCheckpoint
    \/ \E m \in Makers :
          \/ BeginCheckpoint(m) \/ CacheCheckpoint(m) \/ ReadList(m) \/ WriteList(m)
          \/ CreateUuidIndex(m) \/ CheckpointFails(m)

CheckpointSpec == CheckpointInit /\ [][CheckpointNext]_ckVars

----------------------------------------------------------------------------
(* What the routes read, each with one command *)

ListCheckpoints(s)       == lists[s]
ValidateCheckpoint(s, m) == m \in records /\ owner[m] = s
GetByMessage(u) == IF byMessage[u] \in records THEN byMessage[u] ELSE Nobody

\* A checkpoint that was made while no other of its session was being made, and
\* of which nothing expired, stays in the list of its session, can be rewound to
\* and leads to a checkpoint of its message, unless a newer one of the message
\* took its place and expired - whatever creations came before or
\* after it, and whichever of them broke off (checkpoint.py 65-125, 236-289).
CheckpointsListed ==
    \A m \in Makers : ckStep[m] = "done" /\ m \notin overlapped \cup expired =>
        /\ m \in ListCheckpoints(owner[m])
        /\ ValidateCheckpoint(owner[m], m)
        /\ LET n == GetByMessage(about[m]) IN
              IF n # Nobody THEN about[n] = about[m]
              ELSE \E k \in expired : about[k] = about[m]
=============================================================================
