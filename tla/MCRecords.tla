------------------------------ MODULE MCRecords -----------------------------
(***************************************************************************)
(* Two components of records in Redis that share no state, each on an      *)
(* instance of its own: a registry called by interchangeable callers; and  *)
(* a sum of small situations of the assistants, two calls in each: a       *)
(* thread, its messages, an assistant with and without a database, a run   *)
(* in each status met by executions, cancellations and outputs.            *)
(***************************************************************************)
EXTENDS Runs, Registry, TLC

VARIABLE part

RecordsSymmetry == Permutations(Callers)

\* The clock ticks where messages are made and listed; elsewhere it stands.
Quiet == [thread |-> FALSE, session |-> "none", messages |-> {}, second |-> MaxSecond,
          db |-> FALSE, row |-> None, run |-> None, calls |-> {}]

OfThread ==
    {[Quiet EXCEPT !.thread = t, !.session = IF t THEN s ELSE "none",
                   !.calls = {"modifyThread", "deleteThread", "getThread"}
                             \cup (IF t THEN {} ELSE {"createThread"})] :
       t \in BOOLEAN, s \in {"cached", "stored"}}

OfMessages ==
    {[Quiet EXCEPT !.messages = m, !.second = 1,
                   !.calls = {"createMessage", "getMessage", "modifyMessage", "listMessages"}] :
       m \in SUBSET Earlier}

OfAssistant ==
    {[Quiet EXCEPT !.db = d, !.row = r,
                   !.calls = {"getAssistant", "updateAssistant", "deleteAssistant"}
                             \cup (IF r = None THEN {"createAssistant"} ELSE {})] :
       d \in BOOLEAN, r \in {None, {}}}

OfRun ==
    {[Quiet EXCEPT !.run = s, !.row = r,
                   !.calls = {"executeRun", "submitOutputs", "streamRun", "cancelRun", "getRun"}
                             \cup (IF s = None THEN {"createRun"} ELSE {})] :
       s \in {None, "queued", "requires_action"}, r \in {None, {}}}

MCStarts == OfThread \cup OfMessages \cup OfAssistant \cup OfRun

\* The part that is not played is at one of its starts, and stays there.
RecordsInit ==
    /\ part \in {"registry", "assistants"}
    /\ RegistryInit
    /\ part = "assistants" => kind = "agent" /\ index = {}
    /\ Init
    /\ part = "registry" => ~thread /\ op = [w \in Workers |-> "getThread"]

RecordsNext ==
    /\ UNCHANGED part
    /\ \/ part = "registry" /\ RegistryNext /\ UNCHANGED vars
       \/ part = "assistants" /\ Next /\ UNCHANGED registryVars

RecordsSpec == RecordsInit /\ [][RecordsNext]_<<part, registryVars, vars>>
=============================================================================
