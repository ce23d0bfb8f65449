-------------------------------- MODULE Runs --------------------------------
(***************************************************************************)
(* Runs of an assistant over a thread: RunService keeps the record of a    *)
(* run, every method reads it and writes all of it back, and no lock is    *)
(* held in between; RunExecutor carries a run out with those methods, the  *)
(* assistant's record and the thread's messages.  The application gives    *)
(* neither service a database (dependencies.py 656, 684); AssistantService *)
(* is modelled with the one its constructor takes, too.  The answer of the *)
(* SDK is external.                                                        *)
(***************************************************************************)
EXTENDS Conversations

VARIABLES
    run,          \* the status of the one run, None before and after it
    asst, row,    \* the assistant in Redis and in the database: the updates in
                  \* it, or None
    db,           \* whether AssistantService has a database
    verb,         \* the RunService method a worker is in
    copy,         \* the status, or the assistant, a worker read last
    past,         \* history: who began to execute the run, from any status
    overtaken,    \* history: those whose run was written by another meanwhile
    astray        \* history: an assistant older than its row was cached

runVars  == <<run, past, overtaken>>
asstVars == <<asst, row, db, astray>>
held     == <<verb, copy>>
vars     == <<convVars, runVars, asstVars, held>>

Statuses == {"queued", "in_progress", "requires_action",
             "completed", "failed", "cancelled"}

ASSUME RunAssumption ==
    /\ None \notin Statuses
    /\ \A start \in Starts :
          /\ start.run \in (Statuses \cup {None}) \ {"in_progress"}
          /\ "createRun" \in start.calls => start.run = None

\* The run is created once: its id is new.
Init ==
    \E start \in Starts :
        /\ ConvInit(start)
        /\ \A v, w \in Workers : op[v] = "createRun" /\ op[w] = "createRun" => v = w
        /\ run = start.run /\ db = start.db
        /\ row = IF start.db THEN start.row ELSE None
        /\ asst \in IF start.db THEN {None, start.row} ELSE {start.row}
        /\ verb = [w \in Workers |-> "none"]
        /\ copy = [w \in Workers |-> None]
        /\ past = {} /\ overtaken = {} /\ astray = FALSE

RunFirst  == [createRun |-> "createRun", getRun |-> "readRun",
              cancelRun |-> "readRun", executeRun |-> "readRun",
              streamRun |-> "readRun", submitOutputs |-> "readRun",
              createAssistant |-> "insertRow", getAssistant |-> "getAssistant",
              updateAssistant |-> "getAssistant", deleteAssistant |-> "getAssistant"]
FirstVerb == [cancelRun |-> "cancel", executeRun |-> "start",
              streamRun |-> "start", submitOutputs |-> "submit"]
Executes  == {"executeRun", "submitOutputs", "streamRun"}

RunBegin(w) ==
    /\ At(w, "start")
    /\ op[w] \in DOMAIN RunFirst
    /\ Goto(w, RunFirst[op[w]])
    /\ verb' = [verb EXCEPT ![w] = IF op[w] \in DOMAIN FirstVerb
                                   THEN FirstVerb[op[w]] ELSE "none"]
    /\ UNCHANGED <<recordVars, listVars, crossed, runVars, asstVars, copy>>

----------------------------------------------------------------------------
(* RunService *)

\* create_run asks for neither the thread nor the assistant.
CreateRun(w) ==
    /\ At(w, "createRun")
    /\ run = None
    /\ run' = "queued"
    /\ Answer(w, "ok")
    /\ UNCHANGED <<recordVars, listVars, crossed, past, overtaken, asstVars, held>>

\* Mutant of Takes: a run is cancelled whatever became of it.
TakesAny ==
    [start    |-> {"queued"},
     submit   |-> {"requires_action"},
     cancel   |-> Statuses,
     complete |-> Statuses, fail |-> Statuses, require |-> Statuses]

\* Which statuses a method changes; any other it returns as it is.
Takes ==
    [start    |-> {"queued"},
     submit   |-> {"requires_action"},
     cancel   |-> {"queued", "in_progress", "requires_action"},
     complete |-> Statuses, fail |-> Statuses, require |-> Statuses]

Becomes ==
    [start |-> "in_progress", submit |-> "in_progress", cancel |-> "cancelled",
     complete |-> "completed", fail |-> "failed", require |-> "requires_action"]

\* The verb is over: a run that is begun goes on to its assistant.
AfterVerb(w) ==
    IF verb[w] \in {"start", "submit"} THEN Goto(w, "getAssistant") ELSE Answer(w, "ok")

\* A method reads the run.  It returns None when there is none, and the run as
\* it is when the status refuses it: execute_run then goes on all the same.
ReadRun(w) ==
    /\ At(w, "readRun")
    /\ copy' = [copy EXCEPT ![w] = run]
    /\ IF run = None
       THEN Answer(w, IF verb[w] \in {"complete", "fail", "require"} THEN "ok" ELSE "notFound")
       ELSE IF verb[w] = "none" THEN Answer(w, "ok")
       ELSE IF run \in Takes[verb[w]] THEN Goto(w, "writeRun")
       ELSE AfterVerb(w)
    /\ past' = IF run # None /\ verb[w] \in {"start", "submit"} THEN past \cup {w} ELSE past
    /\ overtaken' = IF run # None /\ verb[w] \in {"start", "submit"}
                       /\ run \notin Takes[verb[w]]
                    THEN overtaken \cup {w} ELSE overtaken
    /\ UNCHANGED <<recordVars, listVars, crossed, run, asstVars, verb>>

\* The whole record is written back, over whatever it has become meanwhile.
WriteRun(w) ==
    /\ At(w, "writeRun")
    /\ run' = Becomes[verb[w]]
    /\ overtaken' = overtaken \cup (past \ {w})
    /\ AfterVerb(w)
    /\ UNCHANGED <<recordVars, listVars, crossed, past, asstVars, held>>

----------------------------------------------------------------------------
(* RunExecutor *)

\* The next method of the RunService the executor calls.
Call(w, method) == Goto(w, "readRun") /\ verb' = [verb EXCEPT ![w] = method]

\* Mutant of Missing: every caller only says so.
MissingOnly(w) == Answer(w, "notFound") /\ UNCHANGED verb

\* What follows once get_assistant has returned: the caller of an executor's run
\* goes on, or fails the run; stream_run only says so.
Missing(w) ==
    IF op[w] \in {"executeRun", "submitOutputs"} THEN Call(w, "fail")
    ELSE Answer(w, "notFound") /\ UNCHANGED verb

\* The prompt is the messages of the thread, oldest first, for execute_run.
AfterAssistant == [executeRun |-> "scan", submitOutputs |-> "scan",
                   streamRun |-> "sdk", updateAssistant |-> "updateRow",
                   deleteAssistant |-> "deleteRow"]

Got(w) ==
    /\ IF op[w] = "getAssistant" THEN Answer(w, "ok") ELSE Goto(w, AfterAssistant[op[w]])
    /\ UNCHANGED verb

\* delete_assistant goes on without an assistant.
NotGot(w) ==
    IF op[w] = "deleteAssistant" THEN Goto(w, "deleteRow") /\ UNCHANGED verb
    ELSE Missing(w)

\* The SDK's answer: tool calls to make, a text, nothing, or an exception.
Sdk(w) ==
    /\ At(w, "sdk")
    /\ op[w] # "streamRun"
    /\ \/ Call(w, "require") \/ Call(w, "complete") \/ Call(w, "fail")
       \/ Goto(w, "addAnswer") /\ UNCHANGED verb
    /\ UNCHANGED <<recordVars, listVars, crossed, runVars, asstVars, copy>>

AddAnswer(w) ==
    /\ At(w, "addAnswer")
    /\ Write(w)
    /\ Call(w, "complete")
    /\ UNCHANGED <<crossed, runVars, asstVars, copy>>

\* stream_run passes the events on, and completes no run.
StreamSdk(w) ==
    /\ At(w, "sdk")
    /\ op[w] = "streamRun"
    /\ \/ Answer(w, "ok") /\ UNCHANGED verb
       \/ Call(w, "fail")
    /\ UNCHANGED <<recordVars, listVars, crossed, runVars, asstVars, copy>>

\* Redis raises.  Inside the try the run is failed, which may raise again;
\* outside it the call ends with the run as it is.  get_assistant takes a refill
\* that raises for an assistant that is not there, create_assistant logs it.
InTry(w) == /\ op[w] \in {"executeRun", "submitOutputs"}
            /\ \/ pc[w] \in {"scan", "scanMore", "getMany", "addAnswer"}
               \/ pc[w] \in {"readRun", "writeRun"} /\ verb[w] \in {"complete", "require"}

RedisRaises(w) ==
    /\ "redis" \in Faults
    /\ op[w] \in DOMAIN RunFirst
    /\ pc[w] \notin {"start", "sdk", "done", "insertRow", "getRow", "updateRow", "deleteRow"}
    /\ IF InTry(w) THEN Call(w, "fail")
       ELSE IF pc[w] = "refill" THEN NotGot(w)
       ELSE /\ Answer(w, IF pc[w] = "cacheNew" THEN "ok" ELSE "failed")
            /\ verb' = [verb EXCEPT ![w] = "none"]
    /\ UNCHANGED <<recordVars, listVars, crossed, runVars, asstVars, copy>>

\* The instance dies, or the database raises out of an update or a deletion.
Dies(w) ==
    /\ "crash" \in Faults
    /\ op[w] \in DOMAIN RunFirst
    /\ pc[w] \notin {"start", "done"}
    /\ Answer(w, "failed")
    /\ verb' = [verb EXCEPT ![w] = "none"]
    /\ UNCHANGED <<recordVars, listVars, crossed, runVars, asstVars, copy>>

----------------------------------------------------------------------------
(* AssistantService *)

CacheAssistant(value) ==
    /\ asst' = value
    /\ astray' = (astray \/ (db /\ value # row))

\* create_assistant: a cache that fails is only logged.
InsertRow(w) ==
    /\ At(w, "insertRow")
    /\ row = None /\ asst = None
    /\ row' = IF db THEN {} ELSE None
    /\ copy' = [copy EXCEPT ![w] = {}]
    /\ Goto(w, "cacheNew")
    /\ UNCHANGED <<recordVars, listVars, crossed, runVars, asst, db, astray, verb>>

\* get_assistant: Redis, then the database, then Redis is filled again.
GetAssistant(w) ==
    /\ At(w, "getAssistant")
    /\ copy' = [copy EXCEPT ![w] = asst]
    /\ IF asst # None THEN Got(w)
       ELSE IF db THEN Goto(w, "getRow") /\ UNCHANGED verb
       ELSE NotGot(w)
    /\ UNCHANGED <<recordVars, listVars, crossed, runVars, asstVars>>

\* A database that raises is an assistant that is not there.
GetRow(w) ==
    /\ At(w, "getRow")
    /\ \/ row # None /\ Goto(w, "refill") /\ UNCHANGED verb
       \/ (row = None \/ "crash" \in Faults) /\ NotGot(w)
    /\ copy' = [copy EXCEPT ![w] = row]
    /\ UNCHANGED <<recordVars, listVars, crossed, runVars, asstVars>>

\* The copy goes to Redis: of a get, of a new assistant, or of an update.
StoreCopy(w) ==
    /\ pc[w] \in {"refill", "cacheNew", "cacheUpdate"}
    /\ CacheAssistant(copy[w])
    /\ IF At(w, "refill") THEN Got(w) ELSE Answer(w, "ok") /\ UNCHANGED verb
    /\ UNCHANGED <<recordVars, listVars, crossed, runVars, row, db, copy>>

\* Mutant of UpdateRow: the copy is cached as it was read.
UpdateOnlyRow(w) ==
    /\ At(w, "updateRow")
    /\ row' = IF row = None THEN None ELSE row \cup {w}
    /\ Answer(w, "ok")
    /\ UNCHANGED <<recordVars, listVars, crossed, runVars, asst, db, astray, held>>

\* update_assistant: the row gets the fields given, Redis the whole copy.
UpdateRow(w) ==
    /\ At(w, "updateRow")
    /\ row' = IF row = None THEN None ELSE row \cup {w}
    /\ copy' = [copy EXCEPT ![w] = @ \cup {w}]
    /\ Goto(w, "cacheUpdate")
    /\ UNCHANGED <<recordVars, listVars, crossed, runVars, asst, db, astray, verb>>

\* delete_assistant: with no row to delete it answers False and leaves Redis.
DeleteRow(w) ==
    /\ At(w, "deleteRow")
    /\ row' = None
    /\ IF db /\ row = None THEN Answer(w, "notFound") ELSE Goto(w, "dropAssistant")
    /\ UNCHANGED <<recordVars, listVars, crossed, runVars, asst, db, astray, held>>

DropAssistant(w) ==
    /\ At(w, "dropAssistant")
    /\ asst' = None
    /\ Answer(w, "ok")
    /\ UNCHANGED <<recordVars, listVars, crossed, runVars, row, db, astray, held>>

----------------------------------------------------------------------------
(* redis_session_ttl of the run and of the assistant, written anew each time *)
RunExpires ==
    /\ "expire" \in Faults
    /\ \/ run # None /\ run' = None /\ UNCHANGED asst
       \/ asst # None /\ asst' = None /\ UNCHANGED run
    /\ UNCHANGED <<convVars, past, overtaken, row, db, astray, held>>

RunStep(w) ==
    \/ RunBegin(w) \/ CreateRun(w) \/ ReadRun(w) \/ WriteRun(w)
    \/ Sdk(w) \/ AddAnswer(w) \/ StreamSdk(w)
    \/ InsertRow(w) \/ GetAssistant(w) \/ GetRow(w) \/ StoreCopy(w)
    \/ UpdateRow(w) \/ DeleteRow(w) \/ DropAssistant(w)

Conv == /\ ConvEnv \/ \E w \in Workers : ConvStep(w)
        /\ UNCHANGED <<runVars, asstVars, held>>

Next ==
    \/ Conv
    \/ RunExpires
    \/ \E w \in Workers : RunStep(w) \/ RedisRaises(w) \/ Dies(w)

Spec == Init /\ [][Next]_vars

----------------------------------------------------------------------------
(* Properties *)

TypeOK ==
    /\ run \in Statuses \cup {None}
    /\ db \in BOOLEAN /\ astray \in BOOLEAN
    /\ past \subseteq Workers /\ overtaken \subseteq Workers
    /\ verb \in [Workers -> {"none"} \cup DOMAIN Takes]

\* A run in progress has a worker that will write what becomes of it: none is
\* left so, except by a call that broke off outside the executor's try and by
\* stream_run, which completes no run and fails none whose assistant is gone.
\* Every exit of the executor and every refusal takes part
\* (run_executor.py 124-391).
Working(w) ==
    /\ op[w] \in Executes
    /\ \/ pc[w] \in {"getAssistant", "getRow", "refill", "scan", "scanMore", "getMany",
                     "sdk", "addAnswer"}
       \/ pc[w] \in {"readRun", "writeRun"} /\ verb[w] \in {"complete", "fail", "require"}
InProgressHasWorker ==
    run = "in_progress" =>
        \E w \in past : \/ Working(w) \/ outcome[w] = "failed"
                        \/ op[w] = "streamRun" /\ outcome[w] # "pending"

\* The state machine RunService's docstring gives (run_service.py 188-199), and
\* what the code adds to it: a run may be cancelled wherever it is not over.
Documented ==
    {<<"queued", "in_progress">>, <<"in_progress", "completed">>,
     <<"in_progress", "requires_action">>, <<"requires_action", "in_progress">>,
     <<"in_progress", "failed">>, <<"in_progress", "cancelled">>,
     <<"queued", "cancelled">>, <<"requires_action", "cancelled">>}

\* A run changes by the machine unless its writer was overtaken: it held an older
\* status than it overwrites, or another call wrote the run after this one began
\* to execute it, or it began to execute a run it had not started.  Those are
\* what the missing lock and the unheeded refusal allow; nothing else does.
LifeCycle ==
    [][\A w \in Workers :
         At(w, "writeRun") /\ run' # run /\ run # None /\ pc'[w] # "writeRun" =>
            \/ <<run, run'>> \in Documented
            \/ copy[w] # run
            \/ w \in overtaken]_vars

Over == {"completed", "failed", "cancelled"}

\* What the docstring says of a run that is over: no arrow leaves completed,
\* failed or cancelled (run_service.py 188-199).
FinalStaysFinal ==
    [][(run \in Over) => (run' \in {run, None})]_vars

\* With a database, the assistant in Redis is the one in the database, unless a
\* call is between the two writes or broke off there, or an older copy was
\* cached over a newer row (assistant_service.py 344-620).
CachedAssistantIsRow ==
    db /\ asst # None /\ ~astray =>
        \/ asst = row
        \/ \E w \in Workers :
              \/ pc[w] \in {"cacheUpdate", "dropAssistant"}
              \/ op[w] \in {"updateAssistant", "deleteAssistant"} /\ outcome[w] = "failed"
=============================================================================
