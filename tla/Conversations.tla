---------------------------- MODULE Conversations ----------------------------
(***************************************************************************)
(* One thread of the OpenAI-compatible API: its record in Redis, the       *)
(* session behind it, and its messages, each a record of its own.  Nothing *)
(* ties the three together but the order in which a call writes them; a    *)
(* message is accepted for a thread nobody looks up.  Threads have one     *)
(* mutable field, so a thread is there or not; of a message its second of  *)
(* creation is kept, which is what lists are sorted by.                    *)
(***************************************************************************)
EXTENDS Integers, FiniteSets

CONSTANTS
    Workers,      \* the calls made, one per worker; also the ids of what they make
    Earlier,      \* messages that may be in the thread at the start
    Starts,       \* the states a behaviour starts from, with the calls made there
    Limit,        \* how many messages a list returns
    ScanLimit,    \* how many keys a scan finds at most (max_keys)
    MaxSecond,    \* bound: the clock stops here
    Faults,       \* what goes wrong: a subset of AllFaults
    None

AllFaults == {"expire", "redis", "crash"}
Ids       == Workers \cup Earlier

ASSUME ConversationAssumption ==
    /\ Earlier \cap Workers = {} /\ Faults \subseteq AllFaults
    /\ IsFiniteSet(Ids)
    /\ Limit \in Nat \ {0} /\ ScanLimit \in Nat \ {0} /\ MaxSecond \in Nat /\ None \notin Nat
    /\ \A start \in Starts :
          /\ start.messages \subseteq Earlier /\ start.second \in Nat
          /\ start.thread => start.session # "none"
          /\ "createThread" \in start.calls => ~start.thread

VARIABLES
    thread,       \* whether thread:<id> is in Redis
    session,      \* the session behind it: "cached", "stored" (only its row) or "none"
    message,      \* created_at of message:<thread>:<id>, or None
    second,       \* the clock that stamps created_at
    op, pc,       \* the call of each worker and its next step
    order, found, \* of a list: its order and the keys scanned so far
    page, more,   \* what a list found, cut to its limit, and has_more
    outcome,      \* what the call answered
    here, ever,   \* history: messages there all through, and at any time of, a list
    crossed       \* history: a modify held its copy while a delete went by

recordVars == <<thread, session, message, second>>
listVars   == <<order, found, page, more, here, ever>>
callVars   == <<op, pc, outcome>>
convVars   == <<recordVars, listVars, callVars, crossed>>

Row(k)  == [id |-> k, at |-> message[k]]
Present == {Row(k) : k \in {i \in Ids : message[i] # None}}

\* Every message of the start is of second 0 or 1; a thread is made once.
ConvInit(start) ==
    /\ thread = start.thread /\ session = start.session
    /\ second = start.second
    /\ message \in [Ids -> {None, 0, 1}]
    /\ {k \in Ids : message[k] # None} = start.messages
    /\ op \in [Workers -> start.calls]
    /\ \A v, w \in Workers : op[v] = "createThread" /\ op[w] = "createThread" => v = w
    /\ pc = [w \in Workers |-> "start"]
    /\ outcome = [w \in Workers |-> "pending"]
    /\ order = [w \in Workers |-> "asc"]
    /\ found = [w \in Workers |-> {}]
    /\ page = [w \in Workers |-> {}]
    /\ more = [w \in Workers |-> FALSE]
    /\ here = [w \in Workers |-> {}]
    /\ ever = [w \in Workers |-> {}]
    /\ crossed = FALSE

At(w, step)   == pc[w] = step
Goto(w, step) == pc' = [pc EXCEPT ![w] = step] /\ UNCHANGED <<op, outcome>>
Answer(w, result) ==
    /\ pc' = [pc EXCEPT ![w] = "done"]
    /\ outcome' = [outcome EXCEPT ![w] = result]
    /\ UNCHANGED op

ConvFirst == [createThread |-> "session", getThread |-> "getThread",
              modifyThread |-> "getThread", deleteThread |-> "getThread",
              createMessage |-> "addMessage", getMessage |-> "getMessage",
              modifyMessage |-> "getMessage", listMessages |-> "scan"]
ConvOps   == DOMAIN ConvFirst

ConvBegin(w) ==
    /\ At(w, "start")
    /\ op[w] \in ConvOps
    /\ Goto(w, ConvFirst[op[w]])
    /\ UNCHANGED <<recordVars, listVars, crossed>>

----------------------------------------------------------------------------
(* Threads *)

\* Mutant of CreateSession: the thread is cached before its session is made.
CreateThreadFirst(w) ==
    /\ At(w, "session")
    /\ thread' = TRUE
    /\ Goto(w, "cacheThread")
    /\ UNCHANGED <<session, message, second, listVars, crossed>>

\* create_thread: the session first, then the thread that names it.
CreateSession(w) ==
    /\ At(w, "session")
    /\ session' = "cached"
    /\ Goto(w, "cacheThread")
    /\ UNCHANGED <<thread, message, second, listVars, crossed>>

\* The request may bring messages; empty ones and other roles are skipped.
CacheThread(w) ==
    /\ At(w, "cacheThread")
    /\ thread' = TRUE
    /\ \/ op[w] = "createThread" /\ Goto(w, "addMessage")
       \/ Answer(w, "ok")
    /\ UNCHANGED <<session, message, second, listVars, crossed>>

AfterGet == [getThread |-> "answer", modifyThread |-> "cacheThread",
             deleteThread |-> "dropSession"]
Deleting == \E v \in Workers : At(v, "dropThread")

GetThread(w) ==
    /\ At(w, "getThread")
    /\ IF ~thread THEN Answer(w, "notFound")
       ELSE IF AfterGet[op[w]] = "answer" THEN Answer(w, "ok")
       ELSE Goto(w, AfterGet[op[w]])
    /\ crossed' = (crossed \/ (op[w] = "modifyThread" /\ Deleting))
    /\ UNCHANGED <<recordVars, listVars>>

Modifying == \E v \in Workers : op[v] = "modifyThread" /\ At(v, "cacheThread")

\* SessionService.delete_session removes the row only if the entry was there;
\* delete_thread does not look at its answer.
DeleteSession(w) ==
    /\ At(w, "dropSession")
    /\ session' = IF session = "cached" THEN "none" ELSE session
    /\ crossed' = (crossed \/ Modifying)
    /\ Goto(w, "dropThread")
    /\ UNCHANGED <<thread, message, second, listVars>>

DropThread(w) ==
    /\ At(w, "dropThread")
    /\ thread' = FALSE
    /\ crossed' = (crossed \/ Modifying)
    /\ Answer(w, "ok")
    /\ UNCHANGED <<session, message, second, listVars>>

----------------------------------------------------------------------------
(* Messages *)

ListSteps == {"scan", "scanMore", "getMany"}

\* create_message, from a route or from a run: nobody looks the thread up.
Write(w) ==
    /\ message' = [message EXCEPT ![w] = second]
    /\ ever' = [v \in Workers |->
                  IF pc[v] \in ListSteps
                  THEN ever[v] \cup {[id |-> w, at |-> second]} ELSE ever[v]]
    /\ UNCHANGED <<thread, session, second, order, found, page, more, here>>

CacheMessage(w) ==
    /\ At(w, "addMessage")
    /\ op[w] \in ConvOps
    /\ Write(w)
    /\ Answer(w, "ok")
    /\ UNCHANGED crossed

\* get_message and modify_message: the record is read, and written back with
\* other metadata; created_at stays.
GetMessage(w) ==
    /\ At(w, "getMessage")
    /\ \E k \in Ids :
          IF message[k] = None THEN Answer(w, "notFound") /\ UNCHANGED found
          ELSE IF op[w] = "getMessage" THEN Answer(w, "ok") /\ UNCHANGED found
          ELSE Goto(w, "cacheMessage") /\ found' = [found EXCEPT ![w] = {Row(k)}]
    /\ UNCHANGED <<recordVars, order, page, more, here, ever, crossed>>

\* A record that expired in between is there again.
ModifyMessage(w) ==
    /\ At(w, "cacheMessage")
    /\ \E r \in found[w] :
          /\ message' = [message EXCEPT ![r.id] = r.at]
          /\ ever' = [v \in Workers |->
                        IF pc[v] \in ListSteps THEN ever[v] \cup {r} ELSE ever[v]]
    /\ found' = [found EXCEPT ![w] = {}]
    /\ Answer(w, "ok")
    /\ UNCHANGED <<thread, session, second, order, page, more, here, crossed>>

Lists == {"listMessages"}
Keys(rows) == {r.id : r \in rows}

\* SCAN returns a part of the keys at a time, here each key once; a key that is
\* there from the first part to the last is in one of them, any other may be.
\* With ScanLimit keys the scan ends, and what a part brings beyond is cut off.
Scan(w) ==
    /\ At(w, "scan")
    /\ \E o \in IF op[w] \in Lists THEN {"asc", "desc"} ELSE {"asc"} :
          order' = [order EXCEPT ![w] = o]
    /\ \E part \in SUBSET Keys(Present) :
          /\ Cardinality(part) <= ScanLimit
          /\ found' = [found EXCEPT ![w] = part]
          /\ Goto(w, IF Cardinality(part) = ScanLimit THEN "getMany" ELSE "scanMore")
    /\ here' = [here EXCEPT ![w] = Present]
    /\ ever' = [ever EXCEPT ![w] = Present]
    /\ UNCHANGED <<recordVars, page, more, crossed>>

\* Mutant of ScanMore: one part is taken for the whole.
ScanOnce(w) ==
    /\ At(w, "scanMore")
    /\ Goto(w, "getMany")
    /\ UNCHANGED <<recordVars, listVars, crossed>>

ScanMore(w) ==
    /\ At(w, "scanMore")
    /\ \E part \in SUBSET Keys(Present) :
          /\ Cardinality(found[w] \cup part) <= ScanLimit
          /\ \/ Keys(here[w]) \subseteq found[w] \cup part
             \/ Cardinality(found[w] \cup part) = ScanLimit
          /\ found' = [found EXCEPT ![w] = @ \cup part]
    /\ Goto(w, "getMany")
    /\ UNCHANGED <<recordVars, order, page, more, here, ever, crossed>>

Precedes(a, b, o) == IF o = "asc" THEN a.at < b.at ELSE b.at < a.at

\* The rows sorted by second, and cut: what is cut does not precede what is kept.
Pages(rows, o) ==
    {p \in SUBSET rows :
        /\ \/ p = rows /\ Cardinality(rows) <= Limit
           \/ Cardinality(rows) > Limit /\ Cardinality(p) = Limit
        /\ \A a \in rows \ p, b \in p : ~Precedes(a, b, o)}

\* MGET of the keys found; those that are gone by now are left out.
GetMany(w) ==
    LET rows == {r \in Present : r.id \in found[w]} IN
    /\ At(w, "getMany")
    /\ \E p \in Pages(rows, order[w]) :
          /\ page' = [page EXCEPT ![w] = p]
          /\ more' = [more EXCEPT ![w] = Cardinality(rows) > Limit]
    /\ found' = [found EXCEPT ![w] = {}]
    /\ IF op[w] \in Lists THEN Answer(w, "ok") ELSE Goto(w, "sdk")
    /\ UNCHANGED <<recordVars, order, here, ever, crossed>>

----------------------------------------------------------------------------
(* The environment *)

\* An await raises or the instance dies: the call ends where it is.
ConvBreaks(w) ==
    /\ Faults \cap {"redis", "crash"} # {}
    /\ op[w] \in ConvOps
    /\ pc[w] \notin {"start", "done"}
    /\ Answer(w, "failed")
    /\ UNCHANGED <<recordVars, listVars, crossed>>

\* redis_session_ttl: a message, the thread, or the entry of the session.
Expire ==
    /\ "expire" \in Faults
    /\ \/ \E k \in Ids :
             /\ message[k] # None
             /\ message' = [message EXCEPT ![k] = None]
             /\ here' = [w \in Workers |-> {r \in here[w] : r.id # k}]
             /\ UNCHANGED <<thread, session>>
       \/ thread /\ thread' = FALSE /\ UNCHANGED <<session, message, here>>
       \/ session = "cached" /\ session' = "stored" /\ UNCHANGED <<thread, message, here>>
    /\ UNCHANGED <<second, callVars, order, found, page, more, ever, crossed>>

Tick ==
    /\ second < MaxSecond
    /\ second' = second + 1
    /\ UNCHANGED <<thread, session, message, listVars, callVars, crossed>>

ConvStep(w) ==
    \/ ConvBegin(w)
    \/ CreateSession(w) \/ CacheThread(w) \/ GetThread(w) \/ DeleteSession(w) \/ DropThread(w)
    \/ CacheMessage(w) \/ GetMessage(w) \/ ModifyMessage(w)
    \/ Scan(w) \/ ScanMore(w) \/ GetMany(w)

ConvEnv == Expire \/ Tick \/ \E w \in Workers : ConvBreaks(w)

----------------------------------------------------------------------------
(* Properties *)

\* A list of messages, for a client or for the prompt of a run, shows nothing
\* that was not there.  If the scan could find all the messages there were
\* meanwhile, it misses what was there all along only when it says so and what
\* it shows comes first in its order, whatever is added, changed or lost while
\* it scans (message_service.py 196-261, cache.py 262-330).
Listed(w)   == pc[w] = "sdk" \/ (op[w] \in Lists /\ outcome[w] = "ok")
Few(w)      == Cardinality(Keys(ever[w])) <= ScanLimit
PageIsRight ==
    \A w \in Workers : Listed(w) =>
        /\ page[w] \subseteq ever[w]
        /\ Few(w) =>
              \A r \in here[w] \ page[w] :
                 more[w] /\ \A s \in page[w] : ~Precedes(r, s, order[w])

\* A thread has its session behind it: none is left without, unless a
\* deletion is under way or broke off between the two, or a modification
\* wrote its copy of a thread that was deleted meanwhile
\* (thread_service.py 105-240).
ThreadHasSession ==
    thread /\ session = "none" =>
        \/ crossed
        \/ \E w \in Workers : /\ op[w] = "deleteThread"
                              /\ pc[w] = "dropThread" \/ outcome[w] = "failed"
=============================================================================
