----------------------------- MODULE QueryConfig -----------------------------
(***************************************************************************)
(* What a query is run with: the MCP servers of the request, of the files  *)
(* the enrichment of POST /query discovers, of the application's file and  *)
(* of the API key's registry in Redis, put together between awaits while   *)
(* files and registry change; and the session the SDK is told to resume.   *)
(* A server is its name, where it comes from and whether the schema        *)
(* accepts it; its command, arguments and secrets are left out.            *)
(***************************************************************************)
EXTENDS Webhooks

CONSTANTS
    Queries,      \* the queries made; each answers on a session of its name
    Names,        \* names of MCP servers
    Plans,        \* what a behaviour starts with: see ConfigInit
    Changed,      \* bound: the entries a change of a file writes
    Parent,       \* the session a resume or a fork names
    Odd, None

Discovered == {"global", "mcpJson", "claudeJson"}
Files      == Discovered \cup {"app"}
Entries    == {"none", "good", "bad", "var"}
Kept       == {"none", "on", "off", "bad"}

ASSUME ConfigAssumption ==
    /\ Parent \notin Queries /\ None \notin Queries \cup {Parent} /\ Changed \subseteq Entries

Tiers == Files \cup {"key", "request"}
ASSUME PlansAssumption ==
    /\ \A plan \in Plans : /\ plan.asked \subseteq (SUBSET Names) \cup {None}
                           /\ plan.record \in [Names -> Kept]
    /\ \A S \in SUBSET Names : None \notin [S -> Tiers]

VARIABLES
    file,         \* Names -> Entries of each file, or Odd: a file no reader expects
    variable,     \* whether the environment has the variable "var" entries name
    record, index,\* of the API key in Redis: mcp_server:<key>:<name>, mcp_servers:index:<key>
    editing,      \* the registry call between its two writes: <<what, name>> or None
    edits,        \* bound: the changes still to come
    parent,       \* whether the session to resume or fork is there
    entry,        \* the route of each query
    asked,        \* its mcp_servers: None or a set of names
    qstep,        \* what it does next
    servers,      \* its mcp_servers as they become: None or [names -> where from]
    patterns,     \* the names whose tools it is allowed
    appRead,      \* the application's servers its injection loaded, None before
    names, found, \* of the registry: the index it read, and the records
    kept,         \* the application's servers the connection's loader keeps, or None
    recalled,     \* queries whose system prompt has memories added
    resume,       \* the session the SDK is told to resume, None for a fresh one
    broke,        \* queries whose injection raised
    was, lasted   \* history: what was in files and registry at any time, and all the time

sourceVars == <<file, variable, record, index, editing, edits, parent>>
queryVars  == <<entry, asked, qstep, servers, patterns, appRead, names, found, kept,
                recalled, resume, broke>>
configVars == <<sourceVars, queryVars, was, lasted>>

\* The registry lists a server when the index names it and its record is there.
Listed(n) == IF n \in index THEN record[n] ELSE "none"
Facts == {<<f, n, file[f][n]>> : f \in {g \in Files : file[g] # Odd}, n \in Names}
         \cup {<<f, "odd", "odd">> : f \in {g \in Files : file[g] = Odd}}
         \cup {<<"key", n, Listed(n)>> : n \in Names}
Seen  == Facts \cup {<<"key", n, record[n]>> : n \in Names}

ConfigInit(plan) ==
    /\ file = plan.file /\ variable = plan.variable
    /\ record = plan.record /\ index = {n \in Names : plan.record[n] # "none"}
    /\ editing = None /\ edits = plan.edits
    /\ parent = TRUE
    /\ entry \in plan.entries
    /\ asked \in [Queries -> plan.asked]
    /\ \A q \in Queries : entry[q] \notin {"http", "socket"} => asked[q] = None
    /\ qstep = [q \in Queries |-> "idle"]
    /\ servers = [q \in Queries |-> None]
    /\ patterns = [q \in Queries |-> {}]
    /\ appRead = [q \in Queries |-> None]
    /\ names = [q \in Queries |-> {}]
    /\ found = [q \in Queries |-> None]
    /\ kept = None
    /\ resume = [q \in Queries |-> None]
    /\ recalled = {} /\ broke = {}
    /\ was = [q \in Queries |-> {}] /\ lasted = [q \in Queries |-> {}]

InStep(q, step)  == qstep[q] = step
GoOn(q, step)    == qstep' = [qstep EXCEPT ![q] = step]
Over             == {"idle", "ready", "refused", "cancelled"}
Socket           == {q \in Queries : entry[q] = "socket"}

----------------------------------------------------------------------------
(* The routes *)

\* The connection's earlier prompts count for a later one: its loader is theirs.
BeginQuery(q) ==
    /\ InStep(q, "idle") /\ entry[q] # "none"
    /\ q \in Socket => \A p \in Socket : qstep[p] \in Over
    /\ servers' = [servers EXCEPT ![q] = IF asked[q] = None THEN None
                                         ELSE [n \in asked[q] |-> "request"]]
    /\ was' = [was EXCEPT ![q] = Seen \cup IF q \in Socket THEN UNION {was[p] : p \in Socket} ELSE {}]
    /\ lasted' = [lasted EXCEPT ![q] =
                    {x \in Facts : q \in Socket =>
                        \A p \in Socket : qstep[p] # "idle" => x \in lasted[p]}]
    /\ GoOn(q, CASE entry[q] = "http" -> "enrich"
                 [] entry[q] \in {"resume", "fork"} -> "lookup"
                 [] OTHER -> "inject")
    /\ UNCHANGED <<sourceVars, entry, asked, patterns, appRead, names, found, kept, resume, broke, recalled>>

\* resume_session and fork_session look for the session; a fork then makes one.
Lookup(q) ==
    /\ InStep(q, "lookup")
    /\ GoOn(q, IF ~parent THEN "refused" ELSE IF entry[q] = "fork" THEN "child" ELSE "inject")
    /\ UNCHANGED <<sourceVars, entry, asked, servers, patterns, appRead, names, found, kept,
                   resume, broke, was, lasted, recalled>>

CreateChild(q) ==
    /\ InStep(q, "child")
    /\ GoOn(q, "inject")
    /\ UNCHANGED <<sourceVars, entry, asked, servers, patterns, appRead, names, found, kept,
                   resume, broke, was, lasted, recalled>>

----------------------------------------------------------------------------
(* QueryEnrichmentService *)

Accepted(e) == e \in {"good", "on"} \/ (e = "var" /\ variable)

\* The last file that names a server gives it, also one the schema then refuses;
\* a file of another shape than expected raises, and no server is discovered.
LastOf(n) == IF file["claudeJson"][n] # "none" THEN "claudeJson"
             ELSE IF file["mcpJson"][n] # "none" THEN "mcpJson" ELSE "global"

Discover ==
    IF \E f \in Discovered : file[f] = Odd THEN [n \in {} |-> None]
    ELSE [n \in {m \in Names : file[LastOf(m)][m] = "good"} |-> LastOf(n)]

\* Mutant of MergeDiscovered: what is discovered goes over what is asked for.
MergeUnder(mine, theirs) ==
    [n \in DOMAIN mine \cup DOMAIN theirs |-> IF n \in DOMAIN mine THEN mine[n] ELSE theirs[n]]

\* merged = dict(configured); merged.update(query.mcp_servers)
MergeDiscovered(mine, theirs) ==
    [n \in DOMAIN mine \cup DOMAIN theirs |-> IF n \in DOMAIN theirs THEN theirs[n] ELSE mine[n]]

Given(q) == IF servers[q] = None THEN [n \in {} |-> None] ELSE servers[q]

\* enrich_query: an empty result leaves the request as it is.
Enrich(q) ==
    /\ InStep(q, "enrich")
    /\ LET merged == MergeDiscovered(Discover, Given(q)) IN
       servers' = IF DOMAIN merged = {} THEN servers ELSE [servers EXCEPT ![q] = merged]
    /\ GoOn(q, "inject")
    /\ UNCHANGED <<sourceVars, entry, asked, patterns, appRead, names, found, kept, resume,
                   broke, was, lasted, recalled>>

----------------------------------------------------------------------------
(* McpConfigInjector *)

InjectionOver(q)   == GoOn(q, "memory") /\ UNCHANGED resume
InjectionRaises(q) == InjectionOver(q) /\ broke' = broke \cup {q} /\ UNCHANGED <<servers, patterns>>

\* A connection's loader reads the file once; any other is made for its query.
Loaded(q) == IF q \in Socket /\ kept # None THEN kept ELSE file["app"]

\* inject, up to its first await: an empty request opts out.
LoadApplication(q) ==
    /\ InStep(q, "inject")
    /\ IF servers[q] # None /\ DOMAIN Given(q) = {}
       THEN InjectionOver(q) /\ UNCHANGED <<servers, patterns, appRead, kept, broke>>
       ELSE IF Loaded(q) = Odd
       THEN InjectionRaises(q) /\ UNCHANGED <<appRead, kept>>
       ELSE /\ appRead' = [appRead EXCEPT ![q] = Loaded(q)]
            /\ kept' = IF q \in Socket THEN Loaded(q) ELSE kept
            /\ GoOn(q, "index")
            /\ UNCHANGED <<servers, patterns, resume, broke>>
    /\ UNCHANGED <<sourceVars, entry, asked, names, found, was, lasted, recalled>>

\* list_servers_for_api_key: the index, then the records, then the names without
\* a record are dropped from the index, one by one.
ReadIndex(q) ==
    /\ InStep(q, "index")
    /\ names' = [names EXCEPT ![q] = index]
    /\ found' = [found EXCEPT ![q] = [n \in Names |-> "none"]]
    /\ GoOn(q, IF index = {} THEN "merge" ELSE "records")
    /\ UNCHANGED <<sourceVars, entry, asked, servers, patterns, appRead, kept, resume, broke,
                   was, lasted, recalled>>

ReadRecords(q) ==
    /\ InStep(q, "records")
    /\ found' = [found EXCEPT ![q] = [n \in Names |-> IF n \in names[q] THEN record[n] ELSE "none"]]
    /\ names' = [names EXCEPT ![q] = {n \in @ : record[n] = "none"}]
    /\ GoOn(q, IF \E n \in names[q] : record[n] = "none" THEN "heal" ELSE "merge")
    /\ UNCHANGED <<sourceVars, entry, asked, servers, patterns, appRead, kept, resume, broke,
                   was, lasted, recalled>>

\* What the history of a query in progress becomes when the sources change.
Witness(facts, seen) ==
    LET busy(q) == qstep[q] \notin {"idle", "cancelled", "refused"} /\ (qstep[q] = "ready" => q \in Socket)
    IN /\ was' = [q \in Queries |-> IF busy(q) THEN was[q] \cup seen ELSE was[q]]
       /\ lasted' = [q \in Queries |-> IF busy(q) THEN lasted[q] \cap facts ELSE lasted[q]]

HealIndex(q) ==
    /\ InStep(q, "heal")
    /\ \E n \in names[q] :
          /\ index' = index \ {n}
          /\ names' = [names EXCEPT ![q] = @ \ {n}]
          /\ GoOn(q, IF names[q] = {n} THEN "merge" ELSE "heal")
    /\ UNCHANGED <<file, variable, record, editing, edits, parent, entry, asked, servers,
                   patterns, appRead, found, kept, resume, broke, recalled>>
    /\ Witness(Facts', Seen')

\* Mutant of ServerSide: the application's servers go over the key's.
ServerSideSwapped(app, key) ==
    [n \in {m \in Names : app[m] # "none" \/ key[m] \in {"on", "bad"}} |->
       IF app[n] # "none" THEN "app" ELSE "key"]

\* {**application_config, **api_key_config}: a record that is switched off is not
\* there, one the schema refuses is, and hides the application's.
ServerSide(app, key) ==
    [n \in {m \in Names : app[m] # "none" \/ key[m] \in {"on", "bad"}} |->
       IF key[n] \in {"on", "bad"} THEN "key" ELSE "app"]

\* The servers of a request replace all others; what the schema refuses is left
\* out; each server's tools are allowed.
Merge(q) ==
    /\ InStep(q, "merge")
    /\ LET side   == ServerSide(appRead[q], found[q])
           ok(n)  == Accepted(IF side[n] = "key" THEN found[q][n] ELSE appRead[q][n])
           merged == IF servers[q] # None THEN servers[q]
                     ELSE [n \in {m \in DOMAIN side : ok(m)} |-> side[n]]
       IN /\ servers' = [servers EXCEPT ![q] = merged]
          /\ patterns' = [patterns EXCEPT ![q] = DOMAIN merged]
    /\ InjectionOver(q)
    /\ UNCHANGED <<sourceVars, entry, asked, appRead, names, found, kept, recalled, broke, was, lasted>>

\* Redis raises: the request goes on as it was.
InjectionFails(q) ==
    /\ qstep[q] \in {"index", "records", "heal"}
    /\ InjectionRaises(q)
    /\ UNCHANGED <<sourceVars, entry, asked, appRead, names, found, kept, was, lasted, recalled>>

(***************************************************************************)
(* QueryExecutor, up to the client it makes                                *)
(***************************************************************************)

\* What the search of the user's memories comes to: an empty list also when mem0
\* is denied permission.
SearchAnswers == {"memories", "nothing", "error"}

\* format_memory_context: nothing found adds nothing to the system prompt.
Adds(answer) == answer = "memories"

\* What a request may say of sessions: the two routes for a session say it for
\* the client, a socket has no flags, and POST /query takes any combination.
Continuations(q) ==
    CASE entry[q] = "resume" -> {[session |-> Parent, goesOn |-> TRUE, fork |-> FALSE]}
      [] entry[q] = "fork"   -> {[session |-> q, goesOn |-> FALSE, fork |-> TRUE]}
      [] entry[q] = "socket" -> [session : {Parent, None}, goesOn : {FALSE}, fork : {FALSE}]
      [] OTHER               -> [session : {Parent, None}, goesOn : BOOLEAN, fork : BOOLEAN]

\* continue_conversation without fork_session is asked first, and names no
\* session; a fork names the session it answers on.
Resumed(c) == IF c.goesOn /\ ~c.fork THEN None ELSE c.session

\* The options of the SDK are built from what there is.
Build(q) ==
    /\ GoOn(q, "ready")
    /\ \E c \in Continuations(q) : resume' = [resume EXCEPT ![q] = Resumed(c)]

\* A search that fails leaves the request as it is.
RecallMemory(q) ==
    /\ InStep(q, "memory")
    /\ \E answer \in SearchAnswers : recalled' = {p \in Queries : p \in recalled \/ (p = q /\ Adds(answer))}
    /\ Build(q)
    /\ UNCHANGED <<sourceVars, entry, asked, servers, patterns, appRead, names, found, kept,
                   broke, was, lasted>>

\* The client leaves, a new prompt replaces the old one, the instance stops.
CancelQuery(q) ==
    /\ qstep[q] \notin Over
    /\ GoOn(q, "cancelled")
    /\ UNCHANGED <<sourceVars, entry, asked, servers, patterns, appRead, names, found, kept,
                   resume, broke, was, lasted, recalled>>

----------------------------------------------------------------------------
(* Those who change the sources *)

Edit ==
    /\ edits > 0
    /\ edits' = edits - 1
    /\ \/ \E f \in Files, n \in Names, e \in Changed :
             /\ file' = [file EXCEPT ![f] = IF @ = Odd THEN [m \in Names |-> "none"]
                                            ELSE [@ EXCEPT ![n] = e]]
             /\ UNCHANGED <<record, index, editing, parent>>
       \/ \E n \in Names, k \in Kept \ {"none"} :    \* a record comes, its index follows
             /\ editing = None
             /\ record' = [record EXCEPT ![n] = k]
             /\ editing' = <<"add", n>>
             /\ UNCHANGED <<file, index, parent>>
       \/ \E n \in Names :                           \* the index goes, its record follows
             /\ editing = None /\ n \in index
             /\ index' = index \ {n}
             /\ editing' = <<"erase", n>>
             /\ UNCHANGED <<file, record, parent>>
       \/ parent /\ parent' = FALSE /\ UNCHANGED <<file, record, index, editing>>
    /\ UNCHANGED <<variable, queryVars>>
    /\ Witness(Facts', Seen')

FinishEdit ==
    /\ editing # None
    /\ IF editing[1] = "add"
       THEN index' = index \cup {editing[2]} /\ UNCHANGED record
       ELSE record' = [record EXCEPT ![editing[2]] = "none"] /\ UNCHANGED index
    /\ editing' = None
    /\ UNCHANGED <<file, variable, edits, parent, queryVars>>
    /\ Witness(Facts', Seen')

ConfigStep(q) ==
    \/ Lookup(q) \/ CreateChild(q) \/ Enrich(q) \/ LoadApplication(q) \/ ReadIndex(q)
    \/ ReadRecords(q) \/ HealIndex(q) \/ Merge(q) \/ InjectionFails(q) \/ RecallMemory(q)
    \/ CancelQuery(q)

ConfigNext == Edit \/ FinishEdit \/ \E q \in Queries : BeginQuery(q) \/ ConfigStep(q)

ConfigSpec == (\E plan \in Plans : ConfigInit(plan)) /\ [][ConfigNext]_configVars

----------------------------------------------------------------------------
(* Properties *)

Ready(q) == qstep[q] = "ready"
From(q, n) == IF n \in DOMAIN Given(q) THEN servers[q][n] ELSE "nowhere"

\* Whatever is discovered, injected or fails, a server the request names is the
\* request's own (query_enrichment.py 146-172, mcp_config_loader.py 292-302).
RequestWins ==
    \A q \in Queries : Ready(q) /\ asked[q] # None =>
        /\ asked[q] \subseteq DOMAIN Given(q)
        /\ \A n \in asked[q] : servers[q][n] = "request"

\* The request names no servers, none is discovered, and the injection went well.
ServerSideOnly(q) ==
    /\ asked[q] = None /\ q \notin broke
    /\ \A n \in DOMAIN Given(q) : From(q, n) \in {"app", "key"}

\* A query runs with no server that was nowhere while it was made - or, for the
\* application's file, while its connection was open; none of its server side
\* is missing that was there all along, unless the injection raised; the key's
\* server goes before the application's; and its tools are allowed
\* (mcp_config_injector.py 72-157).
ServersAreRight ==
    \A q \in Queries : Ready(q) =>
        /\ \A n \in DOMAIN Given(q) :
              \/ From(q, n) = "request" /\ n \in asked[q]
              \/ \E e \in Entries \cup Kept : <<From(q, n), n, e>> \in was[q] /\ Accepted(e)
        /\ patterns[q] = IF q \in broke THEN {} ELSE DOMAIN Given(q)
        /\ ServerSideOnly(q) =>
              \A n \in Names :
                 /\ <<"key", n, "on">> \in lasted[q] => From(q, n) = "key"
                 /\ (\E k \in {"none", "off"} : <<"key", n, k>> \in lasted[q])
                       /\ (\E e \in Entries : <<"app", n, e>> \in lasted[q] /\ Accepted(e))
                       => From(q, n) = "app"

\* What the API says of its routes: a resume continues an existing session
\* (API_ENDPOINTS.md 1730), a fork inherits the history of its parent.
ContinuesItsSession ==
    \A q \in Queries : Ready(q) /\ entry[q] = "resume" => resume[q] = Parent

\* What the API says of an empty mcp_servers: an explicit opt-out
\* (API_ENDPOINTS.md 1692).
OptOutIsHonoured ==
    \A q \in Queries : Ready(q) /\ asked[q] = {} => DOMAIN Given(q) = {}
=============================================================================
