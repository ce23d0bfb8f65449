------------------------------ MODULE Registry ------------------------------
(***************************************************************************)
(* The registries kept in Redis: agents, projects, skills, slash commands, *)
(* tool presets and MCP servers.  Each is a JSON record per entry and an   *)
(* index, the set of their ids.  There is no lock and no transaction:      *)
(* every call is a few Redis commands, and the commands of concurrent      *)
(* calls interleave.  A list drops from the index the ids whose record it  *)
(* did not find.                                                           *)
(*                                                                         *)
(* An entry has a fresh uuid and is not checked, but a project is created  *)
(* only if no listed one has its name or path, and an MCP server is keyed  *)
(* by its name, globally or per API key.                                   *)
(***************************************************************************)
EXTENDS Naturals

CONSTANTS
    Callers,     \* the calls made, one per caller; also the uuids they draw
    Names,       \* names (and paths, urls) given by clients; a server's key
    FsNames,     \* those that begin with "fs:", as the ids of entries in files do
    Seed,        \* the uuid of an entry that is there at the start
    Null

ASSUME CallersAssumption == Seed \notin Callers
ASSUME NamesAssumption == Names # {} /\ Names \cap (Callers \cup {Seed}) = {}
ASSUME FsNamesAssumption == FsNames \subseteq Names
ASSUME NullAssumption == Null \notin Callers \cup Names \cup {Seed}

Plain     == {"agent", "skill", "command", "preset"}
Kinds     == Plain \cup {"project", "server"}
Ops       == {"none", "create", "update", "share", "delete", "list"}
EntryKeys == Callers \cup {Seed} \cup Names
\* place stands for a project's path and for the url or command of a server.
Record == [name : Names, place : Names, shared : BOOLEAN]
ASSUME RecordAssumption == Null \notin Record
NoCall == [op |-> "none", key |-> Null, name |-> Null, place |-> Null]

VARIABLES
    kind,        \* which registry this is
    records,     \* the JSON record of each key, or Null
    index,       \* the index set
    command,     \* the next Redis command of each caller
    call,        \* what each caller asked for
    fetched,     \* the record it read, and will write back changed
    missing,     \* the ids its list found without a record and will drop
    after,       \* what follows its list
    known,       \* history: the keys clients have learnt
    expected,    \* history: the registry had each finished call been atomic
    contended,   \* history: keys on which two calls that write overlapped
    broken,      \* history: keys on which a call failed between two writes
    rivals       \* history: the creations that overlapped each one

store        == <<records, index>>
registryVars == <<kind, records, index, command, call, fetched, missing, after,
                  known, expected, contended, broken, rivals>>

Fresh(n, p) == [name |-> n, place |-> p, shared |-> FALSE]

\* An entry may be there already: any client knows it, and any name.
RegistryInit ==
    /\ kind \in Kinds
    /\ \E n, p \in Names, there \in BOOLEAN :
         LET key == IF kind = "server" THEN n ELSE Seed IN
         /\ index = IF there THEN {key} ELSE {}
         /\ records = [k \in EntryKeys |-> IF k \in index THEN Fresh(n, p) ELSE Null]
    /\ known = index \cup {n \in Names : kind = "server" \/ (kind = "skill" /\ n \in FsNames)}
    /\ command = [c \in Callers |-> "idle"]
    /\ call = [c \in Callers |-> NoCall]
    /\ fetched = [c \in Callers |-> Null]
    /\ missing = [c \in Callers |-> {}]
    /\ after = [c \in Callers |-> "done"]
    /\ expected = records
    /\ contended = {} /\ broken = {}
    /\ rivals = [c \in Callers |-> {}]

(***************************************************************************)
(* The requests a caller can make.                                         *)
(***************************************************************************)
Creations(c) ==
    {[op |-> "create", key |-> IF kind = "server" THEN n ELSE c,
      name |-> n, place |-> p] : n \in Names, p \in Names}

Changes(k) ==
    {[op |-> "update", key |-> k, name |-> n, place |-> n] : n \in Names}

Others(k) ==
    {[op |-> o, key |-> k, name |-> Null, place |-> Null] : o \in {"delete", "share"}}

\* What the routes of each registry let through for an entry they are given the
\* id of.  A server may be created under a name that no route will then change.
AgentRoutes(k)   == {"update", "delete", "share"}
ProjectRoutes(k) == {"update", "delete"}
SkillRoutes(k)   == {o \in {"update", "delete"} : k \notin FsNames}
CommandRoutes(k) == {"update", "delete"}
PresetRoutes(k)  == {"update", "delete"}
ServerRoutes(k)  == {o \in {"update", "delete"} : k \notin FsNames}

Offered(k) == CASE kind = "agent"   -> AgentRoutes(k)   [] kind = "project" -> ProjectRoutes(k)
                [] kind = "skill"   -> SkillRoutes(k)   [] kind = "command" -> CommandRoutes(k)
                [] kind = "preset"  -> PresetRoutes(k)  [] kind = "server"  -> ServerRoutes(k)

Requests(c) ==
    Creations(c) \cup {[NoCall EXCEPT !.op = "list"]}
    \cup UNION {{r \in Changes(k) \cup Others(k) : r.op \in Offered(k)} : k \in known}

\* The first command of each call.
FirstStep(op) ==
    CASE op = "create" -> (CASE kind \in Plain  -> "writing"
                             [] kind = "project" -> "listing"
                             [] kind = "server"  -> "checking")
      [] op \in {"update", "share"} -> "fetching"
      [] op = "delete"              -> "unindexing"
      [] op = "list"                -> "listing"

Reach(c, step) == command' = [command EXCEPT ![c] = step]

Begin(c) ==
    /\ command[c] = "idle"
    /\ \E r \in Requests(c) :
         /\ call' = [call EXCEPT ![c] = r]
         /\ Reach(c, FirstStep(r.op))
         /\ after' = [after EXCEPT ![c] =
                        IF r.op = "create" THEN "writing" ELSE "done"]
    /\ UNCHANGED <<store, fetched, missing, known, expected, broken>>

(***************************************************************************)
(* Listing: the index, the records of its ids in one MGET, then one SREM   *)
(* for each id whose record is not there.                                  *)
(***************************************************************************)
ReadIndex(c) ==
    /\ command[c] = "listing"
    /\ IF index = {} THEN Reach(c, after[c]) ELSE Reach(c, "loading")
    /\ missing' = [missing EXCEPT ![c] = index]
    /\ UNCHANGED <<store, call, fetched, after, known, expected, broken>>

\* Mutant: only the name of a new project is compared.
TakenName(c, found) == \E k \in found : records[k].name = call[c].name

\* A project is refused when a listed one has its name or its path.
Taken(c, found) ==
    \E k \in found : \/ records[k].name = call[c].name
                     \/ records[k].place = call[c].place

ReadRecords(c) ==
    LET found == {k \in missing[c] : records[k] # Null}
        step  == IF after[c] = "writing" /\ Taken(c, found) THEN "done" ELSE after[c]
    IN
    /\ command[c] = "loading"
    /\ missing' = [missing EXCEPT ![c] = @ \ found]
    /\ after' = [after EXCEPT ![c] = step]
    /\ Reach(c, IF missing'[c] = {} THEN step ELSE "healing")
    /\ UNCHANGED <<store, call, fetched, known, expected, broken>>

\* Mutant: one dead id, and the whole index is dropped.
HealAll(c) ==
    /\ command[c] = "healing"
    /\ index' = {}
    /\ missing' = [missing EXCEPT ![c] = {}]
    /\ Reach(c, after[c])
    /\ UNCHANGED <<records, call, fetched, after, known, expected, broken>>

Heal(c) ==
    /\ command[c] = "healing"
    /\ \E k \in missing[c] :
         /\ index' = index \ {k}
         /\ missing' = [missing EXCEPT ![c] = @ \ {k}]
    /\ Reach(c, IF missing'[c] = {} THEN after[c] ELSE "healing")
    /\ UNCHANGED <<records, call, fetched, after, known, expected, broken>>

(***************************************************************************)
(* Creating: the record, then its id in the index.                         *)
(***************************************************************************)
Check(c) ==
    /\ command[c] = "checking"
    /\ Reach(c, IF records[call[c].key] = Null THEN "writing" ELSE "done")
    /\ UNCHANGED <<store, call, fetched, missing, after, known, expected, broken>>

NewRecord(c) == Fresh(call[c].name, call[c].place)

WriteNew(c) ==
    /\ command[c] = "writing"
    /\ records' = [records EXCEPT ![call[c].key] = NewRecord(c)]
    /\ Reach(c, "indexing")
    /\ UNCHANGED <<index, call, fetched, missing, after, known, expected, broken>>

AddToIndex(c) ==
    /\ command[c] = "indexing"
    /\ index' = index \cup {call[c].key}
    /\ known' = known \cup {call[c].key}
    /\ expected' = [expected EXCEPT ![call[c].key] = NewRecord(c)]
    /\ Reach(c, "done")
    /\ UNCHANGED <<records, call, fetched, missing, after, broken>>

(***************************************************************************)
(* Updating and sharing: read the record, write all of it back.            *)
(***************************************************************************)
Fetch(c) ==
    /\ command[c] = "fetching"
    /\ fetched' = [fetched EXCEPT ![c] = records[call[c].key]]
    /\ Reach(c, IF fetched'[c] = Null THEN "done" ELSE "storing")
    /\ UNCHANGED <<store, call, missing, after, known, expected, broken>>

\* Mutant: an update builds the record anew, unshared.
ChangedUnshared(r, request) ==
    IF request.op = "share" THEN [r EXCEPT !.shared = TRUE]
    ELSE Fresh(request.name, r.place)

SharedCopy(r) == [name |-> r.name, place |-> r.place, shared |-> TRUE]

\* A server keeps its name, an agent and a project take the new one; a
\* project keeps its path.
Changed(r, request) ==
    IF request.op = "share" THEN SharedCopy(r)
    ELSE IF kind = "server" THEN [r EXCEPT !.place = request.place]
    ELSE [r EXCEPT !.name = request.name]

\* What a change promises: it sets its own field and leaves the others.
Promised(e, request) ==
    LET updates == request.op = "update" IN
    [name   |-> IF updates /\ kind # "server" THEN request.name ELSE e.name,
     place  |-> IF updates /\ kind = "server" THEN request.place ELSE e.place,
     shared |-> e.shared \/ request.op = "share"]

Store(c) ==
    LET k == call[c].key IN
    /\ command[c] = "storing"
    /\ records' = [records EXCEPT ![k] = Changed(fetched[c], call[c])]
    /\ expected' = [expected EXCEPT ![k] =
                      IF @ = Null THEN Null ELSE Promised(@, call[c])]
    /\ Reach(c, "done")
    /\ UNCHANGED <<index, call, fetched, missing, after, known, broken>>

(***************************************************************************)
(* Deleting: the id out of the index, then the record.                     *)
(***************************************************************************)
\* Mutant: the record goes before its id.
EraseFirst(c) ==
    /\ command[c] = "unindexing"
    /\ records' = [records EXCEPT ![call[c].key] = Null]
    /\ Reach(c, "erasing")
    /\ UNCHANGED <<index, call, fetched, missing, after, known, expected, broken>>

Unindex(c) ==
    /\ command[c] = "unindexing"
    /\ index' = index \ {call[c].key}
    /\ Reach(c, "erasing")
    /\ UNCHANGED <<records, call, fetched, missing, after, known, expected, broken>>

Erase(c) ==
    /\ command[c] = "erasing"
    /\ records' = [records EXCEPT ![call[c].key] = Null]
    /\ expected' = [expected EXCEPT ![call[c].key] = Null]
    /\ Reach(c, "done")
    /\ UNCHANGED <<index, call, fetched, missing, after, known, broken>>

\* A Redis command raises, or the request is cancelled: the rest is not done.
Fail(c) ==
    /\ command[c] \notin {"idle", "done"}
    /\ Reach(c, "done")
    /\ broken' = IF command[c] \in {"indexing", "erasing"}
                  THEN broken \cup {call[c].key} ELSE broken
    /\ UNCHANGED <<store, call, fetched, missing, after, known, expected>>

(***************************************************************************)
(* Which calls overlap: the keys a call in progress writes or will, and    *)
(* the project creations in progress.                                      *)
(***************************************************************************)
Active(c) == command[c] \notin {"idle", "done"}

Touched(c) ==
    IF ~Active(c) THEN {}
    ELSE ({call[c].key} \ {Null}) \cup (IF command[c] = "healing" THEN missing[c] ELSE {})

Contention ==
    {k \in EntryKeys : \E c, d \in Callers : c # d /\ k \in Touched(c) \cap Touched(d)}

Creating(c) == Active(c) /\ kind = "project" /\ call[c].op = "create"

Observe ==
    /\ kind' = kind
    /\ contended' = contended \cup Contention'
    /\ rivals' = [c \in Callers |-> rivals[c] \cup
                    {d \in Callers \ {c} : (Creating(c) /\ Creating(d))'}]

Step(c) ==
    \/ Begin(c) \/ ReadIndex(c) \/ ReadRecords(c) \/ Heal(c)
    \/ Check(c) \/ WriteNew(c) \/ AddToIndex(c)
    \/ Fetch(c) \/ Store(c) \/ Unindex(c) \/ Erase(c) \/ Fail(c)

RegistryNext == \E c \in Callers : Step(c) /\ Observe

RegistrySpec == RegistryInit /\ [][RegistryNext]_registryVars

-----------------------------------------------------------------------------
(***************************************************************************)
(* Properties.                                                             *)
(***************************************************************************)
\* The types of the variables.
RegistryTypeOK ==
    /\ kind \in Kinds
    /\ records \in [EntryKeys -> Record \cup {Null}]
    /\ index \subseteq known /\ known \subseteq EntryKeys
    /\ command \in [Callers -> {"idle", "done", "listing", "loading", "healing",
                 "checking", "writing", "indexing", "fetching", "storing",
                 "unindexing", "erasing"}]
    /\ call \in [Callers -> [op : Ops, key : EntryKeys \cup {Null},
                              name : Names \cup {Null}, place : Names \cup {Null}]]
    /\ fetched \in [Callers -> Record \cup {Null}]
    /\ missing \in [Callers -> SUBSET EntryKeys]
    /\ after \in [Callers -> {"writing", "done"}]
    /\ expected \in [EntryKeys -> Record \cup {Null}]
    /\ contended \subseteq EntryKeys /\ broken \subseteq EntryKeys
    /\ rivals \in [Callers -> SUBSET Callers]

\* Whatever interleaves and whatever fails half-way, the index of agents and
\* projects names no entry without a record: a record is written before its id
\* is listed and unlisted before it is erased.  Only a server's name can, when a
\* creation and a deletion of that name overlapped.
EntriesHaveRecords ==
    \A k \in index : records[k] # Null \/ (kind = "server" /\ k \in contended)

\* Once all calls are over, an entry whose calls did not overlap, none failing
\* between its two writes, is what those calls make one after the other: a
\* deleted one is gone from the index and as a record, a created one is in both,
\* and an update keeps it shared.  Lists and calls on other entries never matter.
SequentialWhenAlone ==
    (\A c \in Callers : ~Active(c)) =>
        \A k \in EntryKeys \ (contended \cup broken) :
            /\ records[k] = expected[k]
            /\ k \in index <=> expected[k] # Null

\* An entry leaves the index because it is being deleted, or because a list
\* found it dead and it still is.  Only a server's name can come back to life
\* between the list's two steps and be dropped alive.
DroppedWhenDead ==
    [][\A k \in index \ index' :
          \/ records[k] = Null
          \/ \E c \in Callers : command[c] = "unindexing" /\ call[c].key = k
          \/ kind = "server" /\ k \in contended]_registryVars

Rivals(j, k)   == j \in Callers /\ k \in Callers /\ j \in rivals[k]
UpdatedOnce(k) == \E c \in Callers : call[c].op = "update" /\ call[c].key = k

\* Two listed projects have different paths unless their creations overlapped,
\* and different names unless, besides, one of them was updated: the check for
\* duplicates and the creation are separate steps, and an update checks nothing.
ProjectsDiffer ==
    kind = "project" =>
        \A j, k \in index : j # k /\ ~Rivals(j, k) =>
            /\ records[j].place # records[k].place
            /\ \/ records[j].name # records[k].name
               \/ UpdatedOnce(j) \/ UpdatedOnce(k)
=============================================================================
