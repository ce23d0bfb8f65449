--------------------------- MODULE ServiceProofs ---------------------------
(***************************************************************************)
(* The properties of the components MCService checks side by side, each    *)
(* for instances of any size: hooks, the lifetime, checkpoints, the        *)
(* servers of a query, and walks through the sessions.                     *)
(***************************************************************************)
EXTENDS QueryConfig, Checkpoints, SessionList, Lifetime, FiniteSetTheorems, TLAPS

----------------------------------------------------------------------------
(* Hooks *)

HookTyped ==
    /\ hook \in Hooks
    /\ hookStep \in {"idle", "posting", "answered", "parsing", "done", "gone"}
    /\ said \in Decisions \cup {"nothing"}

\* An answer is looked at only when there is one, and it is the webhook's.
HookInv ==
    /\ HookTyped
    /\ hookStep \in {"answered", "parsing"} => said # "nothing"
    /\ FailsClosed

LEMMA HookInvKept == HookInv /\ [HookNext]_hookVars => HookInv'
<1> SUFFICES ASSUME HookInv, [HookNext]_hookVars PROVE HookInv'
    OBVIOUS
<1> USE HooksAssumption DEF HookInv, HookTyped, FailsClosed, Applies, Tell, Decisions
<1>1. CASE AskHook
      BY <1>1 DEF AskHook
<1>2. CASE WebhookDecides
      BY <1>2 DEF WebhookDecides
<1>3. CASE PostFails
      BY <1>3 DEF PostFails, ErrorResponse
<1>4. CASE Answered
      BY <1>4 DEF Answered
<1>5. CASE CheckStatus
      BY <1>5 DEF CheckStatus, ErrorResponse
<1>6. CASE ParseAnswer
      BY <1>6 DEF ParseAnswer, ErrorResponse
<1>7. CASE HookCancelled
      BY <1>7 DEF HookCancelled
<1>8. CASE UNCHANGED hookVars
      BY <1>8 DEF hookVars
<1> QED BY <1>1, <1>2, <1>3, <1>4, <1>5, <1>6, <1>7, <1>8 DEF HookNext

\* A tool a webhook watches over is used only when that webhook said so, however
\* late, lost or broken its answer is (webhook.py 91-202).
THEOREM HooksFailClosed == HookSpec => []FailsClosed
<1>1. HookInit => HookInv
      BY DEF HookInit, HookInv, HookTyped, FailsClosed
<1>2. HookInv => FailsClosed
      BY DEF HookInv
<1> QED BY <1>1, <1>2, HookInvKept, PTL DEF HookSpec

----------------------------------------------------------------------------
(* Lifetime *)

\* Nothing is registered before the service serves nor after it began to stop;
\* the event, and the answer that all ended, mean that nothing is registered.
LifeInv ==
    /\ working \subseteq Handlers
    /\ \A h \in working : OwnSession(h) => serves[h] \in active
    /\ phase \in {"off", "pinging"} => working = {} /\ waited = "nothing"
    /\ phase \in {"waiting", "closing", "closed", "aborted"} => stopping = TRUE
    /\ event = TRUE => stopping = TRUE /\ active = {}
    /\ waited = "all ended" => stopping = TRUE /\ active = {}
    /\ phase \in {"closing", "closed", "aborted"} => waited \in {"all ended", "timeout"}
    /\ phase \in {"pinging", "serving", "waiting"} => clients = {"db", "cache"}
    /\ phase \in {"off", "pinging", "serving", "waiting", "closing", "closed", "aborted"}
    /\ stopping \in BOOLEAN /\ event \in BOOLEAN

LEMMA LifeInvKept == LifeInv /\ [LifeNext]_lifeVars => LifeInv'
<1> SUFFICES ASSUME LifeInv, [LifeNext]_lifeVars PROVE LifeInv'
    OBVIOUS
<1> USE DEF LifeInv, OwnSession
<1>1. CASE StartUp
      BY <1>1 DEF StartUp
<1>2. CASE PingAnswers
      BY <1>2 DEF PingAnswers
<1>3. ASSUME NEW h \in Handlers, Register(h) PROVE LifeInv'
      BY <1>3 DEF Register, Refuses
<1>4. ASSUME NEW h \in Handlers, Unregister(h) PROVE LifeInv'
      BY <1>4 DEF Unregister
<1>5. CASE ShutDown
      BY <1>5 DEF ShutDown
<1>6. CASE EndWait
      BY <1>6 DEF EndWait
<1>7. CASE CloseClient
      BY <1>7 DEF CloseClient
<1>8. CASE UNCHANGED lifeVars
      BY <1>8 DEF lifeVars
<1> QED BY <1>1, <1>2, <1>3, <1>4, <1>5, <1>6, <1>7, <1>8 DEF LifeNext

\* The shutdown takes no client from a session that is still registered unless
\* it waited in vain (shutdown.py 41-138).
THEOREM WaitIsTrue == LifeSpec => []WaitTellsTruth
<1>1. LifeInit => LifeInv
      BY DEF LifeInit, LifeInv, OwnSession
<1>2. LifeInv => WaitTellsTruth
      BY DEF LifeInv, WaitTellsTruth
<1> QED BY <1>1, <1>2, LifeInvKept, PTL DEF LifeSpec

----------------------------------------------------------------------------
(* Checkpoints *)

CkTyped ==
    /\ owner \in [Makers -> Sessions] /\ about \in [Makers -> Messages]
    /\ ckStep \in [Makers -> {"idle", "record", "read", "write", "index", "done", "skipped", "failed"}]
    /\ seen \in [Makers -> SUBSET Makers] /\ records \subseteq Makers
    /\ lists \in [Sessions -> SUBSET Makers]
    /\ byMessage \in [Messages -> Makers \cup {Nobody}]

\* Two creations of one session in progress know of each other.
KnownBeside ==
    \A m, n \in Makers :
        InProgress(m) /\ InProgress(n) /\ m # n /\ owner[m] = owner[n] => m \in overlapped

Recorded(m) == ckStep[m] \in {"read", "write", "index", "done"} /\ m \notin expired => m \in records

\* What is in the list is also in every copy of it that will be written back.
InList(m) ==
    ckStep[m] \in {"index", "done"} /\ m \notin overlapped \cup expired =>
        /\ m \in lists[owner[m]]
        /\ \A n \in Makers : n # m /\ owner[n] = owner[m] /\ ckStep[n] = "write" => m \in seen[n]

Indexed(m) ==
    /\ ckStep[m] = "done" /\ m \notin expired => byMessage[about[m]] # Nobody
    /\ \A u \in Messages : byMessage[u] = m => about[m] = u /\ m \in records \cup expired

CkInv == CkTyped /\ KnownBeside /\ \A m \in Makers : Recorded(m) /\ InList(m) /\ Indexed(m)

LEMMA CkInvKept == CkInv /\ [CheckpointNext]_ckVars => CkInv'
<1> SUFFICES ASSUME CkInv, [CheckpointNext]_ckVars PROVE CkInv'
    OBVIOUS
<1> USE CheckpointsAssumption
    DEF CkInv, CkTyped, KnownBeside, Recorded, InList, Indexed, InProgress, Then
<1>1. ASSUME NEW m \in Makers, BeginCheckpoint(m) PROVE CkInv'
      BY <1>1 DEF BeginCheckpoint
<1>2. ASSUME NEW m \in Makers, CacheCheckpoint(m) PROVE CkInv'
      BY <1>2 DEF CacheCheckpoint
<1>3. ASSUME NEW m \in Makers, ReadList(m) PROVE CkInv'
      BY <1>3 DEF ReadList
<1>4. ASSUME NEW m \in Makers, WriteList(m) PROVE CkInv'
      BY <1>4 DEF WriteList, Extended
<1>5. ASSUME NEW m \in Makers, CreateUuidIndex(m) PROVE CkInv'
      BY <1>5 DEF CreateUuidIndex
<1>6. ASSUME NEW m \in Makers, CheckpointFails(m) PROVE CkInv'
      BY <1>6 DEF CheckpointFails, Extended
<1>7. CASE ExpireCheckpoint
      BY <1>7 DEF ExpireCheckpoint
<1>8. CASE UNCHANGED ckVars
      BY <1>8 DEF ckVars
<1> QED BY <1>1, <1>2, <1>3, <1>4, <1>5, <1>6, <1>7, <1>8 DEF CheckpointNext

\* A checkpoint made alone stays in its session's list whatever is made before
\* or after it, as long as nothing of it expires (checkpoint.py 236-289).
THEOREM CheckpointsStayListed == CheckpointSpec => []CheckpointsListed
<1>1. CheckpointInit => CkInv
      BY CheckpointsAssumption
      DEF CheckpointInit, CkInv, CkTyped, KnownBeside, Recorded, InList, Indexed, InProgress
<1>2. CkInv => CheckpointsListed
  <2> SUFFICES ASSUME CkInv, NEW m \in Makers, ckStep[m] = "done", m \notin overlapped \cup expired
               PROVE  /\ m \in lists[owner[m]] /\ m \in records
                      /\ LET n == GetByMessage(about[m]) IN
                            IF n # Nobody THEN about[n] = about[m]
                            ELSE \E k \in expired : about[k] = about[m]
      BY DEF CheckpointsListed, ListCheckpoints, ValidateCheckpoint
  <2> DEFINE last == byMessage[about[m]]
  <2>1. m \in lists[owner[m]] /\ m \in records /\ last # Nobody
        BY DEF CkInv, InList, Recorded, Indexed
  <2>2. last \in Makers /\ about[m] \in Messages
        BY <2>1 DEF CkInv, CkTyped
  <2>3. about[last] = about[m] /\ last \in records \cup expired
        BY <2>2 DEF CkInv, Indexed
  <2> QED BY <2>1, <2>2, <2>3 DEF GetByMessage
<1> QED BY <1>1, <1>2, CkInvKept, PTL DEF CheckpointSpec

----------------------------------------------------------------------------
(* The servers of a query *)

ServerSets == UNION {[S -> Tiers] : S \in SUBSET Names}

ConfigTyped ==
    /\ asked \in [Queries -> (SUBSET Names) \cup {None}]
    /\ servers \in [Queries -> ServerSets \cup {None}]
    /\ qstep \in [Queries -> {"idle", "enrich", "lookup", "child", "inject", "index", "records",
                              "heal", "merge", "memory"} \cup Over]

\* From the first step on the servers asked for are among the query's, as its own.
Holds(q) ==
    qstep[q] # "idle" /\ asked[q] # None =>
        /\ servers[q] # None /\ asked[q] \subseteq DOMAIN servers[q]
        /\ \A n \in asked[q] : servers[q][n] = "request"

ConfigInv == ConfigTyped /\ \A q \in Queries : Holds(q)

\* A set of servers is not the absence of one.
LEMMA SetsAreThere == None \notin ServerSets
BY PlansAssumption DEF ServerSets

\* Merging gives a set of servers that has those of the second as they are.
LEMMA MergeKeeps ==
    ASSUME NEW mine \in ServerSets, NEW theirs \in ServerSets
    PROVE  LET merged == MergeDiscovered(mine, theirs) IN
           /\ merged \in ServerSets
           /\ DOMAIN theirs \subseteq DOMAIN merged
           /\ \A n \in DOMAIN theirs : merged[n] = theirs[n]
<1> DEFINE merged == MergeDiscovered(mine, theirs)
<1>1. PICK S \in SUBSET Names : mine \in [S -> Tiers]
      BY DEF ServerSets
<1>2. PICK T \in SUBSET Names : theirs \in [T -> Tiers]
      BY DEF ServerSets
<1>3. merged \in [S \cup T -> Tiers]
      BY <1>1, <1>2 DEF MergeDiscovered
<1>4. S \cup T \in SUBSET Names
      OBVIOUS
<1>5. merged \in ServerSets
      BY <1>3, <1>4 DEF ServerSets
<1> QED BY <1>1, <1>2, <1>5 DEF MergeDiscovered

\* What is discovered is a set of servers.
LEMMA DiscoverShape == Discover \in ServerSets
<1> DEFINE none  == [n \in {} |-> None]
           there == {m \in Names : file[LastOf(m)][m] = "good"}
           all   == [n \in there |-> LastOf(n)]
<1>1. none \in [{} -> Tiers]
      OBVIOUS
<1>2. all \in [there -> Tiers]
      BY DEF LastOf, Tiers, Files, Discovered
<1>3. {} \in SUBSET Names /\ there \in SUBSET Names
      OBVIOUS
<1>4. none \in ServerSets /\ all \in ServerSets
      BY <1>1, <1>2, <1>3 DEF ServerSets
<1> QED BY <1>4 DEF Discover

LEMMA GivenShape ==
    ASSUME ConfigTyped, NEW q \in Queries
    PROVE  Given(q) \in ServerSets /\ (servers[q] # None => Given(q) = servers[q])
<1>1. [n \in {} |-> None] \in [{} -> Tiers] /\ {} \in SUBSET Names
      OBVIOUS
<1>2. [n \in {} |-> None] \in ServerSets
      BY <1>1 DEF ServerSets
<1> QED BY <1>2 DEF Given, ConfigTyped

LEMMA ConfigInvKept == ConfigInv /\ [ConfigNext]_configVars => ConfigInv'
<1> SUFFICES ASSUME ConfigInv, [ConfigNext]_configVars PROVE ConfigInv'
    OBVIOUS
<1> USE DEF ConfigInv, ConfigTyped, Holds, InStep, GoOn, Over
<1>1. ASSUME NEW q \in Queries, BeginQuery(q) PROVE ConfigInv'
  <2> DEFINE own == IF asked[q] = None THEN None ELSE [n \in asked[q] |-> "request"]
  <2>1. servers' = [servers EXCEPT ![q] = own] /\ asked' = asked
        BY <1>1 DEF BeginQuery
  <2>2. asked[q] # None => own \in ServerSets
    <3> SUFFICES ASSUME asked[q] # None PROVE own \in ServerSets
        OBVIOUS
    <3>1. asked[q] \in SUBSET Names
          OBVIOUS
    <3>2. own \in [asked[q] -> Tiers]
          BY DEF Tiers
    <3> QED BY <3>1, <3>2 DEF ServerSets
  <2>3. servers' \in [Queries -> ServerSets \cup {None}]
        BY <2>1, <2>2
  <2>4. ConfigTyped'
        BY <1>1, <2>1, <2>3 DEF BeginQuery
  <2>5. ASSUME NEW p \in Queries PROVE Holds(p)'
    <3>1. CASE p = q
      <4>1. servers'[q] = own
            BY <2>1
      <4> QED BY <2>1, <2>2, <3>1, <4>1, SetsAreThere
    <3>2. CASE p # q
          BY <1>1, <2>1, <3>2 DEF BeginQuery
    <3> QED BY <3>1, <3>2
  <2> QED BY <2>4, <2>5
<1>2. ASSUME NEW q \in Queries, Enrich(q) PROVE ConfigInv'
  <2> DEFINE merged == MergeDiscovered(Discover, Given(q))
  <2>1. /\ merged \in ServerSets /\ DOMAIN Given(q) \subseteq DOMAIN merged
        /\ \A n \in DOMAIN Given(q) : merged[n] = Given(q)[n]
        BY MergeKeeps, DiscoverShape, GivenShape
  <2>2. servers' = servers \/ servers' = [servers EXCEPT ![q] = merged]
        BY <1>2 DEF Enrich
  <2>3. asked' = asked /\ qstep' = [qstep EXCEPT ![q] = "inject"] /\ qstep[q] = "enrich"
        BY <1>2 DEF Enrich
  <2>4. ConfigTyped'
        BY <2>1, <2>2, <2>3
  <2>5. ASSUME NEW p \in Queries PROVE Holds(p)'
    <3>1. CASE servers' = servers \/ p # q
          BY <2>2, <2>3, <3>1
    <3>2. CASE servers' = [servers EXCEPT ![q] = merged] /\ p = q
      <4> SUFFICES ASSUME asked[q] # None
                   PROVE  /\ merged # None /\ asked[q] \subseteq DOMAIN merged
                          /\ \A n \in asked[q] : merged[n] = "request"
          BY <2>3, <3>2
      <4>1. Given(q) = servers[q]
            BY <2>3, GivenShape
      <4> QED BY <2>1, <2>3, <4>1, SetsAreThere
    <3> QED BY <2>2, <3>1, <3>2
  <2> QED BY <2>4, <2>5
<1>3. ASSUME NEW q \in Queries, Merge(q) PROVE ConfigInv'
  <2> DEFINE side == ServerSide(appRead[q], found[q])
             ok(n) == Accepted(IF side[n] = "key" THEN found[q][n] ELSE appRead[q][n])
             kinds == [n \in {m \in DOMAIN side : ok(m)} |-> side[n]]
             merged == IF servers[q] # None THEN servers[q] ELSE kinds
  <2>1. servers' = [servers EXCEPT ![q] = merged] /\ asked' = asked
        BY <1>3 DEF Merge
  <2>2. qstep[q] = "merge" /\ qstep' = [qstep EXCEPT ![q] = "memory"]
        BY <1>3 DEF Merge, InjectionOver
  <2>3. /\ DOMAIN side \subseteq Names
        /\ \A n \in DOMAIN side : side[n] \in Tiers
        BY DEF ServerSide, Tiers, Files
  <2>4. kinds \in ServerSets
    <3>1. kinds \in [{m \in DOMAIN side : ok(m)} -> Tiers]
          BY <2>3
    <3>2. {m \in DOMAIN side : ok(m)} \in SUBSET Names
          BY <2>3
    <3> QED BY <3>1, <3>2 DEF ServerSets
  <2>5. merged \in ServerSets
        BY <2>4
  <2>6. ConfigTyped'
        BY <2>1, <2>2, <2>5
  <2>7. ASSUME NEW p \in Queries PROVE Holds(p)'
        BY <2>1, <2>2
  <2> QED BY <2>6, <2>7
<1>4. ASSUME NEW q \in Queries,
             \/ Lookup(q) \/ CreateChild(q) \/ LoadApplication(q) \/ ReadIndex(q)
             \/ ReadRecords(q) \/ HealIndex(q) \/ InjectionFails(q) \/ RecallMemory(q)
             \/ CancelQuery(q)
      PROVE  ConfigInv'
  <2>1. UNCHANGED <<servers, asked>>
        BY <1>4 DEF Lookup, CreateChild, LoadApplication, ReadIndex, ReadRecords, HealIndex,
                    InjectionFails, InjectionRaises, RecallMemory, CancelQuery
  <2>2. qstep[q] # "idle"
        BY <1>4 DEF Lookup, CreateChild, LoadApplication, ReadIndex, ReadRecords, HealIndex,
                    InjectionFails, RecallMemory, CancelQuery
  <2>3. \E step \in {"child", "inject", "index", "records", "heal", "merge", "memory"} \cup Over :
            qstep' = [qstep EXCEPT ![q] = step]
        BY <1>4 DEF Lookup, CreateChild, LoadApplication, ReadIndex, ReadRecords, HealIndex,
                    InjectionFails, InjectionRaises, InjectionOver, RecallMemory, Build, CancelQuery
  <2> QED BY <2>1, <2>2, <2>3
<1>5. CASE Edit \/ FinishEdit \/ UNCHANGED configVars
  <2>1. UNCHANGED <<asked, servers, qstep>>
        BY <1>5 DEF Edit, FinishEdit, configVars, queryVars
  <2> QED BY <2>1
<1> QED BY <1>1, <1>2, <1>3, <1>4, <1>5 DEF ConfigNext, ConfigStep

\* Whatever is discovered, injected, changes meanwhile or fails, a server the
\* request names is the request's own (query_enrichment.py 146-172).
THEOREM RequestsWin == ConfigSpec => []RequestWins
<1>1. (\E plan \in Plans : ConfigInit(plan)) => ConfigInv
  <2> SUFFICES ASSUME NEW plan \in Plans, ConfigInit(plan) PROVE ConfigInv
      OBVIOUS
  <2>1. asked \in [Queries -> (SUBSET Names) \cup {None}]
        BY PlansAssumption DEF ConfigInit
  <2> QED BY <2>1 DEF ConfigInit, ConfigInv, ConfigTyped, Holds, Over
<1>2. ConfigInv => RequestWins
  <2> SUFFICES ASSUME ConfigInv, NEW q \in Queries, Ready(q), asked[q] # None
               PROVE  asked[q] \subseteq DOMAIN Given(q) /\ \A n \in asked[q] : servers[q][n] = "request"
      BY DEF RequestWins
  <2> QED BY DEF ConfigInv, Holds, Ready, Given
<1> QED BY <1>1, <1>2, ConfigInvKept, PTL DEF ConfigSpec

----------------------------------------------------------------------------
(* The servers a query runs with are those that were there *)

UnderWay(q) == qstep[q] \notin Over
Values      == Entries \cup Kept

\* The history of a query knows what is there now, and keeps nothing that is not.
Follows(q) ==
    UnderWay(q) \/ (Ready(q) /\ q \in Socket) => Seen \subseteq was[q] /\ lasted[q] \subseteq Facts

\* The application's servers as a query may load them.
Shown(q, app) ==
    \A n \in Names :
        /\ <<"app", n, app[n]>> \in was[q]
        /\ \A e \in Values : <<"app", n, e>> \in lasted[q] => e = app[n]

\* One prompt of a connection at a time, and what its loader keeps was loaded for
\* one of them, whose history a later prompt takes over.
OnePrompt == \A p, q \in Socket : UnderWay(p) /\ UnderWay(q) => p = q
KeptShown ==
    kept # None =>
        /\ \E p \in Socket : qstep[p] # "idle" /\ Shown(p, kept)
        /\ \A q \in Socket : UnderWay(q) => Shown(q, kept)

\* The index names only records: whoever erases takes the name out first.
IndexedIsRecorded ==
    /\ index \subseteq Names /\ \A n \in index : record[n] # "none"
    /\ \/ editing = None
       \/ \E n \in Names : \/ editing = <<"add", n>> /\ record[n] # "none"
                           \/ editing = <<"erase", n>> /\ n \notin index

\* Before the injection ends a query has what was asked for and discovered only.
BeforeMerge(q) ==
    /\ qstep[q] \in {"idle", "enrich", "lookup", "child", "inject", "index", "records", "heal", "merge"}
         => patterns[q] = {} /\ q \notin broke
    /\ qstep[q] = "enrich" /\ asked[q] = None => servers[q] = None
    /\ qstep[q] \in {"enrich", "lookup", "child", "inject", "index", "records", "heal", "merge"}
         /\ asked[q] = None /\ servers[q] # None
         => DOMAIN servers[q] # {} /\ \A n \in DOMAIN servers[q] : servers[q][n] \in Discovered

\* Where each server of a query comes from.
Sourced(q) ==
    qstep[q] # "idle" /\ servers[q] # None => \A n \in DOMAIN servers[q] :
        \/ servers[q][n] = "request" /\ asked[q] # None /\ n \in asked[q]
        \/ \E e \in Values : <<servers[q][n], n, e>> \in was[q] /\ Accepted(e)

\* What the injection has read of the file and of the registry.
HasRead(q) ==
    /\ qstep[q] \in {"index", "records", "heal", "merge"} => Shown(q, appRead[q])
    /\ qstep[q] = "records" =>
         \A n \in Names, k \in Values :
            <<"key", n, k>> \in lasted[q] => (n \in names[q] <=> k # "none")
    /\ qstep[q] \in {"heal", "merge"} =>
         \A n \in Names :
            /\ found[q][n] # "none" => <<"key", n, found[q][n]>> \in was[q]
            /\ \A k \in Values : <<"key", n, k>> \in lasted[q] => found[q][n] = k

SideRight(q) ==
    ServerSideOnly(q) =>
        \A n \in Names :
           /\ <<"key", n, "on">> \in lasted[q] => From(q, n) = "key"
           /\ (\E k \in {"none", "off"} : <<"key", n, k>> \in lasted[q])
                 /\ (\E e \in Entries : <<"app", n, e>> \in lasted[q] /\ Accepted(e))
                 => From(q, n) = "app"

AfterMerge(q) ==
    qstep[q] \in {"memory", "ready"} =>
        /\ patterns[q] = IF q \in broke THEN {} ELSE DOMAIN Given(q)
        /\ SideRight(q)

OfQuery(q) == Follows(q) /\ BeforeMerge(q) /\ Sourced(q) /\ HasRead(q) /\ AfterMerge(q)

IsOfQueries(f) == f = [q \in Queries |-> f[q]]
QueryTables ==
    /\ IsOfQueries(patterns) /\ IsOfQueries(appRead) /\ IsOfQueries(names)
    /\ IsOfQueries(found) /\ IsOfQueries(was) /\ IsOfQueries(lasted)
    /\ record = [n \in Names |-> record[n]]

ServersInv ==
    /\ ConfigInv /\ QueryTables /\ OnePrompt /\ KeptShown /\ IndexedIsRecorded
    /\ \A q \in Queries : OfQuery(q)

\* What is there says of a name one thing only.
LEMMA FactsAre ==
    ASSUME NEW n \in Names
    PROVE  /\ file["app"] # Odd => <<"app", n, file["app"][n]>> \in Facts
           /\ file["app"] # Odd => \A e : <<"app", n, e>> \in Facts => e = file["app"][n]
           /\ \A k : <<"key", n, k>> \in Facts => k = Listed(n)
           /\ <<"key", n, record[n]>> \in Seen
           /\ \A f \in Discovered : file[f] # Odd => <<f, n, file[f][n]>> \in Facts
           /\ Facts \subseteq Seen
BY DEF Facts, Seen, Files, Discovered

\* A query keeps what is said of it as long as it does nothing and its history grows.
LEMMA Carried ==
    ASSUME NEW q \in Queries, OfQuery(q), UNCHANGED <<variable, asked, entry>>,
           qstep'[q] = qstep[q], servers'[q] = servers[q], patterns'[q] = patterns[q],
           appRead'[q] = appRead[q], names'[q] = names[q], found'[q] = found[q],
           q \in broke' <=> q \in broke,
           was[q] \subseteq was'[q], lasted'[q] \subseteq lasted[q], Follows(q)'
    PROVE  OfQuery(q)'
<1> USE DEF OfQuery
<1>1. BeforeMerge(q)'
      BY DEF BeforeMerge
<1>2. Sourced(q)'
      BY DEF Sourced, Accepted
<1>3. HasRead(q)'
      BY DEF HasRead, Shown
<1>4. AfterMerge(q)'
  <2>1. Given(q)' = Given(q) /\ \A n \in Names : From(q, n)' = From(q, n)
        BY DEF Given, From
  <2>2. SideRight(q) => SideRight(q)'
        BY <2>1 DEF SideRight, ServerSideOnly, From, Given, Accepted
  <2> QED BY <2>1, <2>2 DEF AfterMerge
<1> QED BY <1>1, <1>2, <1>3, <1>4

\* A step in which one query only does something, while nothing changes around it.
OnlyOf(q) ==
    /\ UNCHANGED <<sourceVars, entry, asked, was, lasted>>
    /\ \A p \in Queries \ {q} :
        /\ qstep'[p] = qstep[p] /\ servers'[p] = servers[p] /\ patterns'[p] = patterns[p]
        /\ appRead'[p] = appRead[p] /\ names'[p] = names[p] /\ found'[p] = found[p]
        /\ p \in broke' <=> p \in broke

LEMMA OthersCarried ==
    ASSUME \A p \in Queries : OfQuery(p), NEW q \in Queries, OnlyOf(q)
    PROVE  \A p \in Queries \ {q} : OfQuery(p)'
<1> SUFFICES ASSUME NEW p \in Queries \ {q} PROVE OfQuery(p)'
    OBVIOUS
<1>1. OfQuery(p) /\ p \in Queries
      OBVIOUS
<1>2. Follows(p)'
      BY DEF OnlyOf, OfQuery, Follows, UnderWay, Ready, Socket, Seen, Facts, Listed, sourceVars
<1>3. /\ UNCHANGED <<variable, asked, entry>>
      /\ qstep'[p] = qstep[p] /\ servers'[p] = servers[p] /\ patterns'[p] = patterns[p]
      /\ appRead'[p] = appRead[p] /\ names'[p] = names[p] /\ found'[p] = found[p]
      /\ p \in broke' <=> p \in broke
      /\ was[p] \subseteq was'[p] /\ lasted'[p] \subseteq lasted[p]
      BY DEF OnlyOf, sourceVars
<1> QED BY <1>1, <1>2, <1>3, Carried

\* What is said of the connection, of its loader and of the index stays true while a
\* query that is under way goes on.
LEMMA AroundKept ==
    ASSUME ServersInv, NEW q \in Queries, OnlyOf(q), UnderWay(q), qstep'[q] # "idle"
    PROVE  /\ OnePrompt' /\ IndexedIsRecorded' /\ (Follows(q)' \/ ~ Follows(q))
           /\ kept' = kept => KeptShown'
<1> USE DEF ServersInv, OnlyOf, sourceVars
<1>1. \A p \in Queries : UnderWay(p)' => UnderWay(p)
      BY DEF UnderWay
<1>2. \A p \in Queries : qstep[p] # "idle" => qstep'[p] # "idle"
      OBVIOUS
<1>3. Socket' = Socket /\ Socket \subseteq Queries
      BY DEF Socket
<1>4. OnePrompt'
      BY <1>1, <1>3 DEF OnePrompt
<1>5. IndexedIsRecorded'
      BY DEF IndexedIsRecorded
<1>6. Follows(q)' \/ ~ Follows(q)
      BY <1>1, <1>3 DEF Follows, UnderWay, Seen, Facts, Listed
<1>7. ASSUME kept' = kept PROVE KeptShown'
  <2>1. \A p \in Queries : Shown(p, kept)' <=> Shown(p, kept)
        BY <1>7 DEF Shown
  <2> QED BY <1>1, <1>2, <1>3, <1>7, <2>1 DEF KeptShown
<1> QED BY <1>4, <1>5, <1>6, <1>7

\* A step of a query under way keeps everything when it keeps what is said of itself.
LEMMA OwnStep ==
    ASSUME ServersInv, ConfigInv', NEW q \in Queries, OnlyOf(q), UnderWay(q), qstep'[q] # "idle",
           QueryTables', kept' = kept,
           Follows(q)' => BeforeMerge(q)' /\ Sourced(q)' /\ HasRead(q)' /\ AfterMerge(q)'
    PROVE  ServersInv'
<1>1. OnePrompt' /\ IndexedIsRecorded' /\ KeptShown' /\ (Follows(q)' \/ ~ Follows(q))
      BY AroundKept
<1>2. \A p \in Queries : OfQuery(p)
      BY DEF ServersInv
<1>3. \A p \in Queries \ {q} : OfQuery(p)'
      BY <1>2, OthersCarried
<1>4. OfQuery(q)'
      BY <1>1, <1>2 DEF OfQuery
<1> QED BY <1>1, <1>3, <1>4 DEF ServersInv

\* The steps of a query that neither load nor merge servers.
LEMMA PlainSteps ==
    ASSUME ServersInv, ConfigInv', NEW q \in Queries,
           Lookup(q) \/ CreateChild(q) \/ RecallMemory(q) \/ CancelQuery(q) \/ InjectionFails(q)
    PROVE  ServersInv'
<1> USE DEF InStep, GoOn
<1>1. /\ UNCHANGED <<sourceVars, entry, asked, was, lasted, servers, patterns, appRead, names, found, kept>>
      /\ broke' = broke \/ (InjectionFails(q) /\ broke' = broke \cup {q})
      BY DEF Lookup, CreateChild, RecallMemory, CancelQuery, InjectionFails, InjectionRaises
<1>2. \E step \in {"refused", "child", "inject", "ready", "cancelled", "memory"} :
         qstep' = [qstep EXCEPT ![q] = step]
      BY DEF Lookup, CreateChild, RecallMemory, CancelQuery, InjectionFails, InjectionRaises,
             InjectionOver, Build
<1>3. qstep \in [Queries -> {"idle", "enrich", "lookup", "child", "inject", "index", "records",
                              "heal", "merge", "memory"} \cup Over]
      BY DEF ServersInv, ConfigInv, ConfigTyped
<1>4. UnderWay(q)
      BY DEF Lookup, CreateChild, RecallMemory, CancelQuery, InjectionFails, UnderWay, Over
<1>5. OnlyOf(q) /\ qstep'[q] # "idle"
      BY <1>1, <1>2, <1>3 DEF OnlyOf
<1>6. QueryTables'
      BY <1>1 DEF ServersInv, QueryTables, IsOfQueries, sourceVars
<1>7. OfQuery(q)
      BY DEF ServersInv
<1>8. Given(q)' = Given(q) /\ variable' = variable
      BY <1>1 DEF Given, sourceVars
<1>9. BeforeMerge(q)' /\ Sourced(q)' /\ HasRead(q)' /\ AfterMerge(q)'
  <2> USE DEF OfQuery
  <2>1. CASE Lookup(q) \/ CreateChild(q)
    <3>1. /\ qstep[q] \in {"lookup", "child"} /\ qstep'[q] \in {"refused", "child", "inject"}
          /\ broke' = broke
          BY <2>1, <1>3 DEF Lookup, CreateChild
    <3> QED BY <1>1, <1>7, <1>8, <3>1 DEF BeforeMerge, Sourced, HasRead, AfterMerge, Accepted
  <2>2. CASE RecallMemory(q)
    <3>1. qstep[q] = "memory" /\ qstep'[q] = "ready" /\ broke' = broke
          BY <2>2, <1>3 DEF RecallMemory, Build
    <3>2. SideRight(q) => SideRight(q)'
          BY <1>1, <1>8, <3>1 DEF SideRight, ServerSideOnly, From, Accepted
    <3> QED BY <1>1, <1>7, <1>8, <3>1, <3>2 DEF BeforeMerge, Sourced, HasRead, AfterMerge, Accepted
  <2>3. CASE CancelQuery(q)
    <3>1. qstep[q] # "idle" /\ qstep'[q] = "cancelled"
          BY <2>3, <1>3 DEF CancelQuery, Over
    <3> QED BY <1>1, <1>7, <1>8, <3>1 DEF BeforeMerge, Sourced, HasRead, AfterMerge, Accepted
  <2>4. CASE InjectionFails(q)
    <3>1. /\ qstep[q] \in {"index", "records", "heal"} /\ qstep'[q] = "memory"
          /\ broke' = broke \cup {q}
          BY <2>4, <1>3 DEF InjectionFails, InjectionRaises, InjectionOver
    <3>2. SideRight(q)' /\ patterns[q] = {}
          BY <1>7, <3>1 DEF SideRight, ServerSideOnly, BeforeMerge
    <3> QED BY <1>1, <1>7, <1>8, <3>1, <3>2 DEF BeforeMerge, Sourced, HasRead, AfterMerge, Accepted
  <2> QED BY <2>1, <2>2, <2>3, <2>4
<1> QED BY <1>1, <1>4, <1>5, <1>6, <1>9, OwnStep

LEMMA EnrichStep ==
    ASSUME ServersInv, ConfigInv', NEW q \in Queries, Enrich(q)
    PROVE  ServersInv'
<1> USE DEF InStep, GoOn
<1> DEFINE merged == MergeDiscovered(Discover, Given(q))
<1>1. UNCHANGED <<sourceVars, entry, asked, was, lasted, patterns, appRead, names, found, kept, broke>>
      BY DEF Enrich
<1>2. ConfigTyped /\ QueryTables /\ OfQuery(q)
      BY DEF ServersInv, ConfigInv
<1>3. qstep[q] = "enrich" /\ qstep' = [qstep EXCEPT ![q] = "inject"]
      BY DEF Enrich
<1>4. qstep'[q] = "inject" /\ \A p \in Queries \ {q} : qstep'[p] = qstep[p]
      BY <1>2, <1>3 DEF ConfigTyped
<1>5. /\ \A p \in Queries \ {q} : servers'[p] = servers[p]
      /\ \/ servers'[q] = servers[q] /\ DOMAIN merged = {}
         \/ servers'[q] = merged /\ DOMAIN merged # {}
      BY <1>2 DEF Enrich, ConfigTyped
<1>6. UnderWay(q) /\ OnlyOf(q)
      BY <1>1, <1>3, <1>4, <1>5 DEF UnderWay, Over, OnlyOf
<1>7. QueryTables'
      BY <1>1, <1>2 DEF QueryTables, IsOfQueries, sourceVars
<1>8. /\ DOMAIN merged = DOMAIN Discover \cup DOMAIN Given(q)
      /\ \A n \in DOMAIN merged : merged[n] = IF n \in DOMAIN Given(q) THEN Given(q)[n] ELSE Discover[n]
      BY DEF MergeDiscovered
<1>9. \A n \in DOMAIN Discover :
         n \in Names /\ Discover[n] \in Discovered /\ <<Discover[n], n, "good">> \in was[q]
  <2>1. SUFFICES ASSUME NEW n \in DOMAIN Discover
                 PROVE  n \in Names /\ Discover[n] \in Discovered /\ <<Discover[n], n, "good">> \in was[q]
        OBVIOUS
  <2>2. /\ \A f \in Discovered : file[f] # Odd
        /\ n \in Names /\ file[LastOf(n)][n] = "good" /\ Discover[n] = LastOf(n)
        BY DEF Discover
  <2>3. LastOf(n) \in Discovered
        BY DEF LastOf, Discovered
  <2>4. <<LastOf(n), n, "good">> \in Seen
        BY <2>2, <2>3, FactsAre
  <2>5. Seen \subseteq was[q]
        BY <1>2, <1>6 DEF OfQuery, Follows
  <2> QED BY <2>2, <2>3, <2>4, <2>5
<1>10. servers[q] = None => DOMAIN Given(q) = {}
       BY DEF Given
<1>11. servers[q] # None => Given(q) = servers[q]
       BY DEF Given
<1>12. BeforeMerge(q) /\ Sourced(q)
       BY <1>2 DEF OfQuery
<1>13. BeforeMerge(q)'
  <2>1. asked[q] = None => servers[q] = None
        BY <1>3, <1>12 DEF BeforeMerge
  <2> QED BY <1>1, <1>3, <1>4, <1>5, <1>8, <1>9, <1>10, <1>12, <2>1 DEF BeforeMerge
<1>14. Sourced(q)'
  <2> SUFFICES ASSUME servers'[q] # None, NEW n \in DOMAIN servers'[q]
               PROVE  \/ servers'[q][n] = "request" /\ asked[q] # None /\ n \in asked[q]
                      \/ \E e \in Values : <<servers'[q][n], n, e>> \in was[q] /\ Accepted(e)
      BY <1>1 DEF Sourced, Accepted, sourceVars
  <2>1. CASE servers[q] # None /\ n \in DOMAIN servers[q]
    <3>1. servers'[q][n] = servers[q][n]
          BY <2>1, <1>5, <1>8, <1>11
    <3> QED BY <2>1, <3>1, <1>3, <1>12 DEF Sourced
  <2>2. CASE n \in DOMAIN Discover /\ n \notin DOMAIN Given(q)
    <3>1. servers'[q][n] = Discover[n]
          BY <2>2, <1>5, <1>8, <1>11
    <3>2. "good" \in Values /\ Accepted("good")
          BY DEF Values, Entries, Accepted
    <3> QED BY <2>2, <3>1, <3>2, <1>9
  <2> QED BY <2>1, <2>2, <1>5, <1>8, <1>10, <1>11
<1>15. HasRead(q)' /\ AfterMerge(q)'
       BY <1>4 DEF HasRead, AfterMerge
<1> QED BY <1>1, <1>4, <1>6, <1>7, <1>13, <1>14, <1>15, OwnStep

LEMMA LoadStep ==
    ASSUME ServersInv, ConfigInv', NEW q \in Queries, LoadApplication(q)
    PROVE  ServersInv'
<1> USE DEF InStep, GoOn
<1>1. UNCHANGED <<sourceVars, entry, asked, was, lasted, servers, patterns, names, found>>
      BY DEF LoadApplication, InjectionRaises
<1>2. ConfigTyped /\ QueryTables /\ OfQuery(q) /\ IndexedIsRecorded /\ OnePrompt /\ KeptShown
      BY DEF ServersInv, ConfigInv
<1>3. qstep[q] = "inject" /\ UnderWay(q)
      BY DEF LoadApplication, UnderWay, Over
<1>4. /\ BeforeMerge(q) /\ Sourced(q) /\ patterns[q] = {} /\ q \notin broke
      BY <1>2, <1>3 DEF OfQuery, BeforeMerge
<1>5. Given(q)' = Given(q) /\ (servers[q] # None => Given(q) = servers[q]) /\ variable' = variable
      BY <1>1 DEF Given, sourceVars
<1>6. CASE servers[q] # None /\ DOMAIN Given(q) = {}
  <2>1. UNCHANGED <<appRead, kept, broke>> /\ qstep' = [qstep EXCEPT ![q] = "memory"]
        BY <1>6 DEF LoadApplication, InjectionOver
  <2>2. qstep'[q] = "memory" /\ OnlyOf(q)
        BY <1>1, <1>2, <2>1 DEF OnlyOf, ConfigTyped
  <2>3. QueryTables'
        BY <1>1, <1>2, <2>1 DEF QueryTables, IsOfQueries, sourceVars
  <2>4. asked[q] # None
        BY <1>3, <1>4, <1>5, <1>6 DEF BeforeMerge
  <2>5. BeforeMerge(q)' /\ Sourced(q)' /\ HasRead(q)'
        BY <1>1, <1>3, <1>4, <1>5, <2>2 DEF BeforeMerge, Sourced, HasRead, Accepted
  <2>6. AfterMerge(q)'
        BY <1>1, <1>4, <1>5, <1>6, <2>1, <2>4 DEF AfterMerge, SideRight, ServerSideOnly
  <2> QED BY <1>3, <2>1, <2>2, <2>3, <2>5, <2>6, OwnStep
<1>7. CASE ~ (servers[q] # None /\ DOMAIN Given(q) = {}) /\ Loaded(q) = Odd
  <2>1. /\ UNCHANGED <<appRead, kept>> /\ broke' = broke \cup {q}
        /\ qstep' = [qstep EXCEPT ![q] = "memory"]
        BY <1>7 DEF LoadApplication, InjectionRaises, InjectionOver
  <2>2. qstep'[q] = "memory" /\ OnlyOf(q)
        BY <1>1, <1>2, <2>1 DEF OnlyOf, ConfigTyped
  <2>3. QueryTables'
        BY <1>1, <1>2, <2>1 DEF QueryTables, IsOfQueries, sourceVars
  <2>4. BeforeMerge(q)' /\ Sourced(q)' /\ HasRead(q)'
        BY <1>1, <1>3, <1>4, <1>5, <2>2 DEF BeforeMerge, Sourced, HasRead, Accepted
  <2>5. AfterMerge(q)'
        BY <1>1, <1>4, <2>1 DEF AfterMerge, SideRight, ServerSideOnly
  <2> QED BY <1>3, <2>1, <2>2, <2>3, <2>4, <2>5, OwnStep
<1>8. CASE ~ (servers[q] # None /\ DOMAIN Given(q) = {}) /\ Loaded(q) # Odd
  <2> DEFINE app == Loaded(q)
  <2>1. /\ appRead' = [appRead EXCEPT ![q] = app] /\ broke' = broke
        /\ kept' = IF q \in Socket THEN app ELSE kept
        /\ qstep' = [qstep EXCEPT ![q] = "index"]
        BY <1>8 DEF LoadApplication
  <2>2. /\ qstep'[q] = "index" /\ appRead'[q] = app
        /\ \A p \in Queries \ {q} : qstep'[p] = qstep[p] /\ appRead'[p] = appRead[p]
        BY <1>2, <2>1 DEF ConfigTyped, QueryTables, IsOfQueries
  <2>3. OnlyOf(q)
        BY <1>1, <2>1, <2>2 DEF OnlyOf
  <2>4. QueryTables'
        BY <1>1, <1>2, <2>1 DEF QueryTables, IsOfQueries, sourceVars
  <2>5. Shown(q, app)
    <3>1. CASE q \in Socket /\ kept # None
          BY <1>2, <1>3, <3>1 DEF Loaded, KeptShown
    <3>2. CASE ~ (q \in Socket /\ kept # None)
      <4>1. app = file["app"] /\ file["app"] # Odd
            BY <1>8, <3>2 DEF Loaded
      <4>2. Seen \subseteq was[q] /\ lasted[q] \subseteq Facts
            BY <1>2, <1>3 DEF OfQuery, Follows
      <4> QED BY <4>1, <4>2, FactsAre DEF Shown
    <3> QED BY <3>1, <3>2
  <2>6. \A p \in Queries : \A a : Shown(p, a)' <=> Shown(p, a)
        BY <1>1 DEF Shown
  <2>7. OnePrompt' /\ IndexedIsRecorded' /\ (kept' = kept => KeptShown') /\ (Follows(q)' \/ ~ Follows(q))
        BY <1>3, <2>2, <2>3, AroundKept
  <2>8. Socket' = Socket /\ Socket \subseteq Queries
        BY <1>1 DEF Socket
  <2>9. KeptShown'
    <3>1. CASE q \notin Socket
          BY <2>1, <2>7, <3>1
    <3>2. CASE q \in Socket
      <4>1. kept' = app
            BY <2>1, <3>2
      <4>2. Shown(q, kept)'
            BY <1>1, <2>5, <4>1 DEF Shown
      <4>3. UnderWay(q)'
            BY <2>2 DEF UnderWay, Over
      <4>4. \A p \in Socket : UnderWay(p)' => p = q
            BY <2>7, <2>8, <3>2, <4>3 DEF OnePrompt
      <4>5. qstep'[q] # "idle"
            BY <2>2
      <4> QED BY <2>8, <3>2, <4>2, <4>4, <4>5 DEF KeptShown
    <3> QED BY <3>1, <3>2
  <2>10. OfQuery(q)'
    <3>1. Follows(q)'
          BY <1>2, <2>7 DEF OfQuery
    <3>2. BeforeMerge(q)' /\ Sourced(q)'
          BY <1>1, <1>3, <1>4, <1>5, <2>1, <2>2 DEF BeforeMerge, Sourced, Accepted
    <3>3. HasRead(q)' /\ AfterMerge(q)'
          BY <2>2, <2>5, <2>6 DEF HasRead, AfterMerge
    <3> QED BY <3>1, <3>2, <3>3 DEF OfQuery
  <2>11. \A p \in Queries : OfQuery(p)'
         BY <2>3, <2>10, OthersCarried DEF ServersInv
  <2> QED BY <2>4, <2>7, <2>9, <2>11 DEF ServersInv
<1> QED BY <1>6, <1>7, <1>8

\* The reads of the registry.
LEMMA ReadSteps ==
    ASSUME ServersInv, ConfigInv', NEW q \in Queries, ReadIndex(q) \/ ReadRecords(q)
    PROVE  ServersInv'
<1> USE DEF InStep, GoOn
<1>1. /\ UNCHANGED <<sourceVars, entry, asked, was, lasted, servers, patterns, appRead, kept, broke>>
      BY DEF ReadIndex, ReadRecords
<1>2. ConfigTyped /\ QueryTables /\ OfQuery(q) /\ IndexedIsRecorded
      BY DEF ServersInv, ConfigInv
<1>3. PICK step, ns, fs :
         /\ step \in {"merge", "records", "heal"} /\ qstep' = [qstep EXCEPT ![q] = step]
         /\ names' = [names EXCEPT ![q] = ns] /\ found' = [found EXCEPT ![q] = fs]
      BY DEF ReadIndex, ReadRecords
<1>4. /\ qstep'[q] = step /\ names'[q] = ns /\ found'[q] = fs
      /\ step \in {"merge", "records", "heal"}
      /\ \A p \in Queries \ {q} : qstep'[p] = qstep[p] /\ names'[p] = names[p] /\ found'[p] = found[p]
      BY <1>2, <1>3 DEF ConfigTyped, QueryTables, IsOfQueries
<1>5. qstep[q] \in {"index", "records"} /\ UnderWay(q)
      BY DEF ReadIndex, ReadRecords, UnderWay, Over
<1>6. OnlyOf(q)
      BY <1>1, <1>4 DEF OnlyOf
<1>7. QueryTables'
      BY <1>1, <1>2, <1>3 DEF QueryTables, IsOfQueries, sourceVars
<1>8. Given(q)' = Given(q) /\ variable' = variable
      BY <1>1 DEF Given, sourceVars
<1>9. BeforeMerge(q)' /\ Sourced(q)' /\ AfterMerge(q)'
      BY <1>1, <1>2, <1>4, <1>5, <1>8 DEF OfQuery, BeforeMerge, Sourced, AfterMerge, Accepted
<1>10. Seen \subseteq was[q] /\ lasted[q] \subseteq Facts
       BY <1>2, <1>5 DEF OfQuery, Follows
<1>11. Shown(q, appRead[q])'
       BY <1>1, <1>2, <1>5 DEF OfQuery, HasRead, Shown
<1>12. \A n \in Names, k \in Values :
          <<"key", n, k>> \in lasted[q] => k = Listed(n)
       BY <1>10, FactsAre
<1>13. \A n \in Names : Listed(n) # "none" <=> n \in index
       BY <1>2 DEF IndexedIsRecorded, Listed
<1>14. CASE ReadIndex(q)
  <2>1. /\ names'[q] = index /\ found'[q] = [n \in Names |-> "none"]
        /\ qstep'[q] = IF index = {} THEN "merge" ELSE "records"
        BY <1>14, <1>2 DEF ReadIndex, ConfigTyped, QueryTables, IsOfQueries
  <2>2. HasRead(q)'
        BY <1>1, <1>11, <1>12, <1>13, <2>1 DEF HasRead
  <2> QED BY <1>1, <1>5, <1>6, <1>7, <1>9, <2>1, <2>2, OwnStep
<1>15. CASE ReadRecords(q)
  <2>1. /\ found'[q] = [n \in Names |-> IF n \in names[q] THEN record[n] ELSE "none"]
        /\ qstep'[q] \in {"heal", "merge"} /\ qstep[q] = "records"
        BY <1>15, <1>2 DEF ReadRecords, ConfigTyped, QueryTables, IsOfQueries
  <2>2. \A n \in Names, k \in Values :
           <<"key", n, k>> \in lasted[q] => (n \in names[q] <=> k # "none")
        BY <1>2, <2>1 DEF OfQuery, HasRead
  <2>3. \A n \in Names : found'[q][n] # "none" => <<"key", n, found'[q][n]>> \in was[q]
        BY <1>10, <2>1, FactsAre
  <2>4. ASSUME NEW n \in Names, NEW k \in Values, <<"key", n, k>> \in lasted[q]
        PROVE  found'[q][n] = k
    <3>1. k = Listed(n) /\ (n \in names[q] <=> k # "none")
          BY <1>12, <2>2, <2>4
    <3> QED BY <2>1, <3>1 DEF Listed
  <2>5. HasRead(q)'
        BY <1>1, <1>11, <2>1, <2>3, <2>4 DEF HasRead
  <2> QED BY <1>1, <1>5, <1>6, <1>7, <1>9, <2>1, <2>5, OwnStep
<1> QED BY <1>14, <1>15

\* The server side is merged in where the request and the discovery gave nothing.
LEMMA MergeStep ==
    ASSUME ServersInv, ConfigInv', NEW q \in Queries, Merge(q)
    PROVE  ServersInv'
<1> USE DEF InStep, GoOn
<1> DEFINE app    == appRead[q]
           key    == found[q]
           side   == ServerSide(app, key)
           ok(n)  == Accepted(IF side[n] = "key" THEN key[n] ELSE app[n])
           kinds  == [n \in {m \in DOMAIN side : ok(m)} |-> side[n]]
           merged == IF servers[q] # None THEN servers[q] ELSE kinds
<1>1. /\ UNCHANGED <<sourceVars, entry, asked, was, lasted, appRead, names, found, kept, broke>>
      /\ servers' = [servers EXCEPT ![q] = merged]
      /\ patterns' = [patterns EXCEPT ![q] = DOMAIN merged]
      /\ qstep[q] = "merge" /\ qstep' = [qstep EXCEPT ![q] = "memory"]
      BY DEF Merge, InjectionOver
<1>2. ConfigTyped /\ QueryTables /\ OfQuery(q)
      BY DEF ServersInv, ConfigInv
<1>3. /\ qstep'[q] = "memory" /\ servers'[q] = merged /\ patterns'[q] = DOMAIN merged
      /\ \A p \in Queries \ {q} :
            qstep'[p] = qstep[p] /\ servers'[p] = servers[p] /\ patterns'[p] = patterns[p]
      BY <1>1, <1>2 DEF ConfigTyped, QueryTables, IsOfQueries
<1>4. UnderWay(q) /\ OnlyOf(q)
      BY <1>1, <1>3 DEF UnderWay, Over, OnlyOf
<1>5. QueryTables'
      BY <1>1, <1>2 DEF QueryTables, IsOfQueries, sourceVars
<1>6. merged # None
  <2>1. servers'[q] \in ServerSets \/ servers'[q] = None
        BY DEF ConfigInv, ConfigTyped
  <2>2. /\ DOMAIN side \subseteq Names /\ \A n \in DOMAIN side : side[n] \in Tiers
        BY DEF ServerSide, Tiers, Files
  <2>3. kinds \in [{m \in DOMAIN side : ok(m)} -> Tiers] /\ {m \in DOMAIN side : ok(m)} \in SUBSET Names
        BY <2>2
  <2>4. kinds \in ServerSets
        BY <2>3 DEF ServerSets
  <2> QED BY <2>4, SetsAreThere
<1>7. /\ Given(q)' = merged /\ variable' = variable
      /\ \A n \in Names : From(q, n)' = IF n \in DOMAIN merged THEN merged[n] ELSE "nowhere"
      BY <1>1, <1>3, <1>6 DEF Given, From, sourceVars
<1>8. BeforeMerge(q) /\ Sourced(q) /\ q \notin broke /\ HasRead(q)
      BY <1>1, <1>2 DEF OfQuery, BeforeMerge
<1>9. /\ Shown(q, app)
      /\ \A n \in Names :
            /\ key[n] # "none" => <<"key", n, key[n]>> \in was[q]
            /\ \A k \in Values : <<"key", n, k>> \in lasted[q] => key[n] = k
      BY <1>1, <1>8 DEF HasRead
<1>10. /\ DOMAIN side = {m \in Names : app[m] # "none" \/ key[m] \in {"on", "bad"}}
       /\ \A n \in DOMAIN side : side[n] = IF key[n] \in {"on", "bad"} THEN "key" ELSE "app"
       BY DEF ServerSide
<1>11. /\ DOMAIN kinds = {m \in DOMAIN side : ok(m)}
       /\ \A n \in DOMAIN kinds : kinds[n] = side[n]
       OBVIOUS
<1> HIDE DEF side, kinds
<1>12. BeforeMerge(q)' /\ HasRead(q)'
       BY <1>3 DEF BeforeMerge, HasRead
<1>13. Sourced(q)'
  <2> SUFFICES ASSUME NEW n \in DOMAIN merged
               PROVE  \/ merged[n] = "request" /\ asked[q] # None /\ n \in asked[q]
                      \/ \E e \in Values : <<merged[n], n, e>> \in was[q] /\ Accepted(e)
      BY <1>1, <1>3, <1>7 DEF Sourced, Accepted
  <2>1. CASE servers[q] # None
        BY <1>1, <1>8, <2>1 DEF Sourced
  <2>2. CASE servers[q] = None
    <3>1. /\ n \in Names /\ n \in DOMAIN side /\ ok(n) /\ merged[n] = side[n]
          BY <2>2, <1>10, <1>11
    <3>2. \A e : Accepted(e) => e \in Values
          BY DEF Accepted, Values, Entries, Kept
    <3>3. CASE side[n] = "key"
          BY <3>1, <3>2, <3>3, <1>9, <1>10
    <3>4. CASE side[n] = "app"
      <4>1. Accepted(app[n]) /\ <<"app", n, app[n]>> \in was[q]
            BY <3>1, <3>4, <1>9 DEF Shown
      <4> QED BY <3>1, <3>2, <3>4, <4>1
    <3> QED BY <3>1, <3>3, <3>4, <1>10
  <2> QED BY <2>1, <2>2
<1>14. SideRight(q)'
  <2> SUFFICES ASSUME ServerSideOnly(q)', NEW n \in Names
               PROVE  /\ <<"key", n, "on">> \in lasted[q] => From(q, n)' = "key"
                      /\ (\E k \in {"none", "off"} : <<"key", n, k>> \in lasted[q])
                            /\ (\E e \in Entries : <<"app", n, e>> \in lasted[q] /\ Accepted(e))
                            => From(q, n)' = "app"
      BY <1>1, <1>7 DEF SideRight, Accepted
  <2>1. asked[q] = None /\ \A m \in DOMAIN merged : merged[m] \in {"app", "key"}
    <3>1. asked[q] = None /\ \A m \in DOMAIN merged : From(q, m)' \in {"app", "key"}
          BY <1>1, <1>7 DEF ServerSideOnly
    <3>2. \A m \in DOMAIN merged : From(q, m)' = merged[m]
          BY <1>3, <1>6 DEF From, Given
    <3> QED BY <3>1, <3>2
  <2>2. servers[q] = None
    <3> SUFFICES ASSUME servers[q] # None PROVE FALSE
        OBVIOUS
    <3>1. PICK m \in DOMAIN servers[q] : servers[q][m] \in Discovered
          BY <1>1, <1>8, <2>1 DEF BeforeMerge
    <3> QED BY <2>1, <3>1 DEF Discovered
  <2>3. merged = kinds
        BY <2>2
  <2>4. ASSUME <<"key", n, "on">> \in lasted[q] PROVE From(q, n)' = "key"
    <3>1. key[n] = "on"
          BY <2>4, <1>9 DEF Values, Kept
    <3>2. n \in DOMAIN side /\ side[n] = "key" /\ ok(n)
          BY <3>1, <1>10 DEF Accepted
    <3> QED BY <3>2, <2>3, <1>7, <1>11
  <2>5. ASSUME NEW k \in {"none", "off"}, <<"key", n, k>> \in lasted[q],
               NEW e \in Entries, <<"app", n, e>> \in lasted[q], Accepted(e)
        PROVE  From(q, n)' = "app"
    <3>1. key[n] = k /\ app[n] = e
          BY <2>5, <1>9 DEF Values, Kept, Shown
    <3>2. e # "none"
          BY <2>5 DEF Accepted
    <3>3. n \in DOMAIN side /\ side[n] = "app" /\ ok(n)
          BY <2>5, <3>1, <3>2, <1>10
    <3> QED BY <3>3, <2>3, <1>7, <1>11
  <2> QED BY <2>4, <2>5
<1>15. AfterMerge(q)'
       BY <1>1, <1>3, <1>7, <1>8, <1>14 DEF AfterMerge
<1> QED BY <1>1, <1>3, <1>4, <1>5, <1>12, <1>13, <1>15, OwnStep

LEMMA BeginStep ==
    ASSUME ServersInv, ConfigInv', NEW q \in Queries, BeginQuery(q)
    PROVE  ServersInv'
<1> USE DEF InStep, GoOn
<1> DEFINE seen0 == Seen \cup IF q \in Socket THEN UNION {was[p] : p \in Socket} ELSE {}
           last0 == {x \in Facts : q \in Socket =>
                        \A p \in Socket : qstep[p] # "idle" => x \in lasted[p]}
           own   == IF asked[q] = None THEN None ELSE [n \in asked[q] |-> "request"]
<1>1. /\ UNCHANGED <<sourceVars, entry, asked, patterns, appRead, names, found, kept, resume, broke>>
      /\ qstep[q] = "idle" /\ (q \in Socket => \A p \in Socket : qstep[p] \in Over)
      /\ servers' = [servers EXCEPT ![q] = own]
      /\ was' = [was EXCEPT ![q] = seen0] /\ lasted' = [lasted EXCEPT ![q] = last0]
      BY DEF BeginQuery
<1>2. PICK step \in {"enrich", "lookup", "inject"} : qstep' = [qstep EXCEPT ![q] = step]
      BY DEF BeginQuery
<1>3. ConfigTyped /\ QueryTables /\ (\A p \in Queries : OfQuery(p))
      /\ OnePrompt /\ KeptShown /\ IndexedIsRecorded
      BY DEF ServersInv, ConfigInv
<1>4. /\ qstep'[q] = step /\ was'[q] = seen0 /\ lasted'[q] = last0 /\ servers'[q] = own
      /\ \A p \in Queries \ {q} : qstep'[p] = qstep[p] /\ was'[p] = was[p] /\ lasted'[p] = lasted[p]
                                  /\ servers'[p] = servers[p]
      BY <1>1, <1>2, <1>3 DEF ConfigTyped, QueryTables, IsOfQueries
<1>5. QueryTables'
      BY <1>1, <1>3 DEF QueryTables, IsOfQueries, sourceVars
<1>6. Socket' = Socket /\ Socket \subseteq Queries /\ Seen' = Seen /\ Facts' = Facts
      BY <1>1 DEF Socket, Seen, Facts, Listed, sourceVars
<1>7. Seen \subseteq seen0 /\ last0 \subseteq Facts
      OBVIOUS
<1>8. q \in Socket => \A p \in Socket : was[p] \subseteq seen0 /\ (qstep[p] # "idle" => last0 \subseteq lasted[p])
      OBVIOUS
<1> HIDE DEF seen0, last0
<1>9. \A p \in Queries \ {q} : OfQuery(p)'
  <2> SUFFICES ASSUME NEW p \in Queries \ {q} PROVE OfQuery(p)'
      OBVIOUS
  <2>1. Follows(p)'
        BY <1>3, <1>4, <1>6 DEF OfQuery, Follows, UnderWay, Ready
  <2>2. OfQuery(p) /\ p \in Queries
        BY <1>3
  <2>3. /\ UNCHANGED <<variable, asked, entry>>
        /\ qstep'[p] = qstep[p] /\ servers'[p] = servers[p] /\ patterns'[p] = patterns[p]
        /\ appRead'[p] = appRead[p] /\ names'[p] = names[p] /\ found'[p] = found[p]
        /\ p \in broke' <=> p \in broke
        /\ was[p] \subseteq was'[p] /\ lasted'[p] \subseteq lasted[p]
        BY <1>1, <1>4 DEF sourceVars
  <2> QED BY <2>1, <2>2, <2>3, Carried
<1>10. OfQuery(q)'
  <2>1. Follows(q)'
        BY <1>4, <1>6, <1>7 DEF Follows
  <2>2. BeforeMerge(q)'
    <3>1. patterns[q] = {} /\ q \notin broke
          BY <1>1, <1>3 DEF OfQuery, BeforeMerge
    <3> QED BY <1>1, <1>4, <3>1 DEF BeforeMerge
  <2>3. Sourced(q)'
        BY <1>1, <1>4 DEF Sourced
  <2>4. HasRead(q)' /\ AfterMerge(q)'
        BY <1>4 DEF HasRead, AfterMerge
  <2> QED BY <2>1, <2>2, <2>3, <2>4 DEF OfQuery
<1>11. OnePrompt' /\ IndexedIsRecorded'
  <2>1. OnePrompt'
        BY <1>1, <1>3, <1>4, <1>6 DEF OnePrompt, UnderWay
  <2>2. IndexedIsRecorded'
        BY <1>1, <1>3 DEF IndexedIsRecorded, sourceVars
  <2> QED BY <2>1, <2>2
<1>12. KeptShown'
  <2> SUFFICES ASSUME kept # None
               PROVE  /\ \E p \in Socket : qstep'[p] # "idle" /\ Shown(p, kept)'
                      /\ \A p \in Socket : UnderWay(p)' => Shown(p, kept)'
      BY <1>1, <1>6 DEF KeptShown
  <2>1. PICK p \in Socket : qstep[p] # "idle" /\ Shown(p, kept)
        BY <1>3 DEF KeptShown
  <2>2. p # q /\ p \in Queries
        BY <1>1, <1>6, <2>1
  <2>3. qstep'[p] # "idle" /\ Shown(p, kept)'
        BY <1>1, <1>4, <2>1, <2>2 DEF Shown
  <2>4. ASSUME NEW r \in Socket, UnderWay(r)' PROVE Shown(r, kept)'
    <3>1. CASE r = q
      <4>1. was[p] \subseteq was'[r] /\ lasted'[r] \subseteq lasted[p]
            BY <1>4, <1>8, <2>1, <2>4, <3>1
      <4> QED BY <1>1, <2>1, <4>1 DEF Shown
    <3>2. CASE r # q
      <4>1. r \in Queries /\ UnderWay(r)
            BY <1>4, <1>6, <2>4, <3>2 DEF UnderWay
      <4>2. Shown(r, kept)
            BY <1>3, <2>1, <4>1 DEF KeptShown
      <4> QED BY <1>1, <1>4, <3>2, <4>1, <4>2 DEF Shown
    <3> QED BY <3>1, <3>2
  <2> QED BY <2>3, <2>4
<1> QED BY <1>5, <1>9, <1>10, <1>11, <1>12 DEF ServersInv

\* Whatever changes in the sources, the histories take it in.
Takes(q) == UnderWay(q) \/ (Ready(q) /\ q \in Socket)
Watched ==
    /\ was' = [q \in Queries |-> IF Takes(q) THEN was[q] \cup Seen' ELSE was[q]]
    /\ lasted' = [q \in Queries |-> IF Takes(q) THEN lasted[q] \cap Facts' ELSE lasted[q]]

LEMMA WitnessWatches == Witness(Facts', Seen') => Watched
BY DEF Witness, Watched, Takes, UnderWay, Ready, Over, Socket

LEMMA WatchedKeeps ==
    ASSUME ServersInv, Watched, UNCHANGED <<variable, asked, entry, kept, servers, patterns, appRead, broke>>,
           \A q \in Queries : qstep'[q] = qstep[q] \/ (UnderWay(q) /\ UnderWay(q)')
    PROVE  /\ \A q \in Queries : was[q] \subseteq was'[q] /\ lasted'[q] \subseteq lasted[q] /\ Follows(q)'
           /\ \A q \in Queries : qstep'[q] = qstep[q] /\ names'[q] = names[q] /\ found'[q] = found[q]
                                    => OfQuery(q)'
           /\ OnePrompt' /\ KeptShown'
<1>1. Socket' = Socket /\ Socket \subseteq Queries
      BY DEF Socket
<1>2. \A q \in Queries : was[q] \subseteq was'[q] /\ lasted'[q] \subseteq lasted[q]
      BY DEF Watched
<1>3. ASSUME NEW q \in Queries PROVE Follows(q)'
  <2>1. Takes(q)' => Takes(q)
        BY <1>1 DEF Takes, UnderWay, Ready
  <2>2. Takes(q) => Seen' \subseteq was'[q] /\ lasted'[q] \subseteq Facts'
        BY DEF Watched
  <2> QED BY <2>1, <2>2 DEF Follows, Takes
<1>4. ASSUME NEW q \in Queries, qstep'[q] = qstep[q], names'[q] = names[q], found'[q] = found[q]
      PROVE  OfQuery(q)'
  <2>1. OfQuery(q)
        BY DEF ServersInv
  <2>2. /\ servers'[q] = servers[q] /\ patterns'[q] = patterns[q]
        /\ appRead'[q] = appRead[q] /\ q \in broke' <=> q \in broke
        /\ was[q] \subseteq was'[q] /\ lasted'[q] \subseteq lasted[q] /\ Follows(q)'
        BY <1>2, <1>3
  <2> QED BY <1>4, <2>1, <2>2, Carried
<1>5. \A q \in Queries : (UnderWay(q)' <=> UnderWay(q)) /\ (qstep[q] # "idle" => qstep'[q] # "idle")
      BY DEF UnderWay, Over
<1>6. OnePrompt'
      BY <1>1, <1>5 DEF ServersInv, OnePrompt
<1>7. KeptShown'
  <2>1. \A q \in Queries : Shown(q, kept) => Shown(q, kept)'
        BY <1>2 DEF Shown
  <2> QED BY <1>1, <1>5, <2>1 DEF ServersInv, KeptShown
<1> QED BY <1>2, <1>3, <1>4, <1>6, <1>7

LEMMA SourceSteps ==
    ASSUME ServersInv, ConfigInv', Edit \/ FinishEdit
    PROVE  ServersInv'
<1>1. UNCHANGED <<variable, queryVars>> /\ Watched
      BY WitnessWatches DEF Edit, FinishEdit
<1>2. QueryTables /\ IndexedIsRecorded
      BY DEF ServersInv
<1>3. /\ \A q \in Queries : OfQuery(q)'
      /\ OnePrompt' /\ KeptShown'
      BY <1>1, WatchedKeeps DEF queryVars
<1>4. CASE Edit
  <2>1. CASE UNCHANGED <<record, index, editing>>
        BY <1>1, <1>2, <1>3, <2>1 DEF ServersInv, QueryTables, IsOfQueries, Watched, queryVars,
           IndexedIsRecorded
  <2>2. ASSUME NEW n \in Names, NEW k \in Kept \ {"none"}, editing = None,
               record' = [record EXCEPT ![n] = k], editing' = <<"add", n>>, index' = index
        PROVE  ServersInv'
    <3>1. record' = [m \in Names |-> IF m = n THEN k ELSE record[m]]
          BY <1>2, <2>2 DEF QueryTables
    <3>2. QueryTables'
          BY <1>1, <1>2, <3>1 DEF QueryTables, IsOfQueries, Watched, queryVars
    <3>3. IndexedIsRecorded'
          BY <1>2, <2>2, <3>1 DEF IndexedIsRecorded
    <3> QED BY <1>3, <3>2, <3>3 DEF ServersInv
  <2>3. ASSUME NEW n \in Names, editing = None, index' = index \ {n},
               editing' = <<"erase", n>>, record' = record
        PROVE  ServersInv'
    <3>1. QueryTables'
          BY <1>1, <1>2, <2>3 DEF QueryTables, IsOfQueries, Watched, queryVars
    <3>2. IndexedIsRecorded'
          BY <1>2, <2>3 DEF IndexedIsRecorded
    <3> QED BY <1>3, <3>1, <3>2 DEF ServersInv
  <2> QED BY <1>4, <2>1, <2>2, <2>3 DEF Edit
<1>5. CASE FinishEdit
  <2>1. PICK n \in Names : \/ editing = <<"add", n>> /\ record[n] # "none"
                           \/ editing = <<"erase", n>> /\ n \notin index
        BY <1>2, <1>5 DEF FinishEdit, IndexedIsRecorded
  <2>2. editing[2] = n /\ editing[1] \in {"add", "erase"}
        BY <2>1
  <2>3. CASE editing[1] = "add"
    <3>1. record' = record /\ index' = index \cup {n} /\ editing' = None /\ record[n] # "none"
          BY <1>5, <2>1, <2>2, <2>3 DEF FinishEdit
    <3>2. QueryTables'
          BY <1>1, <1>2, <3>1 DEF QueryTables, IsOfQueries, Watched, queryVars
    <3>3. IndexedIsRecorded'
          BY <1>2, <3>1 DEF IndexedIsRecorded
    <3> QED BY <1>3, <3>2, <3>3 DEF ServersInv
  <2>4. CASE editing[1] = "erase"
    <3>1. /\ record' = [record EXCEPT ![n] = "none"] /\ index' = index /\ editing' = None
          /\ n \notin index
          BY <1>5, <2>1, <2>2, <2>4 DEF FinishEdit
    <3>2. record' = [m \in Names |-> IF m = n THEN "none" ELSE record[m]]
          BY <1>2, <3>1 DEF QueryTables
    <3>3. QueryTables'
          BY <1>1, <1>2, <3>2 DEF QueryTables, IsOfQueries, Watched, queryVars
    <3>4. IndexedIsRecorded'
          BY <1>2, <3>1, <3>2 DEF IndexedIsRecorded
    <3> QED BY <1>3, <3>3, <3>4 DEF ServersInv
  <2> QED BY <2>2, <2>3, <2>4
<1> QED BY <1>4, <1>5

\* A reader that heals the index changes a source too.
LEMMA HealStep ==
    ASSUME ServersInv, ConfigInv', NEW q \in Queries, HealIndex(q)
    PROVE  ServersInv'
<1> USE DEF InStep, GoOn
<1>1. /\ UNCHANGED <<file, variable, record, editing, edits, parent, entry, asked, servers,
                     patterns, appRead, found, kept, resume, broke, recalled>>
      /\ Watched
      BY WitnessWatches DEF HealIndex
<1>2. PICK n \in names[q], step \in {"merge", "heal"} :
         /\ index' = index \ {n} /\ names' = [names EXCEPT ![q] = @ \ {n}]
         /\ qstep' = [qstep EXCEPT ![q] = step] /\ qstep[q] = "heal"
      BY DEF HealIndex
<1>3. ConfigTyped /\ QueryTables /\ IndexedIsRecorded /\ OfQuery(q)
      BY DEF ServersInv, ConfigInv
<1>4. /\ qstep'[q] = step
      /\ \A p \in Queries \ {q} : qstep'[p] = qstep[p] /\ names'[p] = names[p] /\ found'[p] = found[p]
      BY <1>1, <1>2, <1>3 DEF ConfigTyped, QueryTables, IsOfQueries
<1>5. \A p \in Queries : qstep'[p] = qstep[p] \/ (UnderWay(p) /\ UnderWay(p)')
      BY <1>2, <1>4 DEF UnderWay, Over
<1>6. /\ \A p \in Queries : was[p] \subseteq was'[p] /\ lasted'[p] \subseteq lasted[p] /\ Follows(p)'
      /\ \A p \in Queries : qstep'[p] = qstep[p] /\ names'[p] = names[p] /\ found'[p] = found[p]
                               => OfQuery(p)'
      /\ OnePrompt' /\ KeptShown'
      BY <1>1, <1>5, WatchedKeeps
<1>7. QueryTables'
      BY <1>1, <1>2, <1>3 DEF QueryTables, IsOfQueries, Watched
<1>8. IndexedIsRecorded'
      BY <1>1, <1>2, <1>3 DEF IndexedIsRecorded
<1>9. OfQuery(q)'
  <2> USE DEF OfQuery
  <2>1. BeforeMerge(q)' /\ AfterMerge(q)'
        BY <1>1, <1>2, <1>3, <1>4 DEF BeforeMerge, AfterMerge
  <2>2. Sourced(q)'
        BY <1>1, <1>2, <1>3, <1>4, <1>6 DEF Sourced, Accepted
  <2>3. HasRead(q)'
        BY <1>1, <1>2, <1>3, <1>4, <1>6 DEF HasRead, Shown
  <2> QED BY <1>6, <2>1, <2>2, <2>3
<1>10. \A p \in Queries : OfQuery(p)'
       BY <1>4, <1>6, <1>9
<1> QED BY <1>6, <1>7, <1>8, <1>10 DEF ServersInv

LEMMA ServersInvKept == ServersInv /\ [ConfigNext]_configVars => ServersInv'
<1> SUFFICES ASSUME ServersInv, [ConfigNext]_configVars PROVE ServersInv'
    OBVIOUS
<1>1. ConfigInv'
      BY ConfigInvKept DEF ServersInv
<1>2. CASE UNCHANGED configVars
  <2>1. UNCHANGED <<sourceVars, queryVars, was, lasted>>
        BY <1>2 DEF configVars
  <2>2. \A q \in Queries : OfQuery(q)'
    <3> SUFFICES ASSUME NEW q \in Queries PROVE OfQuery(q)'
        OBVIOUS
    <3>1. OfQuery(q) /\ Follows(q)'
          BY <2>1 DEF ServersInv, OfQuery, Follows, UnderWay, Ready, Socket, Seen, Facts, Listed,
                      sourceVars, queryVars
    <3> QED BY <2>1, <3>1, Carried DEF sourceVars, queryVars
  <2>3. QueryTables' /\ IndexedIsRecorded'
        BY <2>1 DEF ServersInv, QueryTables, IsOfQueries, IndexedIsRecorded, sourceVars, queryVars
  <2>4. OnePrompt' /\ KeptShown'
        BY <2>1 DEF ServersInv, OnePrompt, KeptShown, Shown, UnderWay, Socket, queryVars
  <2> QED BY <1>1, <2>2, <2>3, <2>4 DEF ServersInv
<1>3. CASE Edit \/ FinishEdit
      BY <1>1, <1>3, SourceSteps
<1>4. ASSUME NEW q \in Queries, BeginQuery(q) \/ ConfigStep(q) PROVE ServersInv'
      BY <1>1, <1>4, BeginStep, PlainSteps, EnrichStep, LoadStep, ReadSteps, HealStep, MergeStep
      DEF ConfigStep
<1> QED BY <1>2, <1>3, <1>4 DEF ConfigNext

\* Whatever changes while a query is put together, it runs with no server that was
\* nowhere meanwhile and misses none of its server side that was there all along
\* (mcp_config_injector.py 72-157).
THEOREM ServersAreAsFound == ConfigSpec => []ServersAreRight
<1>1. (\E plan \in Plans : ConfigInit(plan)) => ServersInv
  <2> SUFFICES ASSUME NEW plan \in Plans, ConfigInit(plan) PROVE ServersInv
      OBVIOUS
  <2>1. asked \in [Queries -> (SUBSET Names) \cup {None}] /\ record \in [Names -> Kept]
        BY PlansAssumption DEF ConfigInit
  <2>2. ConfigInv
        BY <2>1 DEF ConfigInit, ConfigInv, ConfigTyped, Holds, Over
  <2>3. QueryTables
        BY <2>1 DEF ConfigInit, QueryTables, IsOfQueries
  <2>4. OnePrompt /\ KeptShown
        BY DEF ConfigInit, OnePrompt, KeptShown, UnderWay, Over, Socket
  <2>5. IndexedIsRecorded
        BY DEF ConfigInit, IndexedIsRecorded
  <2>6. \A q \in Queries : OfQuery(q)
        BY DEF ConfigInit, OfQuery, Follows, BeforeMerge, Sourced, HasRead, AfterMerge, UnderWay,
               Ready, Over
  <2> QED BY <2>2, <2>3, <2>4, <2>5, <2>6 DEF ServersInv
<1>2. ServersInv => ServersAreRight
  <2> SUFFICES ASSUME ServersInv, NEW q \in Queries, Ready(q)
               PROVE  /\ \A n \in DOMAIN Given(q) :
                            \/ From(q, n) = "request" /\ n \in asked[q]
                            \/ \E e \in Entries \cup Kept : <<From(q, n), n, e>> \in was[q] /\ Accepted(e)
                      /\ patterns[q] = IF q \in broke THEN {} ELSE DOMAIN Given(q)
                      /\ SideRight(q)
      BY DEF ServersAreRight, SideRight
  <2>1. Sourced(q) /\ AfterMerge(q) /\ qstep[q] = "ready"
        BY DEF ServersInv, OfQuery, Ready
  <2> QED BY <2>1 DEF Sourced, AfterMerge, From, Given, Values
<1> QED BY <1>1, <1>2, ServersInvKept, PTL DEF ConfigSpec

----------------------------------------------------------------------------
(* A walk through the sessions *)

\* The sessions a client sees before s.
Before(s)        == {t \in Matching : Newer(t, s)}
NoNewer(set, s)  == \A t \in set : ~ Newer(t, s)

WalkTyped ==
    /\ table \in [Rows -> Row \cup {Missing, Deleted}]
    /\ size \in Nat \ {0} /\ pageNo \in Nat \ {0} /\ total \in Nat
    /\ shown \in [Rows -> Nat]
    /\ steady \subseteq Matching /\ Matching \subseteq steady \cup fresh

\* While nothing newer leaves, a session not shown is on no page already seen;
\* while nothing newer comes, one that was shown is on one of them.
Ahead(s)  == walk # "over" /\ shown[s] = 0 /\ NoNewer(gone, s) => Offset <= Cardinality(Before(s))
Behind(s) ==
    NoNewer(fresh, s) =>
        /\ shown[s] <= 1
        /\ walk # "over" /\ shown[s] = 1 => Cardinality(Before(s)) < Offset

\* The count includes it and what is before it.
Counted(s) == walk = "select" /\ NoNewer(late, s) => Cardinality(Before(s)) + 1 <= total
NotMissed(s) == walk = "over" /\ shown[s] = 0 => ~ NoNewer(gone \cup late, s)

WalkInv ==
    /\ WalkTyped
    /\ \A s \in steady : Counted(s) /\ (Beside(s) = {} => Ahead(s) /\ Behind(s) /\ NotMissed(s))

\* Of sets of sessions, the smaller has fewer.
LEMMA Smaller ==
    ASSUME NEW S \in SUBSET Rows, NEW T \in SUBSET S
    PROVE  /\ IsFiniteSet(S) /\ IsFiniteSet(T)
           /\ Cardinality(S) \in Nat /\ Cardinality(T) \in Nat
           /\ Cardinality(T) <= Cardinality(S)
           /\ \A s \in S \ T : Cardinality(T) + 1 <= Cardinality(S)
<1>1. IsFiniteSet(S)
      BY FS_Subset, ListAssumption
<1>2. IsFiniteSet(T) /\ Cardinality(T) <= Cardinality(S) /\ (Cardinality(S) = Cardinality(T) => S = T)
      BY <1>1, FS_Subset
<1>3. Cardinality(S) \in Nat /\ Cardinality(T) \in Nat
      BY <1>1, <1>2, FS_CardinalityType
<1> QED BY <1>1, <1>2, <1>3

\* A page shows a session no other was born with just when as many are newer as it skips,
\* or less than a page more.
LEMMA PageShows ==
    ASSUME NEW rows \in SUBSET Rows, NEW page \in Pages(rows), NEW s \in rows,
           \A t \in rows \ {s} : Born[t] # Born[s],
           size \in Nat \ {0}, Offset \in Nat
    PROVE  LET ahead == {t \in rows : Newer(t, s)} IN
           s \in page <=> Offset <= Cardinality(ahead) /\ Cardinality(ahead) < Offset + size
<1> DEFINE ahead == {t \in rows : Newer(t, s)}
<1>1. page \in SUBSET rows
      BY DEF Pages
<1>2. PICK before \in SUBSET (rows \ page) :
         /\ Cardinality(before) = Offset \/ (page = {} /\ Cardinality(rows) <= Offset)
         /\ Cardinality(page) = size \/ (Cardinality(page) < size /\ rows \subseteq before \cup page)
         /\ \A a \in before, b \in rows \ before : ~ Newer(b, a)
         /\ \A a \in page, b \in rows \ (before \cup page) : ~ Newer(b, a)
      BY DEF Pages
<1>3. before \in SUBSET rows /\ ahead \in SUBSET rows /\ before \cup page \in SUBSET rows
      BY <1>1, <1>2
<1>4. \A t \in rows \ {s} : (t \in ahead /\ ~ Newer(s, t)) \/ (t \notin ahead /\ Newer(s, t))
  <2>1. \A t \in rows : Born[t] \in Nat
        BY ListAssumption
  <2> QED BY <2>1 DEF Newer
<1>5. s \notin ahead
      BY ListAssumption DEF Newer
<1>6. /\ Cardinality(ahead) \in Nat /\ Cardinality(before) \in Nat /\ Cardinality(page) \in Nat
      /\ Cardinality(rows) \in Nat
      BY <1>1, <1>3, Smaller
<1>7. Cardinality(before \cup page) = Cardinality(before) + Cardinality(page)
  <2>1. IsFiniteSet(before) /\ IsFiniteSet(page)
        BY <1>1, <1>3, Smaller
  <2>2. before \cap page = {}
        BY <1>2
  <2>3. /\ Cardinality(before \cup page)
              = Cardinality(before) + Cardinality(page) - Cardinality(before \cap page)
        BY <2>1, FS_Union
  <2> QED BY <1>6, <2>2, <2>3, FS_EmptySet
<1>8. CASE s \in before
  <2>1. ahead \subseteq before
        BY <1>2, <1>8
  <2>2. Cardinality(ahead) + 1 <= Cardinality(before) /\ Cardinality(before) <= Cardinality(rows)
        BY <1>3, <1>5, <1>8, <2>1, Smaller
  <2>3. Cardinality(ahead) < Offset
        BY <1>2, <1>6, <2>2
  <2> QED BY <1>2, <1>6, <1>8, <2>3
<1>9. CASE s \in page
  <2>1. before \subseteq ahead
        BY <1>2, <1>3, <1>4, <1>9
  <2>2. Cardinality(before) <= Cardinality(ahead) /\ Cardinality(before) = Offset
        BY <1>2, <1>3, <1>9, <2>1, Smaller
  <2>3. ahead \subseteq before \cup page
        BY <1>2, <1>9
  <2>4. Cardinality(ahead) + 1 <= Cardinality(before \cup page)
        BY <1>3, <1>5, <1>9, <2>3, Smaller
  <2>5. Cardinality(page) <= size
        BY <1>2, <1>6
  <2> QED BY <1>6, <1>7, <1>9, <2>2, <2>4, <2>5
<1>10. CASE s \notin before \cup page
  <2>1. before \cup page \subseteq ahead
        BY <1>1, <1>2, <1>3, <1>4, <1>10
  <2>2. Cardinality(before \cup page) <= Cardinality(ahead)
        BY <1>3, <2>1, Smaller
  <2>3. Cardinality(page) = size
        BY <1>2, <1>10
  <2>4. Cardinality(before) = Offset
        BY <1>2, <2>3, <1>10, FS_EmptySet
  <2> QED BY <1>6, <1>7, <1>10, <2>2, <2>3, <2>4
<1> QED BY <1>8, <1>9, <1>10

\* What passes the filter are the sessions there are.
LEMMA MatchingTyped == Matching \subseteq Rows
BY DEF Matching

LEMMA PageNumbers ==
    ASSUME pageNo \in Nat \ {0}, size \in Nat \ {0}
    PROVE  Offset \in Nat /\ pageNo * size = Offset + size
<1>1. pageNo - 1 \in Nat
      OBVIOUS
<1>2. Offset = (pageNo - 1) * size /\ pageNo = (pageNo - 1) + 1
      BY DEF Offset
<1> QED BY <1>1, <1>2

LEMMA WriteKeeps ==
    ASSUME WalkInv, NEW z \in Rows, NEW r \in Row \cup {Missing, Deleted}, Write(z, r)
    PROVE  WalkInv'
<1>1. /\ UNCHANGED <<filter, size, walk, pageNo, total, shown>> /\ walk # "over"
      /\ table' = [table EXCEPT ![z] = r]
      /\ steady' = steady \cap Matching'
      /\ gone' = gone \cup (Matching \ Matching')
      /\ fresh' = fresh \cup (Matching' \ Matching)
      /\ late' = late \cup (Matching' \ Matching)
      BY DEF Write, listVars
<1>2. Matching \subseteq Rows /\ Matching' \subseteq Rows
      BY MatchingTyped DEF Matching
<1>3. WalkTyped'
  <2>1. table' \in [Rows -> Row \cup {Missing, Deleted}]
        BY <1>1 DEF WalkInv, WalkTyped, Missing, Deleted, Plain
  <2>2. steady' \subseteq Matching' /\ Matching' \subseteq steady' \cup fresh'
        BY <1>1 DEF WalkInv, WalkTyped
  <2> QED BY <1>1, <2>1, <2>2 DEF WalkInv, WalkTyped
<1>4. ASSUME NEW s \in steady'
      PROVE  Counted(s)' /\ (Beside(s)' = {} => Ahead(s)' /\ Behind(s)' /\ NotMissed(s)')
  <2>1. s \in steady /\ s \in Rows /\ s \in Matching
        BY <1>1, <1>2 DEF WalkInv, WalkTyped
  <2>2. Before(s) \in SUBSET Rows /\ Before(s)' \in SUBSET Rows
        BY <1>2 DEF Before
  <2>3. Cardinality(Before(s)) \in Nat /\ Cardinality(Before(s)') \in Nat
        BY <2>2, Smaller
  <2>4. NoNewer(gone', s) => NoNewer(gone, s) /\ Cardinality(Before(s)) <= Cardinality(Before(s)')
    <3> SUFFICES ASSUME NoNewer(gone', s)
                 PROVE  NoNewer(gone, s) /\ Cardinality(Before(s)) <= Cardinality(Before(s)')
        OBVIOUS
    <3>1. NoNewer(gone, s) /\ Before(s) \in SUBSET (Before(s)')
          BY <1>1 DEF NoNewer, Before, Newer
    <3> QED BY <2>2, <3>1, Smaller
  <2>5. ASSUME NEW set, NEW set1, set1 = set \cup (Matching' \ Matching), NoNewer(set1, s)
        PROVE  NoNewer(set, s) /\ Cardinality(Before(s)') <= Cardinality(Before(s))
    <3>1. NoNewer(set, s) /\ Before(s)' \in SUBSET Before(s)
          BY <2>5 DEF NoNewer, Before, Newer
    <3> QED BY <2>2, <3>1, Smaller
  <2>6. NoNewer(fresh', s) => NoNewer(fresh, s) /\ Cardinality(Before(s)') <= Cardinality(Before(s))
        BY <1>1, <2>5
  <2>7. NoNewer(late', s) => NoNewer(late, s) /\ Cardinality(Before(s)') <= Cardinality(Before(s))
        BY <1>1, <2>5
  <2>8. Beside(s)' = {} => Beside(s) = {}
        BY <1>1 DEF Beside, WalkInv, WalkTyped
  <2>9. Offset' = Offset /\ Offset \in Nat /\ total \in Nat
        BY <1>1, PageNumbers DEF Offset, WalkInv, WalkTyped
  <2>10. Counted(s)'
    <3>1. Counted(s)
          BY <2>1 DEF WalkInv
    <3>2. NoNewer(late, s)' <=> NoNewer(late', s)
          BY DEF NoNewer, Newer
    <3> QED BY <1>1, <2>3, <2>7, <2>9, <3>1, <3>2 DEF Counted
  <2>11. ASSUME Beside(s) = {} PROVE Ahead(s)' /\ Behind(s)' /\ NotMissed(s)'
    <3>1. Ahead(s) /\ Behind(s)
          BY <2>1, <2>11 DEF WalkInv
    <3>2. (NoNewer(gone, s)' <=> NoNewer(gone', s)) /\ (NoNewer(fresh, s)' <=> NoNewer(fresh', s))
          BY DEF NoNewer, Newer
    <3>3. Ahead(s)'
          BY <1>1, <2>3, <2>4, <2>9, <3>1, <3>2 DEF Ahead
    <3>4. Behind(s)'
          BY <1>1, <2>3, <2>6, <2>9, <3>1, <3>2 DEF Behind
    <3>5. NotMissed(s)'
          BY <1>1 DEF NotMissed
    <3> QED BY <3>3, <3>4, <3>5
  <2> QED BY <2>8, <2>10, <2>11
<1> QED BY <1>3, <1>4 DEF WalkInv

LEMMA CountKeeps == ASSUME WalkInv, CountRows PROVE WalkInv'
<1>1. /\ UNCHANGED <<table, filter, size, pageNo, shown, writes, steady, gone, fresh>>
      /\ walk = "count" /\ walk' = "select" /\ late' = {} /\ total' = Cardinality(Matching)
      BY DEF CountRows
<1>2. Matching' = Matching /\ Matching \in SUBSET Rows
      BY <1>1, MatchingTyped DEF Matching, Matches
<1>3. Cardinality(Matching) \in Nat
      BY <1>2, Smaller
<1>4. WalkTyped'
      BY <1>1, <1>2, <1>3 DEF WalkInv, WalkTyped
<1>5. ASSUME NEW s \in steady
      PROVE  Counted(s)' /\ (Beside(s)' = {} => Ahead(s)' /\ Behind(s)' /\ NotMissed(s)')
  <2>1. s \in Matching /\ s \in Rows /\ Born[s] \in Nat
        BY <1>2, ListAssumption DEF WalkInv, WalkTyped
  <2>2. Before(s) \in SUBSET Matching /\ s \notin Before(s) /\ Before(s)' = Before(s)
        BY <1>2, <2>1 DEF Before, Newer
  <2>3. Cardinality(Before(s)) + 1 <= Cardinality(Matching)
        BY <1>2, <2>1, <2>2, Smaller
  <2>4. Counted(s)'
        BY <1>1, <2>2, <2>3 DEF Counted
  <2>5. Beside(s)' = Beside(s) /\ Offset' = Offset
        BY <1>1 DEF Beside, Offset
  <2>6. Beside(s) = {} => Ahead(s)' /\ Behind(s)' /\ NotMissed(s)'
        BY <1>1, <2>2, <2>5 DEF WalkInv, Ahead, Behind, NotMissed, NoNewer
  <2> QED BY <2>4, <2>5, <2>6
<1> QED BY <1>1, <1>4, <1>5 DEF WalkInv

\* The page shows a session or not; the next one begins where it ends.
LEMMA SelectKeeps == ASSUME WalkInv, SelectRows PROVE WalkInv'
<1>1. PICK page \in Pages(Matching) :
         shown' = [s \in Rows |-> IF s \in page THEN shown[s] + 1 ELSE shown[s]]
      BY DEF SelectRows
<1>2. /\ UNCHANGED <<table, filter, size, total, writes, steady, gone, fresh, late>>
      /\ walk = "select"
      /\ \/ pageNo * size < total /\ walk' = "count" /\ pageNo' = pageNo + 1
         \/ ~ (pageNo * size < total) /\ walk' = "over" /\ pageNo' = pageNo
      BY DEF SelectRows
<1>3. Matching' = Matching /\ Matching \in SUBSET Rows
      BY <1>2, MatchingTyped DEF Matching, Matches
<1>4. WalkTyped
      BY DEF WalkInv
<1>5. Offset \in Nat /\ pageNo * size = Offset + size /\ pageNo \in Nat \ {0} /\ size \in Nat \ {0}
      BY <1>4, PageNumbers DEF WalkTyped
<1>6. walk' = "count" => Offset' = Offset + size
  <2> SUFFICES ASSUME walk' = "count" PROVE Offset' = Offset + size
      OBVIOUS
  <2>1. pageNo' = pageNo + 1 /\ size' = size
        BY <1>2
  <2>2. Offset' = ((pageNo + 1) - 1) * size
        BY <2>1 DEF Offset
  <2> QED BY <1>5, <2>2
<1>7. WalkTyped'
      BY <1>1, <1>2, <1>3, <1>4 DEF WalkTyped
<1>8. ASSUME NEW s \in steady
      PROVE  Counted(s)' /\ (Beside(s)' = {} => Ahead(s)' /\ Behind(s)' /\ NotMissed(s)')
  <2> DEFINE n == Cardinality(Before(s))
  <2>1. s \in Matching /\ s \in Rows
        BY <1>3, <1>4 DEF WalkTyped
  <2>2. Before(s) \in SUBSET Rows /\ Before(s)' = Before(s)
        BY <1>3 DEF Before, Newer
  <2>3. n \in Nat /\ Cardinality(Before(s))' = n /\ shown[s] \in Nat /\ total \in Nat
        BY <1>4, <2>1, <2>2, Smaller DEF WalkTyped
  <2>4. Counted(s)'
        BY <1>2 DEF Counted
  <2>5. Beside(s)' = Beside(s)
        BY <1>2 DEF Beside
  <2>6. ASSUME Beside(s) = {} PROVE Ahead(s)' /\ Behind(s)' /\ NotMissed(s)'
    <3>1. Ahead(s) /\ Behind(s) /\ Counted(s)
          BY <2>6 DEF WalkInv
    <3>2. \A t \in Matching \ {s} : Born[t] # Born[s]
          BY <1>4, <2>6 DEF Beside, WalkTyped
    <3>3. s \in page <=> Offset <= n /\ n < Offset + size
          BY <1>3, <1>5, <2>1, <3>2, PageShows DEF Before
    <3>4. shown'[s] = IF s \in page THEN shown[s] + 1 ELSE shown[s]
          BY <1>1, <2>1
    <3>5. (walk # "over" /\ shown[s] = 0 /\ NoNewer(gone, s) => Offset <= n)
          /\ (NoNewer(fresh, s) => shown[s] <= 1 /\ (shown[s] = 1 => n < Offset))
          /\ (NoNewer(late, s) => n + 1 <= total)
          BY <1>2, <3>1 DEF Ahead, Behind, Counted
    <3>6. /\ NoNewer(gone, s)' = NoNewer(gone, s) /\ NoNewer(fresh, s)' = NoNewer(fresh, s)
          /\ NoNewer(gone \cup late, s)' = NoNewer(gone \cup late, s)
          /\ NoNewer(gone \cup late, s) => NoNewer(gone, s) /\ NoNewer(late, s)
          BY <1>2 DEF NoNewer
    <3>7. Ahead(s)'
      <4> SUFFICES ASSUME walk' = "count", shown'[s] = 0, NoNewer(gone, s) PROVE Offset + size <= n
          BY <1>2, <1>6, <2>3, <3>6 DEF Ahead
      <4>1. s \notin page /\ shown[s] = 0
            BY <2>3, <3>4
      <4>2. Offset <= n
            BY <1>2, <3>5, <4>1
      <4> QED BY <1>5, <2>3, <3>3, <4>1, <4>2
    <3>8. Behind(s)'
      <4> SUFFICES ASSUME NoNewer(fresh, s)
                   PROVE  /\ shown'[s] <= 1
                          /\ walk' = "count" /\ shown'[s] = 1 => n < Offset + size
          BY <1>2, <1>6, <2>3, <3>6 DEF Behind
      <4>1. shown[s] <= 1 /\ (shown[s] = 1 => n < Offset)
            BY <3>5
      <4> QED BY <1>5, <2>3, <3>3, <3>4, <4>1
    <3>9. NotMissed(s)'
      <4> SUFFICES ASSUME walk' = "over", shown'[s] = 0, NoNewer(gone, s), NoNewer(late, s) PROVE FALSE
          BY <3>6 DEF NotMissed
      <4>1. s \notin page /\ shown[s] = 0
            BY <2>3, <3>4
      <4>2. Offset <= n /\ n + 1 <= total /\ ~ (Offset + size < total)
            BY <1>2, <1>5, <3>5, <4>1
      <4> QED BY <1>5, <2>3, <3>3, <4>1, <4>2
    <3> QED BY <3>7, <3>8, <3>9
  <2> QED BY <2>4, <2>5, <2>6
<1> QED BY <1>2, <1>7, <1>8 DEF WalkInv

LEMMA WalkInvKept == WalkInv /\ [ListNext]_pageVars => WalkInv'
<1> SUFFICES ASSUME WalkInv, [ListNext]_pageVars PROVE WalkInv'
    OBVIOUS
<1>1. CASE CountRows
      BY <1>1, CountKeeps
<1>2. CASE SelectRows
      BY <1>2, SelectKeeps
<1>3. ASSUME NEW s \in Rows, CreateRow(s) \/ PromoteRow(s) \/ TagRow(s) \/ DeleteRow(s) PROVE WalkInv'
  <2>1. \E r \in Row \cup {Missing, Deleted} : Write(s, r)
    <3>1. CASE CreateRow(s)
          BY <3>1 DEF CreateRow, Plain, Row, Modes
    <3>2. CASE PromoteRow(s)
          BY <3>2 DEF PromoteRow, Row, Modes
    <3>3. CASE TagRow(s)
          BY <3>3 DEF TagRow, Row, Modes
    <3>4. CASE DeleteRow(s)
          BY <3>4 DEF DeleteRow
    <3> QED BY <1>3, <3>1, <3>2, <3>3, <3>4
  <2> QED BY <2>1, WriteKeeps
<1>4. CASE UNCHANGED pageVars
  <2>1. UNCHANGED <<table, filter, size, walk, pageNo, total, shown, steady, gone, fresh, late>>
        BY <1>4 DEF pageVars, listVars
  <2>2. Matching' = Matching
        BY <2>1 DEF Matching, Matches
  <2> QED BY <2>1, <2>2 DEF WalkInv, WalkTyped, Counted, Ahead, Behind, NotMissed, NoNewer, Before,
                            Beside, Offset, Newer
<1> QED BY <1>1, <1>2, <1>3, <1>4 DEF ListNext

\* A client that walks through the pages sees every session that passed its filter all
\* along, and sees it once, unless a newer one left or came (session_repo.py 196-275).
THEOREM WalksSeeAll == ListSpec => []WalkSeesAll
<1>1. ListInit => WalkInv
  <2> SUFFICES ASSUME ListInit PROVE WalkInv
      OBVIOUS
  <2>1. /\ table \in [Rows -> AtStart] /\ size \in Sizes /\ walk = "count" /\ pageNo = 1 /\ total = 0
        /\ shown = [s \in Rows |-> 0] /\ steady = Matching
        BY DEF ListInit
  <2>2. table \in [Rows -> Row \cup {Missing, Deleted}]
        BY <2>1, ListAssumption
  <2>3. WalkTyped
        BY <2>1, <2>2, ListAssumption DEF WalkTyped
  <2>4. Offset = 0
        BY <2>1, <2>3 DEF Offset, WalkTyped
  <2>5. ASSUME NEW s \in steady PROVE Counted(s) /\ Ahead(s) /\ Behind(s) /\ NotMissed(s)
    <3>1. Before(s) \in SUBSET Rows /\ s \in Rows
          BY <2>1, MatchingTyped DEF Before
    <3>2. Cardinality(Before(s)) \in Nat
          BY <3>1, Smaller
    <3> QED BY <2>1, <2>4, <3>1, <3>2 DEF Counted, Ahead, Behind, NotMissed
  <2> QED BY <2>3, <2>5 DEF WalkInv
<1>2. WalkInv => WalkSeesAll
  <2> SUFFICES ASSUME WalkInv, walk = "over", NEW s \in steady, Beside(s) = {}
               PROVE  /\ shown[s] = 0 => \E t \in gone \cup late : Newer(t, s)
                      /\ shown[s] > 1 => \E t \in fresh : Newer(t, s)
      BY DEF WalkSeesAll
  <2>1. Behind(s) /\ NotMissed(s) /\ shown[s] \in Nat
        BY MatchingTyped DEF WalkInv, WalkTyped
  <2> QED BY <2>1 DEF Behind, NotMissed, NoNewer
<1> QED BY <1>1, <1>2, WalkInvKept, PTL DEF ListSpec
=============================================================================
