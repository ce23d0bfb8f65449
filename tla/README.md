# Specifications of claude-agent-api

TLA+ models of the service under `src/apps/api`, the TLC runs that check them on
small instances, and TLAPS proofs of their most important invariants for
instances of any size. `PROJECT.json` names, for every definition, the source
lines it stands for.

The service is an asyncio program, several instances of which share one
PostgreSQL and one Redis. A task runs alone between two awaits, so a model step
is what happens from one await to the next; between two steps any other task of
any instance may run, a task may be cancelled, an instance may die, a Redis
command may fail, and a key may expire.

## 1. The system

| Component | State | Operations | Talks to |
|---|---|---|---|
| Session lock (`session_lock_manager.py`, `adapters/cache.py`) | one Redis key per session with a TTL of 30 s | acquire with backoff, release by compare-and-delete | used by the session store |
| Session store (`session.py`, `session_cache_manager.py`, `session_metadata_manager.py`, `session_repo.py`) | PostgreSQL row, Redis entry with a TTL, Redis index per owner | create, get, update, promote, update_tags, delete | queries, session routes, threads |
| Session listing (`routes/sessions.py`, `session_repo.py`) | the sessions table | a page: count, then select with an offset | session store's writes |
| Query event stream (`routes/query_stream.py`) | a bounded queue, a producer task, a generator | pull, put, get, send, clean up, record the status | agent service, session store, SSE library |
| Agent session control (`stream_query_runner.py`, `session_tracker.py`, `session_control.py`) | two Redis keys per session: active, interrupted | register, unregister, look for the marker, interrupt | streams in every instance |
| WebSocket connection (`routes/websocket.py`) | the connection's query task | prompt, interrupt, disconnect | agent session control |
| Event pipeline (`handlers.py`, `query_executor.py`, `stream_orchestrator.py`, `single_query_*.py`) | the stream context, the events | map messages, track files, save memories, build result and done | SDK, its three readers |
| OpenAI chat completions (`services/openai/*`, `routes/openai/chat.py`) | role, tool index and finish reason of one stream | events to chunks, response to completion | event pipeline |
| MCP configuration of a query (`query_enrichment.py`, `mcp_discovery.py`, `mcp_config_*.py`, `options.py`) | the request as it is put together; a loader per WebSocket connection | discover, merge, inject, build the SDK's options | files, registry of MCP servers, memory |
| Hooks and webhooks (`webhook.py`, `hooks.py`, `hook_facade.py`) | none | match, POST, decide, fall back | an external webhook |
| Redis registries (`agents.py`, `projects.py`, `skills_crud.py`, `slash_commands.py`, `tool_presets.py`, `mcp_server_configs.py`) | a record per entry, one index set | create, update, share, delete, list with self-healing | routes, MCP injection |
| Threads and messages (`thread_service.py`, `message_service.py`) | a record per thread and per message, a session behind each thread | CRUD; a list scans keys and reads records | session store, runs |
| Assistant runs (`run_service.py`, `run_executor.py`) | one record per run | create, start, complete, fail, cancel, submit outputs; execute, stream | assistants, messages, SDK |
| Assistants (`assistant_service.py`) | Redis record, optionally a database row | create, get, update, delete | runs |
| Checkpoints (`checkpoint.py`, `checkpoint_manager.py`) | record per checkpoint, list per session, index per message | create; list, validate, find by message | end of a query |
| Lifetime (`main.py`, `dependencies.py`, `shutdown.py`) | application state, the set of active sessions | start with a health check, register, drain, close | every request |
| Memory, discovery of commands and skills, middleware, schemas, migrations, scripts | held by libraries, files, or nothing | | see section 8 |

What is hard in it, component by component, and what makes each correct:

- **Lock.** The lease may end under its holder; a release may be late; the reply
  to SET may be lost and the command retried. Correct when two callers are
  inside only after a lease ran out, nobody removes another's live lock, the
  wait is bounded and no lock is orphaned for ever.
- **Store.** Two stores written one after the other, a cache refilled by readers
  outside the lock, methods that take no lock at all. Correct when the cache
  never runs ahead of the row, no increment is lost, methods that write other
  columns leave each other's alone, and whatever the races leave in the cache
  goes away.
- **Listing.** Offsets into a table that changes between two pages, with no
  second sort key. Correct when a session is passed over, or shown twice, only
  for a change of a newer one.
- **Stream.** A producer and a generator over a bounded queue, with a client
  that may leave while either of them waits. Correct when nothing is lost or
  reordered, a failure is told, an abandoned agent is not pulled further, the
  status is "error" exactly when an error was sent that the generator looks at (its
  own is not, section 4), and everything ends.
- **Control.** Check-then-act between instances over two keys with TTLs. Correct
  when a marked stream stops, the active key follows the streams, and only
  streams that were meant are interrupted.
- **WebSocket.** A prompt cancels the query before it; a disconnect may come at
  any time. Correct when one query runs at a time, and none after the end.
- **Pipeline and chunks.** Many ways for a stream to end, three readers that rely
  on its order, blocks that do not say what they are. Correct when the order holds
  for every ending, the readers agree, and the files tracked are those of the tool
  calls shown.
- **MCP configuration.** Six sources merged in two places, the registry read with
  two commands, while every source may change; a failure in the middle leaves
  the request as it was. Correct when the request's own servers win, nothing
  runs that was nowhere, and nothing is missing that was there all along.
- **Hooks.** A webhook decides on its own and its answer may be late, lost or
  broken. Correct when no failure lets a tool through that it watches over.
- **Registries.** A record and an index entry written by two commands, healed by
  a third, without locks. Correct when index and records agree wherever calls on
  one entry did not overlap or break off between the two.
- **Runs, threads, messages, assistants.** Every method reads a record and writes
  all of it back. Correct when a run follows its state machine wherever its
  writer was not overtaken, no run stays in progress without a worker, a thread
  has its session, a list misses nothing that was there all along as long as a scan
  can find it all, and Redis shows the assistant of the database.
- **Checkpoints.** Four commands, one of them a list read and written whole.
  Correct when a checkpoint made alone stays listed and found.
- **Lifetime.** Sessions begin and end while the shutdown waits. Correct when
  "all ended" is true and no client is closed under a session before the
  timeout.

All the hazards, each at its line, are in `PROJECT.json`.

## 2. Modules

```
LeasedSection <--implements-- SessionLock             abstract lease / lock over Redis
      ^ INSTANCE                      SessionLockProofs
SessionStore                          SessionStoreProofs
QueryStream                           QueryStreamProofs
AgentSession <--EXTENDS-- WebSocketQuery      AgentSessionProofs
EventStream                           EventStreamProofs
Registry                              RegistryProofs
Conversations <--EXTENDS-- Runs       RunsProofs
Webhooks <--EXTENDS-- QueryConfig \
Checkpoints                        |  ServiceProofs
Lifetime                          /
SessionList
```

Each component module declares its constants and their named assumptions, its
variables (history variables, which no guard reads unless a comment says so, are
marked as such), one action per step of the code, and its properties at the end.
`MC*.tla` and `*.cfg` give the constants their values. Operators introduced by
a comment "Mutant" are deliberate errors: replacing the definition that follows
by one must break a property, which shows that the property watches the code.

**LeasedSection** is what `with_session_lock` promises: a section may begin only
when every section still running has outlived its lease. `SessionStore` uses the
lock through it, and `SessionLock` is shown to implement it (refinement mapping:
the callers in their critical section, and those of them whose key expired).
The two components are thereby checked together without their product.

**SessionLock**: `key`/`keyTtl` are the Redis key; `phase`, `attempt`, `waited`,
`delay` are the locals of `with_session_lock`. `Acquire`, `AcquireBusy`,
`AcquireReplyLost`, `AcquireFails` are the outcomes of `SET NX EX`; `Sleep` the
backoff; `Leave`, `Release`, `ReleaseFails` the `finally`; `Crash` and `Expire`
the environment. Time is the time slept in the retry loop.

**SessionStore**: `row`, `cached`, `indexed` are the three places a session is
kept; each call has a method `op`, a step `pc`, and the Session object it carries
from await to await. Turns stand for the columns `update_session` writes together,
`meta` for the keys `promote_session` and `update_tags` set in the JSON column.
What the environment may do is chosen at the start of a behaviour (`faults`), so
that one run has behaviours with few faults, where the strong promises hold, and
with all of them. The owner check is not in it.

**SessionList**: `table` is the sessions table of one API key; `CountRows` and
`SelectRows` are the two statements of a page, `CreateRow`, `PromoteRow`, `TagRow`
and `DeleteRow` those of others. Equal `created_at` come in any order, another for
every page. `steady`, `gone`, `fresh`, `late` say what happened to a session while
the client walked.

**QueryStream**: `queue` with `None` as its end; `prod` walks through `_producer`,
`cons` through `generate` and its `finally`. `Leave` is the client, `Cancelled`
the SSE library. A generator suspended at a yield is not cancelled but closed
later, outside the cancelled scope; one that awaits is cancelled again at every
later await (`scoped`). `Faults` says which services may fail.

**AgentSession** and **WebSocketQuery**: `active` and `marker` are the Redis keys;
`phase` walks through `StreamQueryRunner.run`, `ask` through `interrupt`. The
connection adds its handler (`conn`), its task and the prompt being handled.

**EventStream**: a state machine over the SDK's messages (`received`), the events
(`sent`), the chunks of an OpenAI stream of the same events (`chunks`) and the
single query's aggregate (`single`), which runs beside the stream so that their
outcomes can be compared on the same messages; `Completion` is the chat completion
made of it. A block of the SDK (`SDKBlock`) is a dict or an object that says its
type, another word or nothing; `Converted` is what the API makes of it (`Block`).

**Registry**: one registry of the kind chosen at the start. Agents, skills, slash
commands and tool presets have a uuid and are not checked; agents can be shared;
projects are listed and compared before creation; MCP servers are keyed by name.
What the routes let through differs per kind: skills and servers whose id begins
with "fs:" (`FsNames`) are taken for files and cannot be changed. Every step is one
Redis command. `expected` is the abstract registry: what the calls would make if
each took effect at once at its end.

**Conversations** and **Runs**: one thread with its session and messages, one run,
one assistant. A call has an operation `op` and a step `pc`; in `Runs` also the
method of `RunService` it is in (`verb`) and the status or assistant it read
(`copy`). The executor is built from the same steps as the routes' calls, with its
`try` (`InTry`) and with the message list of `Conversations` for its prompt. What
the SDK answers is external. `ScanLimit` is `max_keys` of `scan_keys`, where a scan
stops and its result is cut.

**Webhooks**, **QueryConfig**: a hook from `HookExecutor` to its verdict; a query
from its route to the SDK's options. Files hold, per server name, an entry that is
good, refused by the schema, or dependent on an environment variable; a file of an
unexpected shape is `Odd`. `Continuations` are the sessions and flags a request may
name, `Resumed` what `OptionsBuilder` makes of them. `was` and `lasted` record what was in the sources at any
time, and all the time, while a query was put together.

**Checkpoints**: one step per Redis command of a creation, any number of creations.
**Lifetime**: `lifespan` from start to close with `ShutdownManager` in between.

**MCService**, **MCRecords** and **MCStream** put components that share no state side
by side in one run, the five small ones, the two kinds of records in Redis, the two
halves of a streaming query: `part` says which of them a behaviour plays, the others
keep their first state.

## 3. The runs

| Run | Instance | States | What it shows |
|---|---|---|---|
| `session_lock` | 2 callers, timeout 8 with delays 1, 2, 2, ... | 17 thousand | mutual exclusion up to expiry, no foreign release, every call ends, orphans go, the lock implements the lease |
| `session_store` | 2 calls of any method; entries expire, or also leases lapse and calls die | 34 thousand | the cache never shows a turn no UPDATE committed, fields stay, updates alone lose nothing, every call ends, the cache heals |
| `streaming_query` | the runner: up to 3 of 10 messages of dicts and objects with and without a type, all options, every ending; the queue: 4 events, queue of 2, client may leave, every service may fail | 588 thousand | the order of events and chunks, the agreement of stream, single query and completion, the files tracked those of the tool calls shown or hidden by a question; nothing lost, failures told, the agent not pulled, the status that of the errors looked at; the only way not to end is a full queue at the sentinel |
| `agent_session` | 1 HTTP stream, 2 prompts, 1 interrupt, every fault | 67 thousand | marked streams stop, the active key is exact while streams follow one another and always goes, one query per connection and none after it |
| `records` | registries: 3 calls on any of 6 kinds, 2 names, an entry that may be there, failures; assistants: 2 calls, a thread, 2 messages, an assistant, a run in any status it may rest in, scans of 2 keys at most, expiry, Redis errors, crashes | 960 thousand | index and records agree, calls that do not overlap act as if atomic, projects differ, entries without record leave the index; of the assistants see section 1 |
| `service` | 7 plans of files, registry and request with up to 2 queries and 2 changes; every hook; 3 checkpoints; 4 sessions and 2 writes during a walk; 3 handlers | 2.0 million | see section 1 |
| `find_*` | as above, one property each | | the disagreements of section 4 |

**Why the bounds are enough.** The races of the store, of the control keys, of
runs and assistants and of the registries need two calls, and where a third
heals between them (the registries) there are three;
two names make both the equal and the different case. A queue of two
is the smallest that is neither always empty nor always full, and four events
fill it twice. Two prompts make one replace the other, with an HTTP stream
beside them. Three messages give an answer, something after it, and a result,
in any order. A timeout of eight lets the lock's delays reach their cap and a
lease end within one wait. A list of one message of up to four cuts, and the
clock has three seconds, so that messages share one or not; a scan of two keys cuts
off the third, and of fewer finds all. Every plan of a query
(`MCPlans`) is there for one interplay: all tiers of files with all a request may
ask, odd files, the registry changing twice under one query, two queries of one
connection, two that heal one index; a change of a file writes what makes an entry
come, go or be refused (`Changed`). Three creations let a checkpoint come before,
beside and after another; three handlers let two share a session beside a third.
A walk needs two pages at least, which four sessions and a page of one or two
give, two of them born at once; two writes move a session out and another in.
The proofs remove the bounds where they apply.

**Deadlock** is not checked where all calls end and nothing is left to do
(`CHECK_DEADLOCK FALSE`); that calls do end is a liveness property there, except
in `records` and `service`, whose calls have no loop without a bound.
`streaming_query` checks deadlock: the runner's last state has a step of its own, and
only the queue may stop anywhere.

**Symmetry** is used in `service` (the creations of checkpoints, checked for
safety only) and in `records` (the callers of a registry): the temporal properties
there, `DroppedWhenDead` and `LifeCycle`, are action properties, which symmetry
leaves sound.

**Fairness.** Weak fairness of the steps a task takes by itself: the event loop
runs every task that is ready, and Redis and PostgreSQL answer or fail. In
`session_lock` the function under the lock is assumed to end; in `streaming_query`
the agent's stream goes on (a finite number of events); in `agent_session` it is
not even assumed that the agent ever ends. Weak fairness of an expiry is the
TTL the code sets, and only there: a key set without one would not expire. No
fairness is assumed of clients, interrupts, failures or crashes.

## 4. Where code and documentation disagree

| Run | The repository says | The code does |
|---|---|---|
| `find_lost_increment` | "atomically increment total_turns by 1" (`session.py:458`), "the entire read-modify-write cycle is atomic" (`:510`) | `get_session` re-caches an old row outside the lock; the next locked increment starts from it |
| `find_stuck_producer` | "client disconnect unblocks producer" (`tests/integration/test_query_backpressure.py:91`) | `put(None)` on a full queue nobody reads never returns, and `generate` waits for it |
| `find_unflagged_error` | "Error events should set is_error flag." (`tests/unit/routes/test_query_stream.py:164`) | the error event `_producer` makes itself does not: the client is sent an error, the session recorded as completed |
| `find_uninterruptible` | "Return True if session is active." (`session_tracker.py:32`), "Interrupt a running agent session" (`service.py:367`) | the first of two streams of a session to end deletes the key of both |
| `find_stale_interrupt` | "Only active sessions are marked as interrupted to avoid stale signals" (`service.py:381`) | the marker outlives its stream and stops the next one |
| `find_unresumed` | "Resume: Continue existing session" (`API_ENDPOINTS.md:1730`) | `resume_session` sets `continue_conversation` too, and `OptionsBuilder` then tells the SDK of no session |

Met while modelling, without a run of their own (where a property is named that the
code breaks, it is stated in its module, and TLC finds it violated when it is added to
the run of its component):

- Sessions. `delete_session` deletes the row "to prevent zombie sessions"
  (`session.py:562`), but after the entry: a reader in between has the row and caches it
  again, and the deleted session is found until the entry's TTL (`DeletedIsGone`). It
  answers "False if not found" (`session.py:524`) by the entry alone: of a session whose
  entry has expired the row stays (`NotFoundIsAbsent`). `promote_session` and
  `update_tags` overwrite each other's key (`FieldsStay` says that nothing else does).
  `GET /sessions?mode=code` omits the sessions without a mode that the response shows
  as "code".
- Control. A query that a prompt replaces while it is suspended at a yield unregisters
  when it is finalized, perhaps under its successor, which then runs without being
  active and cannot be interrupted: `RunningIsActive` is broken by one connection too.
- Hooks. `execute_hook` "returns default allow response" on an error or a timeout
  (`webhook.py:134`); `_error_response` denies the use of a tool (`webhook.py:96`), as
  the model does (`ErrorsAllow` states the docstring, `FailsClosed` what the code does).
- Streams. "Extracts file paths from Write and Edit tool invocations"
  (`handlers.py:526`): an object or a dict without a `type`, as the SDK's dataclasses
  are, becomes a text (`handlers.py:576`) and is passed over (`EveryFileTracked`). The
  final chunk "has `finish_reason`" (`README.md:311`), but an agent that raises ends an
  OpenAI stream with `[DONE]` alone (`EveryStreamFinishes`). A completion that is not
  streamed finishes with "stop" or "tool_calls" only, as
  `SingleQueryResponse.stop_reason` is never set. A user's message in the SDK's
  stream adds its text to an OpenAI stream, never to a completion.
- Runs. A completion that read the run before a cancellation undoes it, and a run
  that was cancelled before its execution is executed and completed
  (`FinalStaysFinal` states what the docstring of `RunService` says of it). A thread
  of more than 1000 messages is listed from the 1000 keys a scan finds first: a
  message that precedes those shown may be missing, with nothing to tell it
  (`adapters/cache.py:314-328` logs a warning).
- Queries. An empty `mcp_servers` is an "explicit opt-out" (`API_ENDPOINTS.md:1692`),
  but on POST /query the enrichment adds discovered servers first
  (`OptOutIsHonoured`); where any are discovered, the servers of the application
  and of the key are never asked. A fork tells the SDK to resume the new session
  instead of "inheriting parent history" (`API_ENDPOINTS.md:1731`).
- Registries. Two projects created at once can share a path although
  `projects.py:72` says "if name/path are unique", and an update renames without a
  check (`ProjectsDiffer` states what does hold). A server created under a name
  that begins with "fs:" can be neither changed nor deleted.
- Lifetime. `RedisCache.ping` answers False instead of raising, so that the retry
  of `init_cache` never happens. No query registers with `ShutdownManager`, so the
  shutdown does not wait for "active sessions" (`API_ENDPOINTS.md:1713`). Two
  handlers of one session share one entry of its set: the first to end takes it.

## 5. What is proved

All theorems hold for every value of the constants under the assumptions the
modules name (a queue has room for one event, the first delay is positive and
within the cap, `None` is no id and no record, prompts are streams that are not
scoped, a run is created once, sessions and messages are finitely many, and the
like: facts of the code's constants and types).

- **SessionLockProofs.** `MutualExclusion`, `NoForeignRelease`, `WaitIsBounded`,
  `LockImplementsLease`. Mutual exclusion is not inductive: it needs that a
  holder that has not outlived its lock finds its own token in the key
  (`HoldersOwnKey`), that a token is never drawn twice, and that only a former
  holder can be expired. The refinement then maps each step to one of the lease
  or a stutter.
- **SessionStoreProofs.** `CacheNeverAhead` (as long as nobody deletes): every
  copy of the session in flight is behind the row, because the row is written
  first. `WrittenFieldsStay`: a field once written stays, because an UPDATE of the
  turns leaves the JSON column alone and a row is inserted only where none is.
  `LockedIncrementsCount` (only entries expire): among updates at most one
  call is inside, and its copy is exact.
- **QueryStreamProofs.** `NothingIsLost` for every queue size: delivered, in hand
  and queued are together the log, while the client stays; the strengthening says
  where the sentinel can be. `PullsStop`. `FailuresAreTold`, `StatusIsTrue`: the same
  for what the log says, that a failure is its last event and that `is_error` is set
  exactly by an error of the agent's stream in it or on its way there, and not by the
  producer's own (`FlaggedErrors`); at the end all of it has been sent.
  `NobodyWaitsInVain`, the safety half of `EndsUnlessFull` (stated in this module, no
  run of its own): nothing follows the sentinel, a producer that is over has left
  it to a generator that still takes (`Sealed`), and one that is waited for is
  interrupting the agent or at the sentinel (`Joined`); so the only two that can wait
  for each other are the pair of the finding.
- **AgentSessionProofs.** `StopsSoon`: a stream that has taken one event with the
  marker set is on its way to the check or past it. `ActiveIsExact`: while streams
  follow one another the key is exactly their registration.
  `OneQueryAtATime`, `NothingRunsOn` (WebSocketQuery): only the task's stream of a
  connection's prompts runs; a prompt is opened, and the connection closed, only when
  it does not. The session's other streams are `Quiet` about the prompts.
- **EventStreamProofs.** `OrderKept`: before the stream is closed nothing but
  messages, questions, partial messages and errors were sent (`OrderInv` ties the
  phase to the last event). `FilesAgree`: the files are those of the messages that were
  sent, or hidden by a question. `ChunksInOrder`: until the result the
  OpenAI stream is one role and content (`Led`, `Open`), the result adds the one
  finish, and it says "tool_calls" because `HasToolCalls` looked at what was sent.
  `OutcomesAgree`: while a query runs, the blocks the single query collected and the
  chunks streamed say the same, type by type, unless a user's message showed one
  (`Agree`), and the single query's flag is that of a lost memory (`OutcomeInv`).
  Both need what `Only`, the filter in the model, does with a sequence that grows
  (`OnlyConcat`, `ContentSays`): see below on induction.
- **RegistryProofs.** `NoDanglingEntry`. The invariant adds the order of the two
  writes (an id about to be listed has its record; one about to be erased is not
  listed), and that a creation meets a deletion of the same key only if it is a
  server's and the overlap was observed: a fresh uuid is unknown until listed.
  `LoneCallsAreSerial`: on an entry no two calls overlapped on, record and index are
  those of the atomic registry (`expected`), save one write between the two of the
  call that is there (`Serial`). `ListsDropTheDead` (an action property): what a list
  is about to drop is dead still (`Dead`). `ListedProjectsDiffer`: a creation saw, and
  compared with, every project whose own it did not overlap (`Compared`), and a path
  never changes (`PlaceHeld`).
- **RunsProofs.** `RunsHaveWorkers`: the invariant says which steps of a call have
  a run in progress to answer for, and that each of them leads to a write or a
  refusal. `ThreadsHaveSessions`: a thread without a session has a deletion
  between its two steps, broken off, or a copy that crossed one. `RunsFollowMachine`
  (an action property): until it is overtaken, a call that works on the run finds it
  in progress or expired, and what it writes back is what its method takes.
  `AssistantIsCurrent`: only an update and a deletion write Redis after the row.
  `ListsAreRight`: what is there all along is there and known to a list under way
  (`Scanning`), unless there were more messages than a scan finds; a scan that comes to
  its limit with no more than that has found all (`FewBefore`). A modification holds
  the message as it was made (`HeldIsOld`), so that no change moves a message in the
  order.
- **ServiceProofs.** `HooksFailClosed`: "allow" is told only by `ParseAnswer`, of
  what the webhook said. `WaitIsTrue`: a handler that works has its session in
  `_active_sessions` unless another took it along, and the event is set only with
  the set empty and the manager refusing. `CheckpointsStayListed`: a checkpoint in
  its list is in every copy of the list that will be written back, and what an
  index names has its record. `RequestsWin`: after the enrichment a request's own
  names are still its own, and a merge takes them as they are. `ServersAreAsFound`:
  whatever a query holds at a step comes from a source it has read, in a version that
  was there (`was`), and what lasted is in every copy. `WalksSeeAll`: for a session
  that passes all along, as many newer ones pass as there are rows before it: not
  shown and none of them gone, it is still ahead of the offset (`Ahead`); shown and
  none fresh, it is behind (`Behind`). A page shows by position (`PageShows`).
- Type invariants of the seven larger components.

Only model-checked: all liveness properties and everything about ENABLED, which
TLAPS does not reach: `AttemptsEnd`, `OrphansGo`,
`MethodsEnd`, `CacheHeals`, `EndsUnlessFull`, `InterruptEndsStreams` and
`ActiveGoes`. Every invariant and every action property of the
runs is a theorem. The library's induction theorems take an operator, which the
provers cannot instantiate; `NatSets` and `SeqSets` (EventStreamProofs) state
induction over the numbers and over sequences for a set instead, from the
well-foundedness of `<`, and each proof by induction defines the set it is about.
The modules have no RECURSIVE operator: `Only` is a recursive function.

## 6. Assumptions of the models

- Redis executes one command at a time; PostgreSQL commits a statement or does
  not, and stamps a row with the beginning of its transaction. Redis loses keys
  only by TTL (its own restart is not modelled).
- uuids and tokens never repeat.
- A cancellation is delivered before the task's next step.
- One session, one registry, one connection, one thread with one run and one
  assistant per instance of a model: the code shares nothing between two of them.

## 7. Plan

What is left, in this order:

1. Owner checks, once the routes reach them with more than one key.
2. `list_runs`, `list_assistants` and the cache-backed listing of sessions, which
   scan as `ListMessages` does.
3. The safety half of the other liveness properties as theorems: that each step of a call
   brings its end closer, by a rank that fairness then makes run out.
4. The executor's SDK methods, when they are written.

## 8. Not modelled, and why

Parts of this commit are reached by nobody: the run executor by tests only, and
its two SDK methods raise `NotImplementedError` (their answer is external in
`Runs`); `RunStreamingAdapter`, the hooks of a query and the creation of
checkpoints have no caller in the query path; `ShutdownManager.register_session`
has none but tests. The models take their callers to be arbitrary, except
`RunStreamingAdapter`, which has no state that could be wrong. The application
gives the assistants' services no database (`dependencies.py:656`, `:684`): the
model has both cases. The listing of sessions from the cache is taken only without
a database or a key, which the route never is.

Memory is a library's (mem0) behind a thin adapter; what a query does with it is
in `EventStream` and `QueryConfig`. Authentication compares one key, rate limiting
is a library's, logging and correlation keep no state. Schemas, validators,
exceptions and configuration are declarations. Discovery of commands and skills
reads files once. Migrations and scripts run by hand. Inside modelled components,
token usage, costs, texts and timestamps are abstracted: no property tells them
apart. The formatting of a tool call is not compared: a name or id of another type
than a string is spelt "None" in a stream and "" in a completion. SCAN may return a
key twice while Redis resizes its table; the model returns it once.

Some races are outside the properties. `CachedAssistantIsRow` does not speak of an
older copy that `get_assistant` caches over a newer row, which needs the database the
application does not give; `CheckpointsListed` not of creations that overlap, of which
one drops the other from the list, and which nothing but tests can make;
`CacheShowsCommitted` not of an entry that is missing because its write failed, which
the next reader repairs (`session.py:199-204`).

## 9. Running

```
tlc -config MCSessionStore.cfg MCSessionStore      # any cfg with its module
tlapm SessionLockProofs.tla
```
