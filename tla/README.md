# A verification development for composable-agents

composable-agents is a FastAPI server that turns YAML documents into LangGraph
"deep agents" and lets clients talk to them. This directory holds TLA+ modules
translated from its source, configurations that check them with TLC, and
proofs checked with TLAPS. Paths such as `use_cases/send_message.py` are
relative to `src/application` or the directory named.

## The system

The server is one asyncio process. A request runs alone between two `await`s,
and any other request may run at an `await`; there are no threads that share
its state. What survives the process is in MinIO (YAML documents), PostgreSQL
(rows, LangGraph checkpoints, store files) and Phoenix (prompts).

| Part | State it keeps | Operations |
|---|---|---|
| Agent configuration (`use_cases/{create,update,delete}_agent_config.py`, `_subagent_ref_utils.py`, `routes/agents.py`) | a YAML object per name in MinIO, a metadata row per name in PostgreSQL | create, update, delete, get, list; each change validates the `agent_ref`s of the subagents, an update or deletion invalidates the runner and scans for dependents |
| Registry (`infrastructure/persistent_registry`) | the runners by agent name, one lock | get_runner, invalidate, close |
| Factory (`infrastructure/deepagent/factory.py`) | process-wide store and checkpointer, created lazily | build a graph: checkpointer, store, tools, prompt, skills and memories, model with the user's credentials, subagents |
| Skills, memories, file API (`factory.py`, `infrastructure/store_file`) | files under a namespace per user | cleanup and copy at each build; put, get, list, delete by the API |
| Threads (`infrastructure/postgres_thread`) | a row per thread, which names an agent | create, get, list, delete with cascade |
| Turns (`use_cases/send_message.py`, `stream_message.py`, `infrastructure/deepagent/adapter.py`) | the checkpoint of a thread, the trace of a turn under way | invoke, stream, resume after a human decision |
| Trace and history (`infrastructure/postgres_trace`, `use_cases/get_thread_history.py`) | trace rows | add, add_batch, list; group into turns |
| Chat routes (`routes/chat.py`, `routes/websocket.py`) | the connection | JSON, SSE and WebSocket |
| Authentication (`security.py`, `domain/services/auth`, `infrastructure/auth`) | the cached JWKS under a lock | authenticate, decode a token |
| API keys (`infrastructure/postgres_api_key`) | a row per key | create, list, revoke, find, touch |
| LLM settings (`infrastructure/postgres_user_llm`) | a row per user, encrypted | upsert, get, delete, decrypt |
| Prompts (`infrastructure/prompt_management`) | a cache of ten entries with expiry | get, create, update; retries |
| MCP (`infrastructure/mcp`, `infrastructure/env_utils.py`) | a list of clients | resolve headers for the user, load tools, close |
| Bootstrap (`main.py`, `dependencies.py`) | the composition root, the store of the file API | migrate, wire what can be reached, shut down |
| Migrations (`alembic`) | the schema and the rows of the database | twelve revisions up and down, one of which moves the messages |
| Schemas, YAML loader | none | pure translations |
| Tracing, logging | none that the program reads | observe |

How they interact: a chat request reads its thread, asks the registry for the
runner of the thread's agent, and the registry builds one on a miss by reading
MinIO and calling the factory, all while it holds its lock. Configuration
requests write MinIO, then PostgreSQL, then take the same lock to drop runners.
A runner keeps no conversation with the `postgres` checkpointer, and all of it
with the `memory` one.

What is hard, per part:

* configuration and registry: two stores without a transaction, a cache filled
  from reads that other requests overtake, a scan over documents that change
  under it, failures that are logged and swallowed. Correct means: runners that
  are out of date leave the cache, no runner silently replaces another, the row
  describes the document, every request ends;
* factory: objects that are published before they are set up, and a fallback
  that different callers take at different times. Correct means: agents and file
  API see the same files;
* namespaces: a read and a write with an await in between, against the file API.
  Correct means: an agent sees the skills it selects and no others;
* turns: no lock per thread, a trace that is written apart from the checkpoint,
  clients that go away, resumes that race. Correct means: the history shows each
  turn once and in order, an interrupt is answered once;
* authentication, prompts, settings: caches with expiry, revocation during use,
  credentials read at another time than they are used. Correct means: retired
  keys and old prompts are used for a bounded time, revocation sticks, a user is
  known by what the request brought, the key of one provider does not go to the
  URL of another;
* migrations: tables and rows that are dropped on one way and needed on the
  other. Correct means: no message is lost, and no step meets a schema it does
  not fit.

`PROJECT.json` lists these hazards at their lines, with the properties that
would catch them.

## Modules

### AgentConfigs

The life of an agent configuration. State: `yaml` (MinIO), `row` (PostgreSQL),
`runners` and `lock` (registry), and `req`, one record per request: `pc` names
the call the request is about to make, the other fields are its local variables.
`unannounced` is history: the agents whose document was changed by a request
that ended without telling the registry (a creation that overwrites an object, a
call that failed after the write, a scan that could not list or read).

A document is an element of `Configs`; all that is known of it is which agents
its subagents reference (`Refs`). An action is the code of a request up to its
next await:

| Code | Actions |
|---|---|
| `CreateAgentConfigUseCase.execute` | `StartCreate`, `RejectRef`/`AcceptRef` per reference, `CheckExists`, `Put`, `Save`, `Commit`/`CommitRaises` |
| `UpdateAgentConfigUseCase.execute` | `StartUpdate`, `GetRow`, the references, `Put`, `Save`, `Commit`/`CommitRaises`, `Invalidate`, the scan |
| `DeleteAgentConfigUseCase.execute` | `StartDelete`, `GetRow`, `StatYaml`, `RemoveYaml`, `SelectRow`, `DeleteRow`, `Invalidate`, the scan |
| `invalidate_dependent_agents` | `ListYamls`/`ListRaises`, `ScanYaml`/`ScanRaises`, `InvalidateDependent`, `ScanDone` |
| `PersistentAgentRegistry.get_runner` | `StartGetRunner`, `AcquireLock`, `ReadOwnYaml`, `ReadReferencedYaml` per reference, `CacheRunner`, `AbortBuild` |
| any call that raises | `CallRaises` (no effect), `AckLost` (effect, then the error), when `Faults` |
| the process dies | `Restart`, when `Restarts` |

`session.merge` is a select and the commit that follows is an INSERT or an
UPDATE; another request may run in between, which is why `Save` and `Commit` are
two actions and why `CommitRaises` exists (a row that has appeared, a row that
has gone). A runner is the set of `<<name, document>>` pairs it was built from.

### MCAgentConfigs

A leaf agent with two documents and a parent whose document references the leaf,
or nobody after an update: the smallest instance in which a change of one agent
makes the runner of another stale, and in which an update changes who depends on
whom.

### AgentConfigsProofs

The TLAPS proofs, described below.

### Conversation

Turns of a conversation. A turn is one request: a message (`send`), decisions on
an interrupt (`resume`), an SSE stream (`sse`) or a WebSocket frame (`ws`). State:
`thread` (the row of `threads`; ids are never used again), `rows` (`trace_events`),
`memory` (per thread, the LangGraph checkpoint: messages and the pending
interrupt), `turn` (a record per request) and `clock`.

LangGraph and its checkpointer are external. What the adapter relies on is
modelled: a run loads the checkpoint when it starts, works on its own copy and
writes it back after each step, so that the last writer wins; a new message
discards a pending interrupt; a resume without a pending interrupt runs nothing
and leaves the state as it is. Messages are known by role and turn, an
interrupt by the turn that caused it (tool call ids are unique). An interrupt
may ask for several decisions (`Calls`), and a resume then begins with as many
decision events, numbered from 0 (`Leads`, `Decide`). A `step` is a message of
the model that calls tools which need no decision: it is in the checkpoint, and
no row is made of it. A result of a subagent's tool is the reverse, a row that
is no message of the checkpoint (`SubagentResult`; the stream is opened with
`subgraphs=True`). The model is at work after a message or after results of
tools (`Thinking`), tools after a step or after decisions (`Tooling`). The
clock ticks when a turn begins, so events of one turn have equal timestamps and
only `sequence` orders them, the worst case for a sort.

| Code | Actions |
|---|---|
| `CreateThreadUseCase`, `DeleteThreadUseCase` | `CreateThread`, `DeleteThread` (rows by cascade; the checkpoint stays) |
| `routes/chat.py`, `routes/websocket.py` | `Start`, `GetThread` (twice for SSE), `Deliver`, `Disconnect` |
| `SendMessageUseCase`, `StreamMessageUseCase` | `GetRunner`/`RunnerMissing`; `CheckThread`, `Insert` once for a send, per event for a stream |
| `_prepare_resume_input`, `_build_resume_decisions` | `PrepareResume`, then `Decide` for each interrupted call |
| `_collect_trace` | `Emit` in each action that makes an event: `GetRunner`, `Decide`, `ContentChunk`, `ToolResult`, `SubagentResult`, `ReadStatus`; `LoadCheckpoint`; `ReadValues` and `ReadStatus`, the two reads of the state after the run |
| the graph | `ContentChunk`, `CallTools`, `ToolResult`, `SubagentResult`, `Answer`, `GraphRaises` |
| `_stream_intermediate_events` | `IdleTimeout` |
| the foreign key of `trace_events` | `CanInsert` |
| failures | `CallRaises`, `AckLost`, `Restart` |

### ThreadLog

What the trace promises to a reader, in three actions (`Open`, `Record`,
`Erase`): a turn's entries are numbered from 0 without gaps, the first is a
message or a decision, more decisions may follow a decision and none of the two
comes later (`Opened`), nothing follows the answer, a turn is in one thread,
entries are only added, and a deleted thread loses all of them for good.
`Conversation` implements it under the mapping `Log` (property `LogIsKept`):
its rows, seen per thread and turn as numbered entries.

### ThreadHistory

`GetThreadHistoryUseCase.execute` (`Earlier`, `SeenBefore`, `First`, `HistoryTurn`,
`History`) and `Thread.messages` (`ThreadMessages`) as operators on the rows of
`Conversation`, and the properties that relate them to the agent's memory. A list
that the code sorts is the set of its events with their order: `Earlier` is the
key of the sort (events with equal keys are in any order), `SeenBefore` the order
in which the loop meets the turns, and `First` what `next(...)` takes of a sorted
list. `ShownBefore` is the order of the whole history, turn after turn and, in a
turn, human message, events and answer. Rows and checkpoint do not hold the same
things: `Unshown` are the messages without a row, `OfSubagent` the rows without a
message, and `Lists` compares the rest. Nothing needs a recursive definition, so
the projections can be proved about.

### MCConversation

Instantiates `ThreadHistory`, which extends `Conversation`. The interrupt of the
first turn asks for two decisions, those of the others for one (`MCCalls`).

### ConversationProofs, ThreadHistoryProofs

The TLAPS proofs about `Conversation` and `ThreadLog`, and, on top of them, about
`ThreadHistory`, described below.

### SharedStore

The store of skills and memories and the process that opens it. State: `proc`
(whether the process is up, whether the registry is wired, the store the file
API took, the two globals `_pg_store` and `_pg_checkpointer`, and how many pools
were opened), `tables` and `saverTables` (what `setup()` left in PostgreSQL),
`files` (per store, namespace and path a text and the user whose request or turn
wrote it, which is history) and `left`, the bounds. A path is any of the paths a
request may name: `_normalize_path` refuses `..` only, so that the file API also
writes and deletes under `/agents/<name>/`, where the agents have their copies. A
call that opens a store has three outcomes: the pool cannot be opened, `setup()`
raises after the global is set, or all is well.

| Code | Actions and operators |
|---|---|
| `main.lifespan`, `init_persistence` | `StartUnwired` (MinIO cannot be reached: the server starts without a registry), `StartWired` with the outcome for the store |
| `close_persistence`, the process dies | `Stop` |
| `_create_postgres_store`, `_create_postgres_checkpointer` | `OpenStore`, `OpenSaver` |
| `_require_store_file_repository`, `put_file`, `delete_file` | `ApiStore`, `PutFile`, `DeleteFile`, of any path |

### AgentBuild

Extends `SharedStore` with the registry's runner of one agent and the build of
it. The runner is shared by all users; the build has a user, whose namespace it
copies into and whose credentials it takes. `build` holds its local variables
and, as history, what each file held since the build got its store (`seen`),
whether a removal was skipped (`missed`), and the files that a user or an agent
wrote since the build looked for stale copies and that no call of it replaced
(`byHand`, which the runner keeps; `Notes` adds to it). `turn` is the last use of
the runner.

| Code | Actions |
|---|---|
| `get_runner` | `Run` (a hit), `BeginBuild` (a miss, under the lock), `CacheRunner` |
| `create_agent_from_config` | `GetSaver`, `GetStore`, `GetTools`, `ResolveModel` |
| `_cleanup_stale_agent_files` | `Search` (at most `SearchLimit` items), `DeleteStale` per item, `Cleaned` |
| `_copy_skills_to_agent_ns`, `_copy_memories_to_agent_ns` | `ReadSource`, `WriteCopy` per source |
| a call of the store that raises | `StoreCallFails`: also when the tables are missing |
| around the build | `FileApi`, `ToolWrites` (a file tool of the agent, which its `StoreBackend` lets write any path of the namespace of the turn's user), `Reconfigure` and `Invalidate`, `SetLlmKey`, `StopAll` |

`AgentConfigs` has the same registry with its lock, its failures and its
dependents, over documents; here the documents are two selections of files and
the lock is the rule that there is one build at a time.

### MCAgentBuild

Two skills with the same last path segment, a third skill and a memory; one
version of the agent selects the first two, the other the rest.

### Access

Authentication and API keys. State: the deployment (database role exempt from
row security or not, auth service wired or not, master key set or not), `keys`
(rows of `api_keys`), the provider's document `kids` with the times at which
signing keys were `retired`, `jwks` and `jwksLock` (the adapter's cache and
lock), the clock, and `auth`, one record per request. Signature and claims of a
token are one flag; an API key stands for its hash.

| Code | Actions |
|---|---|
| `verify_credentials`, `verify_credentials_ws` | `Arrive`, `Authenticated`, `Refuse`, `Leave`, `MasterKeyHandshake` |
| `AuthService.authenticate` | `Decide`, `WithoutToken`, `FindKey`, `TouchKey` |
| `JwtAdapter` | `TokenFromCache`, `CacheMiss`, `Recheck` and `BeginFetch` (inside the lock), `JwksAnswered`, `StoreJwks`, `FetchFails`; `SigningKey` and `Verifies` |
| `PostgresApiKeyRepository`, the routes | `Found`, `CreateKey`, `SelectToRevoke` and `Revoke` (two statements), `StatementFails`, `Finish` |
| `rls_listener`, the policy of `api_keys` | `Visible` |
| identity provider, time | `Rotate`, `Tick` |

A socket that was refused has been answered with 401 by the dependency, and its
endpoint still runs: it goes to `route`, where only `Leave` is left for it.

### PromptCache

The versions Phoenix keeps of each prompt, the routes that create them, with the
retry and the translation of errors around each attempt, and the cache in front
of `get_prompt_content`, an LRU of entries with expiry. The routes build a
provider of their own (`get_prompt_manager`), so they never touch the cache that
agent builds read.

### LlmSettings

The row of `user_llm_settings` under requests that overlap: PUT and DELETE are a
read and a write each, an UPDATE sets the columns that differ from what was
read. The Fernet key changes with the process unless one is configured.

### Migrations

Every revision as what it needs, what must be absent, what it makes and drops,
up and down; the copy of the messages in 006 and back; a run of alembic as one
transaction, which the first step that raises takes back. The application
stores messages between runs at the revisions it fits.

### HitlPairing, McpHeaders, ResponseSchema, YamlConfig, Conversions

Functions of the code as operators, each with what it promises stated without
it: `ResumeInput` (`_pair_action_requests`, `_build_resume_decisions` and
`_prepare_resume_input`: positional decisions from decisions by tool call id),
`ServerConfigs` (`load_tools` up to the client, `resolve_headers_drop_empty`),
`ObjectModel` (`schema_utils.py`: types from JSON schema, against `Conforms`,
what JSON Schema accepts), and `LoadFromString` and `Load`
(`YamlAgentConfigLoader`). The value of a header is the set of its parts (texts,
variables, placeholders of a user): the order in which they are joined decides
nothing. `ResponseSchema` uses `RECURSIVE` operators and is for TLC only.

`Conversions` puts the three others into one specification, so that what they
promise can be stated of its behaviours: the input is any the callers may hand
over (`Interrupts`, `Loads`, `Documents`), and the one step (`Resume`,
`LoadTools`, `LoadDocument`) computes the result.

### MCComponents

The components that do not interact, from `Access` to `YamlConfig`. A behaviour
explores one of them, chosen at the start (`part`); the functions are those of
`Conversions`, and `ObjectModel` with a step of its own.

### AccessProofs, AgentBuildProofs, LlmSettingsProofs, PromptCacheProofs, ComponentsProofs

The TLAPS proofs about `Access`, about `SharedStore` and `AgentBuild`, about
`LlmSettings`, about `PromptCache`, and about `Migrations` and `Conversions`,
described below.

## Runs

| Run | Instance | Checks |
|---|---|---|
| `agents_serial` | 1 administrator, 2 users, both agents have threads, no failures; fair | `RowDescribesYaml`, `RunnerNotReplaced`, `StaleRunnersGo`, `RequestsEnd` |
| `agents_concurrent` | 2 administrators (symmetric), 1 user on the parent, failures and restarts | `TypeOK`, `CacheCoherence` |
| `agents_stale` | 1 administrator, 1 user, failures | finds a violation of `NoStaleRunnerAfterUpdate` |
| `agents_rowonly` | 2 administrators, 1 user, no failures | finds a violation of `AgentWithRowHasYaml` |
| `conversation_serial` | 1 thread, 3 turns that do not overlap, one of them with two decisions to ask for; fair | `HistoryMatchesMemory`, `MessagesMatchHistory`, `AwaitingIsPending`, `AnswerIsOwn`, `DecisionsApplied`, `TurnsEnd` |
| `conversation_overlap` | 1 thread, 2 turns at once, failures and restarts | `TypeOK`, `SeenIsStored`, `NoEventOutlivesThread`, `LogIsKept` |
| `conversation_sequence` | 2 turns, one after the other | finds a violation of `SequenceMonotonicPerThread` |
| `conversation_truth` | 2 turns, one after the other | finds a violation of `TraceTellsAll` |
| `components` | each part on its own; `Access` with one HTTP request and one socket in three deployments, fair | `AccessTypeOK`, `RejectedStaysOut`, `IdentityIsEarned`, `RetiredKidBounded`, `FetchOnlyWhenStale`, `RevocationSticks`, `RequestsAnswered`; `ServedPromptIsRecent`, `OneVersionPerRequest`; `KeyGoesWithUrl`, `ConfiguredKeysReadable`; `NoTurnLost`, `StepsFit`; `DecisionsReachTheirCalls`, `ServersGetOwnCredential`, `ConformingAnswersAccepted`, `StoredDocumentsLoad` |
| `access_rowsecurity` | `Access` under a role that row security binds | finds a violation of `ActiveKeyAuthenticates` |
| `agent_build` | 2 users (symmetric), 1 failing call, 2 writes, 2 starts | `BuildTypeOK`, `AgentsUseApiStore`, `OnePool`, `OnlySelectedSkills`, `CopyWasCurrent`, `NamespacesApart` |
| `agent_build_credentials` | 1 user, an agent without files | finds a violation of `OwnCredentials` |

* `CacheCoherence`: a cached runner, or one being built, that was made from a
  document since replaced or deleted is about to be dropped by the request that
  made the change. The exceptions are exactly the changes in `unannounced`.
  This is what the lock around the whole build and the order put, save,
  invalidate, scan are for, and it needs two actors to break. An update whose
  `put` succeeds and whose `save` raises is one of the exceptions: nothing is
  invalidated then, and no property promises that it is.
* `RunnerNotReplaced`: a cached runner leaves the cache only by being dropped.
* `StaleRunnersGo`: without overlapping changes and without failures, a stale
  runner does leave the cache.
* `RowDescribesYaml`: without overlapping changes and without failures, row and
  object agree whenever no request is at work on the agent.
* `RequestsEnd`: every request ends, whoever waits for the lock included.

The last two and `StaleRunnersGo` need one administrator: with two, requests on
one name overlap, and `agents_rowonly` shows that the stores then part for good.
That run and `agents_stale` each refute a sentence of the documentation; the
findings in `PROJECT.json` quote them.

* `SeenIsStored`: what a client received of a turn is in the trace while the
  thread is, whatever fails afterwards.
* `NoEventOutlivesThread`: a deletion that overtakes a turn is not undone by it.
  The lookup of the thread and the insertion are two steps; the foreign key
  closes the gap.
* `LogIsKept`: the trace implements `ThreadLog`, with a resume of two decisions
  among its turns.
* `HistoryMatchesMemory`: for clients that wait for their turn, the history of a
  thread whose turns ended well shows what people said, what tools returned and
  what the agent answered as the agent remembers it, no more and no less and in
  its order. It is stated without the rows that hold results of subagents' tools
  and without the messages that only call tools, of which no row is made: a
  reader of the history sees the result of such a call, and not the call.
  `AwaitingIsPending`: its newest event asks for a decision exactly when the
  agent waits for one. `DecisionsApplied`: a resume that ends well had its decisions taken for
  the interrupt they named. `AnswerIsOwn`: an answer that is read back from the
  checkpoint is the turn's own.
* `MessagesMatchHistory`: the two projections of the trace show the same messages
  in the same order, on turns that failed or were cut off too.
* `TurnsEnd`: every turn ends, though a graph may hang.

With overlapping turns the checkpoint is written by whoever comes last and none
of the four properties about memory holds: the code has no lock per thread. They
are checked for clients that wait, whose threads may still be deleted, streams
cut and graphs fail at any moment. The two violations contradict sentences of the
repository's README, quoted in `PROJECT.json`: a sequence number is not monotonic
in a thread, and the trace is not the only place where a conversation persists.

Authentication and keys:

* `IdentityIsEarned`: past the authentication a request is the user of its own
  good token, or, without a token, the owner of a key that was not revoked when
  it arrived. A bad token does not fall back to the key.
* `RejectedStaysOut`: a socket answered with 401 is not accepted afterwards, by
  the master key path in particular.
* `RetiredKidBounded`: a token signed by a retired key is accepted for less than
  the TTL of the cache and one fetch: the document may be old when it arrives.
  The `timeout=30.0` of the HTTP client limits each of its phases, not their sum,
  so `FetchTimeout` stands for the longest fetch there is.
* `FetchOnlyWhenStale`: one fetch at a time, and none while the cache is fresh.
* `RevocationSticks`: neither the late update of the last use nor a second
  revocation undoes a revocation; a key does not change its owner.
* `RequestsAnswered`: every request is answered, with an identity provider that
  fails as well.

Prompts, settings, migrations:

* `ServedPromptIsRecent`: what a build is given was current at most one TTL
  before, however often the entry is read. Nothing invalidates: an update by the
  routes reaches builds by expiry only.
* `OneVersionPerRequest`: a lost answer does not make a request store two
  versions. It holds because the retry never sees the errors it waits for: the
  method translates them first. Moving the translation outside the retry would
  break it.
* `KeyGoesWithUrl`: URL and key of a row were submitted together, unless the row
  changed between the read and the write of its last writer. In that exception,
  recorded in `raced`, two saves that overlap leave the URL of one with the key
  of the other.
* `ConfiguredKeysReadable`: with a configured encryption key no restart makes
  settings unreadable. Without one it does, and `get_decrypted` raises.
* `NoTurnLost`: whatever is run up and down above revision 002, human and ai
  messages are where the application of that revision reads them.
* `StepsFit`: upgrades never raise; downgrades raise at 003, whose `add_column`
  is given a string, and at 006 over rows of an earlier downgrade that are still
  there.

Functions: `DecisionsReachTheirCalls` (every interrupted call gets the last
decision made for its id, and a resume is refused only when calls and decisions
do not match), `ServersGetOwnCredential` (an MCP header carries the credential of
the user exactly when it asks for it and the user has one of the kind),
`ConformingAnswersAccepted` (what conforms to the response format is not refused
by the model built from it, in the forms `Kept` describes) and
`StoredDocumentsLoad` (documents of earlier versions load as what they meant).

Builds:

* `AgentsUseApiStore`: when the file API has PostgreSQL, every runner has it.
  The other way round is not true: a file API that fell back to memory at the
  start keeps it, and builds try PostgreSQL again.
* `OnePool`: the store's pool is opened once per process although opening or
  `setup()` may fail. The price is that a store whose `setup()` failed is handed
  out without tables; builds that copy files then raise (`Works`).
* `OnlySelectedSkills`: the user of a build finds the selected skills, and others
  only where this user, or an agent in a turn of this user, put one into the
  agent's directory after the build had looked for stale ones; unless more than
  `SearchLimit` items hid a stale one or its removal failed. What earlier
  versions of the agent, earlier uploads and earlier turns left there is gone.
* `CopyWasCurrent`: a cached runner's copies hold what one of their sources held
  during the build, though file API and agents write sources and copies between
  any two calls of it. A copy that somebody wrote after the build had made it
  stays as written, and an older copy stays where a source is missing.
* `NamespacesApart`: a file in a user's namespace was written by this user or by
  an agent in a turn of this user, or copied from such a file, although one
  runner, built for one of the users, runs for all of them.

`ActiveKeyAuthenticates` and `OwnCredentials` are refuted, each against a
sentence of the repository's README (`PROJECT.json`, "findings"). The lookup of
an API key runs before the user is known to the database, so a role bound by row
security sees no row. And the runner keeps the credentials of the request that
built it, for its user's later requests and for everyone else's.

Bounds of the configuration runs. Two agents and one reference are enough for
every branch: own document, referenced document, missing document, missing row
and, where the uploads are `MCUploads`, a document that references its own
agent and is refused. Two administrators give every pair of overlapping
changes, one user builds while both are at work; two users and one
administrator give two builds racing. No counter is bounded: `pos` never passes
the number of references. In the concurrent run the parent always references
the leaf and only the parent has a thread, which keeps it under a million
states.

Bounds of the conversation runs. `MaxChunks = 1` intermediate event per turn is
any kind of chunk, stored in a batch or alone, and lets the turns of one thread
differ in it: one with the result of a tool, the next with that of a subagent.
Two decisions for one interrupt are the smallest number that is not one. Three
turns in sequence give a message, its interrupt, the resume, and a message
after it or one that discards the interrupt; two at once give every race of two
requests, and one thread is enough because no step of a turn looks at another
thread. The overlapping run has the `sse` streams, the serial run the `ws`
streams: they differ in the first lookup of an `sse` request and in the places
where it may be cut off. A turn is used once, so a run stops when none is left:
deadlock is not checked.

Bounds of the component run. `Access`: one HTTP request at a time and one socket
give every race of two (a revocation during a lookup, two misses of the cache);
two signing keys, one of them named in its token and one not, each published
alone, one API key, and a TTL and a timeout of one tick within three instants, so
that a document expires while a fetch is under way. `PromptCache`: a cache of
one entry and two prompts reach the eviction, three attempts are the code's own
number. `LlmSettings`: two writers on one row and one restart. `Migrations`:
five runs between revisions 002, 004, 005, 006 and 014 (positions 2, 4, 5, 6 and
12 of the chain), a human, a tool and an ai message. The functions: messages of
up to three calls of two tools with up to three decisions; two MCP servers that
may have one name, header values of up to two parts; schemas of one property
nested twice with values of that depth; documents with each rule kept and broken,
names at both ends of their length. Deadlock is not checked: a migrated
database and a function that has returned have nothing left to do.

Bounds of the build runs. Two users and one shared runner, because no step
relates three; two skills of one name, for the collision, and two more files
for the change of the selection; `SearchLimit = 2` is below the number of files
a namespace can hold; one failing call, two writes and two starts: a failed
`setup()` with the build after it, a source written and then its copy, a file
replaced and deleted, a restart that finds PostgreSQL's files. Two faults at
once add no branch, since each is handled where it happens.

Fairness. `Continue(p)` is weakly fair for each request: a call to MinIO,
PostgreSQL, Phoenix or an MCP server returns or raises, and the event loop runs
every ready task. `TakeLock(p)` is strongly fair: `asyncio.Lock` wakes its
waiters in the order they came, so a waiter is not overtaken for ever. Requests
are not forced to start. In `Conversation` a step of the server (`ServerStep`, the
idle timeout included) is weakly fair because queries return or raise and
`asyncio.wait_for` fires; `Deliver` is weakly fair, that is, a client reads what
it is sent or goes away. The graph is not fair: it may hang. It sends finitely
many chunks (`MaxChunks`): the timeout bounds the time between two chunks only.
In `Access` a step of a request (`Serve`) is weakly fair for the same reasons,
the HTTP client's timeout included, and getting the JWKS lock (`Recheck` or
`BeginFetch`) strongly fair, since `asyncio.Lock` wakes its waiters in order.
Neither the clock nor the provider's rotation is fair. The other components are
checked for safety and have no fairness.

## Proofs

`AgentConfigsProofs` proves, for all values of the constants that satisfy
`ConfigsAssumption` (the references of a document are a finite sequence of
agents, requests of the two kinds are distinct, `None` is none of the other
values):

* `TypeCorrect`: `Spec => []TypeOK`
* `CacheCoherent`: `Spec => []CacheCoherence`
* `RunnerKept`: `Spec => RunnerNotReplaced`
* `RowAgreesForTurns`: without failures and restarts,
  `Spec /\ []TakeTurns => []RowDescribesYaml`
* `RowAgreesForOne`: without failures and restarts, and with a single
  administrator, `Spec => []RowDescribesYaml`

`CacheCoherence` is not inductive. `Inv` adds what it rests on: what a request
knows at each step (`RequestOK`: for instance that an update at its commit still
has its own invalidation ahead), that the lock is held exactly during a build
(`LockHeldByBuilder`), and that a runner, and the snapshot of a build, hold a
document of the agent and otherwise only documents of agents that this document
references (`BuiltFrom`). The last part is what makes the scan enough: a scan
that looks at the stored document of `b` finds every agent that `b`'s up to date
runner can depend on, and if `b`'s document has been replaced, the request that
replaced it drops `b`. `InvInit` and `InvNext` show that `Inv` is inductive, one
lemma per action and per part that the action can disturb; the theorems follow
with a temporal step. TLC was used to check `Inv` on the concurrent instance before it
was proved.

Row and document are written by separate calls and agree only for requests that
take turns: `TakeTurns` says that no two administrators are at work on one agent,
which is weaker than having one administrator, and `agents_rowonly` shows what
happens otherwise. `RowInv` adds to the property what a request at work knows of
its agent (`Agrees`): the two agree outside the calls between the two writes,
between them the document is the one that the row is about to get, or gone, and
an insertion finds no row. Two facts carry the proof: a step touches the row and
the document of its own agent only, and users only build.

`ConversationProofs` proves, for every set of threads and turns and every
`MaxChunks`, with or without overlapping requests, failures and restarts
(`ConversationAssumption`: `None` is neither a thread nor a turn, an interrupt
asks for one decision or more):

* `TypeCorrect`: `Spec => []TypeOK`
* `EventsGoWithThread`: `Spec => []NoEventOutlivesThread`
* `SeenKept`: `Spec => []SeenIsStored`
* `ImplementsThreadLog`: `Spec => LogIsKept`, the refinement of `ThreadLog`

None of the last three is inductive: that the rows of a turn stay without gaps
depends on what the turn still has in its buffer. `Inv` (in `Conversation`)
therefore relates the record of a turn to its rows (`TurnOK`): the buffer holds
the events that follow those handed on (`BufferOK`), the rows are those handed
on, without gaps and each number once, as long as the turn goes on in a live
thread (`RowsOK`), the leading events are those with the first `Leads` numbers,
all of one type, and an answer is the last event of a turn that makes no more
(`EventOK`), and the steps of the run come after the leading events (`StepOK`).
`TurnOK` speaks of one record, the set of its rows and a truth value, and holds
no variable. The first half of the proof shows, on records alone, that
beginning, moving on, making an event, storing, delivering and ending keep it;
the second half lifts this to actions with `OneTurn`: a step of one turn
touches no rows but its own. Deleting a thread takes exactly the rows of the
turns bound to it, because an event is always in the thread of its turn. For
the refinement, `Inv` makes every log well formed, an insertion that the
foreign key accepts is a `Record`, a deletion is an `Erase`, and everything
else is a stutter.

`ThreadHistoryProofs` proves, for every set of threads and turns, every
`MaxChunks`, and with or without failures and restarts, that when clients wait
for their turn (`~Overlap`, as in `conversation_serial`)

* `AnswersOwn`: `Spec => []AnswerIsOwn`
* `DecisionsKept`: `Spec => []DecisionsApplied`
* `PendingTold`: `Spec => []AwaitingIsPending`
* `MessagesInHistory`: `Spec => []MessagesMatchHistory`
* `HistoryTells`: `Spec => []HistoryMatchesMemory`

The hypothesis is what the properties are stated for: without a lock per thread
two turns write one checkpoint and put their events into one trace. In the run no
call fails and the process does not restart; the proofs cover both, and TLC was
used to check the invariants with failures and restarts before they were proved.
The first three are about what the code reads back from the checkpoint after
awaiting something else, the last two about two accounts of one conversation that
are written apart. They rest on six invariants on top of `Inv` of `Conversation`:

* `OwnInv`: one turn at most is at work on a thread (`Alone`), so the checkpoint
  can be described by the place where that turn is. While the graph runs, its
  messages are those of the checkpoint; when it has answered, the checkpoint ends
  in the turn's own answer and waits for a decision exactly when that is a call
  (`RunOK`); a resume whose decisions were checked still finds the interrupt they
  are for, until it applies them (`ResumeOK`).
* `TimeInv`: no event of a turn is later than its answer, and the events of the
  turn at work are later than those of the other turns of its thread.
* `ToldInv`: the newest event of a thread asks for what the agent waits for, at
  rest; and while a turn is at work and has added nothing to the memory, the
  newest event of the others does. It is claimed as long as no turn has spoiled
  the thread, that is ended badly and left something.
* `SaidInv`: the events of a turn are numbered in the order of their times, each
  number once, and say what their type promises: a human message what the human
  of the turn said, a tool result what the tool did, or nothing if it is a
  subagent's. A turn that has not loaded the checkpoint has made no other event
  than its message (`Unloaded`).
* `ApartInv`: no event of one turn lies between two events of another turn of the
  thread. From this and `SaidInv` follows that the history shows the events in
  the order of the sort (`OrderIs`), though it groups them by turn and moves the
  human message to the front and the answer to the end, and that it leaves none
  out (`ShowsIs`), though it takes the first event of a type only.
* `ListInv`: as long as no turn has spoiled the thread, the messages of the
  checkpoint that rows show are, one by one, what the events say that their turns
  have made so far, stored or still in the buffer, but for results of subagents
  (`Lined`, a function from the places of those messages onto the events). Event and message do not come in one step: the human
  message is an event before the graph loads it into the checkpoint, and the
  answer is a message before it is an event. `Counted` and `Spelt` leave out
  the one that is ahead.

A step of a turn is abstracted once, by `Becomes`: it makes at most one event,
stores none but its own and adds at most one message of its own to the
checkpoint. Every action of a turn is shown to be such a step, the start of a
turn to be a `Begins`, and the invariants are shown to survive these, a
deletion and a restart. For `ListInv` a step is also a `Speaks`: it adds
nothing to the events and to the messages, or an event to the former and what
it says to the latter, or a message that is not shown to the latter alone; the
event of a subagent counts as none. A message's place is counted in
`HistoryMatchesMemory` by the events shown before its own; `LinedPlaces` gets
that number from the function of `Lined`, which is a bijection because
`Earlier` is strict.

`AccessProofs` proves, for all constants that satisfy `AccessAssumption` (the
kinds of values are what they are named for, `Nil` and the master key are none of
the others):

* `AccessTypeCorrect`: `AccessSpec => []AccessTypeOK`
* `FetchedOnce`: `AccessSpec => FetchOnlyWhenStale`
* `EarnedForAll`: `AccessSpec => []IdentityIsEarned`
* `RejectedForGood`: `AccessSpec => []RejectedStaysOut`
* `RevokedForGood`: `AccessSpec => RevocationSticks`
* `RetiredSoon`: `AccessSpec => RetiredKidBounded`

Each but the first rests on an invariant on top of the types. `LockInv`: the
lock is held exactly by the request that is fetching; so a request that begins
a fetch, which needs the lock free, is alone. `EarnedInv`: a record at each
step of an authentication already has what the property asks for at the end,
and a key that was revoked when the request arrived still is, so the lookup
does not find it; a rejected socket is at `route` of a wired deployment, where
no way leads inside. `TimeInv`: a retired signing key in a document that is on
its way was retired after the fetch began, and one in the cached document at
most `FetchTimeout` before it was stored; the timeout of the client bounds the
first, the TTL how long the second is used.

`AgentBuildProofs` proves, for any users, files, selections and bounds
(`SharedStoreAssumption`, `AgentBuildAssumption`):

* `OnePoolEver`: `BuildSpec => []OnePool`
* `ApiStoreShared`: `BuildSpec => []AgentsUseApiStore`
* `BuildTypes`: `BuildSpec => []BuildTypeOK`
* `NamespacesKept`: `BuildSpec => []NamespacesApart`
* `CopiesWereCurrent`: `BuildSpec => CopyWasCurrent`
* `SelectedSkillsOnly`: `BuildSpec => []OnlySelectedSkills`

The first two with `StoreInv`: no pool is open while the global is not set, and
one at most ever; and when the file API has PostgreSQL the global is set, so
that every build gets it and nothing in the process unsets it. The others add
`Typed`: where a build stands among its sources at each of its calls
(`Placed`), that it holds a content whenever it writes, and that the registry
caches no runner meanwhile. File API and file tools are one case: a `HandWrite`
puts a file of the namespace's own user at any path, and tells the build and
the runner of that namespace (`Notes`). `Owned`, for the namespaces: every file
is of the user whose namespace it is in, and so is the content that a build
holds between its read and its write. `Current`, for the copies: what the files
hold has been seen by the build, and what is in the copy of every source that
it has passed was seen of one of the sources of that copy, unless somebody
wrote it since. This survives a second source with the same last segment, whose
copy replaces one seen by one seen, and a source that is itself a copy.
`Clean`, for the skills: once a build has searched and skipped nothing, the
skills in its namespace are selected ones, until it has deleted them those that
the search found stale, and those written by hand since; from there it passes
to the runner, and to the turn that runs it for the same user. What others
write lands in other namespaces. In the model the list that names a source
decides its kind and with it the directory of its copy, as in the code;
`AgentBuildAssumption` says so, and one file that a document lists as a skill
and as a memory is two sources here.

`LlmSettingsProofs` proves, for any users, requests and restarts (`LlmAssumption`):

* `KeysStayWithUrls`: `LlmSpec => []KeyGoesWithUrl`
* `RestartsKeepKeys`: `LlmSpec => []ConfiguredKeysReadable`

with `LlmInv`: a request that is about to write has its input, and an update the
row it read; a row holds a URL and a key of one submission unless its last writer
was raced; and with a configured key every token is made with key 0, which
every restart gets back.

`PromptCacheProofs` proves, for any prompts, editors, cache size and TTL
(`PromptAssumption`):

* `OneVersionEver`: `PromptSpec => []OneVersionPerRequest`
* `ServedInTime`: `PromptSpec => []ServedPromptIsRecent`

The first holds because every error that the retry waits for has been translated
before the retry sees it (`NeverRetried`): the attempt that makes a version ends
the request (`EditInv`). For the second, every entry of the cache expires at most
one TTL after its version was replaced (`GoodEntries`); a save, which makes the
current version old at this moment, keeps that because no entry expires later than
one TTL from now (`SavedOK`), and moving, dropping and adding entries only
rearranges a sequence of good ones.

`ComponentsProofs` proves, with `MigrationAssumption` (every
position alembic is sent to is one of the chain, no message is both of an old and
of a new release) and `ConversionsAssumption` (the inputs are sequences and
records of the shapes the callers build, and the calls of one message have ids of
their own, as the models give them),

* `ChainFits`: `MigrationSpec => []StepsFit`, whatever alembic is sent to, in any
  order, with runs that raise half way
* `TurnsSurvive`: `MigrationSpec => []NoTurnLost`, if alembic is never sent below
  002 (`KeepsMessages`; a downgrade below drops the table of messages on purpose)
* `DocumentsLoad`: `ConversionsSpec => []StoredDocumentsLoad`, for documents of
  any length and with any servers
* `CredentialsGoWhereAsked`: `ConversionsSpec => []ServersGetOwnCredential`, for
  any number of servers, some of which may have one name
* `DecisionsArrive`: `ConversionsSpec => []DecisionsReachTheirCalls`, for messages
  with any number of calls and any list of decisions

`Fits` says which tables and columns are there at each position of the chain, the
same on the way up and on the way down but for 006, whose table of messages is
left to 007 on one of the ways; every step is shown to find what it needs and to
lead to the next position. `NothingLost` says that the table the application of a
position reads holds every message said so far, of the database and of the copy
that a run which raises goes back to; the interesting steps are the copy of 006
and its way back.

`DocumentsLoad` needs no induction: the loader looks at the keys and the
servers of a document as sets. For `CredentialsGoWhereAsked` the configuration
of a name is the last one (`MaxIs`), and a header is kept when the parts that
resolve to something are all that it asks for. `DecisionsArrive` is an
induction over the calls of the message. `ActionRequests` and `Pairs` are
loops, written as recursive functions, and a loop that steps from each state to
the next one has a value at every number (`LoopExists`, from the well-founded
recursion of the library). What they compute is shown number by number: the
requests are the calls that ask, in their order (`Requesting`, `Growing`), so
the pairing finds every request the first call of its name that is not taken
yet, which is the one that made it although several calls may have one name.
`LeastNat` and `AllNat` stand for induction: a property given as a set of
numbers that has a counterexample has a smallest one.

Only model-checked:

* `StaleRunnersGo`, `RequestsEnd`, `TurnsEnd` and `RequestsAnswered`, which need
  fairness.
* `ConformingAnswersAccepted`, which is about `RECURSIVE` operators on schemas
  and values nested in each other.

## Not modelled

In `AgentConfigs`: the `user_id` filters. All clients are one owner there; in the
code names are global to MinIO and the registry while the existence checks of the
repository filter by user. What a prompt, a tool or a model is (a build may fail
on any of them: `AbortBuild`), documents that do not load (they end a request
before it changes anything), reads that change nothing.

In `Conversation`: the `memory` checkpointer, which dies with its runner; which
call of an interrupt each decision reaches (that is `HitlPairing`); what the
middleware of deepagents does to the checkpoint on its own, such as answering
calls that were abandoned or summarising long conversations; interrupts raised
inside a subagent; the `source` of an event, which `_extract_source` reads off
the stream and the history only displays; tool call ids that
a model uses twice; the fallbacks of `invoke` and `resume_hitl` for graphs that
do not stream; structured responses; a clock that goes back; the frames of SSE
and WebSocket.

In `AgentBuild`: subagents and the parts of the graph that deepagents makes; the
listing, preview, reading and usage of files, which change nothing; what a turn
does over a checkpointer whose `setup()` failed (it is handed out without tables
as the store is, and the run of the graph then raises: in `Conversation` a
graph that raises). The server wires the authentication before the registry, so its
builds have a user; the path without one, which falls back to the credentials of
the environment, is in the specification and in no instance.

In `Access`: signature and claims beyond one flag, the e-mail and name of a user,
rate limits (there are none). Row-level security is modelled for `api_keys` only,
where it decides about authentication; for the other tables PostgreSQL decides,
and the repositories filter by the same user.

In `PromptCache`: tags, reading a given version, and the reads outside the cache.
In `McpHeaders`: sessions, the list of clients kept for `close()`, the
synchronous wrappers of tools with their timeout.

Not at all: tracing (Phoenix and Langfuse adapters) and logging, which decide
nothing the program reads; settings and dependency providers, which are wiring
without state; the example agents, which are data. In `PROJECT.json` each part is
listed with its status.

Sentences of the code and docs that the models make precise rather than refute:
the comment of `factory.py:612-616` and `dependencies.py:264-267` that agents and
file API share a store holds when PostgreSQL can be reached at the start
(`AgentsUseApiStore`) and not otherwise; the README's rule that `system_prompt`
and `system_prompt_file` exclude each other holds for documents of the store,
while `Load` of a local file lets the file replace the prompt.
