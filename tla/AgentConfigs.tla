--------------------------- MODULE AgentConfigs ---------------------------
(***************************************************************************)
(* The life of an agent configuration: the YAML object in MinIO, the       *)
(* metadata row in PostgreSQL and the runner the registry caches.          *)
(*                                                                         *)
(* The server is one asyncio process: a request runs alone between two     *)
(* awaits and any other request may run at an await.  Every action below   *)
(* is the code of one request up to its next await on MinIO, PostgreSQL    *)
(* or the registry lock; req[p].pc names the call the request is about to  *)
(* make.                                                                   *)
(*                                                                         *)
(* A YAML document is an element of Configs.  The properties need to tell  *)
(* two documents apart and to know which agents a document's subagents     *)
(* reference, so that is all a configuration has.                          *)
(***************************************************************************)
EXTENDS Naturals, Sequences

CONSTANTS
    Agents,   \* agent names
    Configs,  \* the YAML documents that load and validate
    Refs,     \* Refs[c]: the agent_ref of each subagent of c, in order
    Uploads,  \* the <<name, document>> pairs that clients send
    Admins,   \* requests to POST, PUT and DELETE /api/v1/agents
    Users,    \* requests that need an agent's runner
    Threads,  \* the agents that have a conversation thread
    Faults,   \* whether a call to MinIO or PostgreSQL may fail
    Restarts, \* whether the process may die and start again
    None      \* no document, no lock holder, no agent

Procs == Admins \cup Users

ASSUME ConfigsAssumption ==
    /\ Refs \in [Configs -> Seq(Agents)]
    /\ Uploads \subseteq Agents \X Configs
    /\ Threads \subseteq Agents
    /\ Admins \cap Users = {}
    /\ Faults \in BOOLEAN
    /\ Restarts \in BOOLEAN
    /\ None \notin Agents
    /\ None \notin Configs
    /\ None \notin Procs

VARIABLES
    yaml,        \* yaml[a]: the object <a>.yaml in the bucket, or None
    row,         \* row[a]: the document whose model and description the row of
                 \* agent_configs holds, or None
    runners,     \* runners[a]: what the cached runner of a was built from, as
                 \* <<name, document>> pairs; {} when no runner is cached
    lock,        \* who holds the registry lock, or None
    req,         \* req[p]: where the request p is and its local variables
    unannounced  \* history: the agents whose YAML was changed by a request
                 \* that ended without invalidating every runner built from it

vars == <<yaml, row, runners, lock, req, unannounced>>

NoRunner == {}

RefSet(c) == {Refs[c][i] : i \in 1 .. Len(Refs[c])}

AdminSteps ==
    {"get", "refs", "exists", "put", "save", "insert", "modify", "stat", "remove",
     "rowget", "rowdel", "invalidate", "list", "scan", "dependent"}

BuildSteps == {"own", "build"}

Request ==
    [ pc    : {"idle", "lock"} \cup AdminSteps \cup BuildSteps,
      op    : {"none", "create", "update", "delete", "run"},
      agent : Agents \cup {None},
      conf  : Configs \cup {None},
      pos   : Nat,
      todo  : SUBSET Agents,
      dep   : Agents \cup {None},
      snap  : SUBSET (Agents \X Configs) ]

Idle ==
    [pc |-> "idle", op |-> "none", agent |-> None, conf |-> None, pos |-> 1,
     todo |-> {}, dep |-> None, snap |-> {}]

TypeOK ==
    /\ yaml \in [Agents -> Configs \cup {None}]
    /\ row \in [Agents -> Configs \cup {None}]
    /\ runners \in [Agents -> SUBSET (Agents \X Configs)]
    /\ lock \in Procs \cup {None}
    /\ req \in [Procs -> Request]
    /\ unannounced \subseteq Agents

Init ==
    /\ yaml = [a \in Agents |-> None]
    /\ row = [a \in Agents |-> None]
    /\ runners = [a \in Agents |-> NoRunner]
    /\ lock = None
    /\ req = [p \in Procs |-> Idle]
    /\ unannounced = {}

-----------------------------------------------------------------------------
(* Control flow of a request *)

Goto(p, step) == req' = [req EXCEPT ![p].pc = step]

Return(p) == req' = [req EXCEPT ![p] = Idle]

\* The request p has changed the YAML of its agent and has told nobody yet.
ChangedYaml(p) ==
    \/ req[p].op = "update" /\ req[p].pc \in {"save", "insert", "modify"}
    \/ req[p].op = "delete" /\ req[p].pc \in {"rowget", "rowdel"}

\* An exception leaves the use case: nothing after the failing call runs.
Raise(p) ==
    /\ Return(p)
    /\ unannounced' =
         IF ChangedYaml(p) THEN unannounced \cup {req[p].agent} ELSE unannounced

-----------------------------------------------------------------------------
(* POST /api/v1/agents: CreateAgentConfigUseCase.execute *)

\* The call after the check of pos - 1 references of c.
AfterRefs(op, c, pos) ==
    IF pos <= Len(Refs[c]) THEN "refs" ELSE IF op = "create" THEN "exists" ELSE "put"

StartCreate(p) ==
    /\ req[p].pc = "idle"
    /\ \E u \in Uploads :
         req' = [req EXCEPT ![p] = [Idle EXCEPT !.pc = AfterRefs("create", u[2], 1),
                                                !.op = "create",
                                                !.agent = u[1], !.conf = u[2]]]
    /\ UNCHANGED <<yaml, row, runners, lock, unannounced>>

\* validate_subagent_refs, one subagent at a time: the check of one agent_ref.
RejectRef(p) ==
    LET ref == Refs[req[p].conf][req[p].pos]
    IN  /\ req[p].pc = "refs"
        /\ ref = req[p].agent \/ row[ref] = None
        /\ Return(p)
        /\ UNCHANGED <<yaml, row, runners, lock, unannounced>>

AcceptRef(p) ==
    LET ref == Refs[req[p].conf][req[p].pos]
        next == req[p].pos + 1
    IN  /\ req[p].pc = "refs"
        /\ ref # req[p].agent
        /\ row[ref] # None
        /\ req' = [req EXCEPT ![p].pos = next,
                              ![p].pc = AfterRefs(req[p].op, req[p].conf, next)]
        /\ UNCHANGED <<yaml, row, runners, lock, unannounced>>

CheckExists(p) ==
    /\ req[p].pc = "exists"
    /\ IF row[req[p].agent] # None THEN Return(p) ELSE Goto(p, "put")
    /\ UNCHANGED <<yaml, row, runners, lock, unannounced>>

\* store.put of Create and of Update.  Create does not touch the registry, so
\* when it replaces an object nobody is told that the object changed.
Put(p) ==
    LET a == req[p].agent
    IN  /\ req[p].pc = "put"
        /\ yaml' = [yaml EXCEPT ![a] = req[p].conf]
        /\ unannounced' = IF req[p].op = "create" /\ yaml[a] # None
                          THEN unannounced \cup {a} ELSE unannounced
        /\ Goto(p, "save")
        /\ UNCHANGED <<row, runners, lock>>

\* repository.save: session.merge selects the row and decides on INSERT or
\* UPDATE, and the commit carries it out.  The other requests run in between:
\* an INSERT of a row that has appeared and an UPDATE of a row that has gone
\* are StorageErrors.
Save(p) ==
    /\ req[p].pc = "save"
    /\ Goto(p, IF row[req[p].agent] = None THEN "insert" ELSE "modify")
    /\ UNCHANGED <<yaml, row, runners, lock, unannounced>>

CommitConflicts(p) ==
    \/ req[p].pc = "insert" /\ row[req[p].agent] # None
    \/ req[p].pc = "modify" /\ row[req[p].agent] = None

\* Mutant of WriteRow: the model_copy of an update leaves the model out.
WriteRowKeepsModel(p) ==
    row' = [row EXCEPT ![req[p].agent] = IF @ = None THEN req[p].conf ELSE @]

WriteRow(p) == row' = [row EXCEPT ![req[p].agent] = req[p].conf]

Commit(p) ==
    /\ req[p].pc \in {"insert", "modify"}
    /\ ~CommitConflicts(p)
    /\ WriteRow(p)
    /\ IF req[p].op = "create" THEN Return(p) ELSE Goto(p, "invalidate")
    /\ UNCHANGED <<yaml, runners, lock, unannounced>>

CommitRaises(p) ==
    /\ req[p].pc \in {"insert", "modify"}
    /\ CommitConflicts(p)
    /\ Raise(p)
    /\ UNCHANGED <<yaml, row, runners, lock>>

-----------------------------------------------------------------------------
(* PUT and DELETE /api/v1/agents/{name} *)

StartUpdate(p) ==
    /\ req[p].pc = "idle"
    /\ \E u \in Uploads :
         req' = [req EXCEPT ![p] = [Idle EXCEPT !.pc = "get", !.op = "update",
                                                !.agent = u[1], !.conf = u[2]]]
    /\ UNCHANGED <<yaml, row, runners, lock, unannounced>>

StartDelete(p) ==
    /\ req[p].pc = "idle"
    /\ \E a \in Agents :
         req' = [req EXCEPT ![p] = [Idle EXCEPT !.pc = "get", !.op = "delete",
                                                !.agent = a]]
    /\ UNCHANGED <<yaml, row, runners, lock, unannounced>>

\* repository.get: AgentNotFoundError without a row.
GetRow(p) ==
    /\ req[p].pc = "get"
    /\ IF row[req[p].agent] = None
       THEN Return(p)
       ELSE Goto(p, IF req[p].op = "delete"
                    THEN "stat" ELSE AfterRefs("update", req[p].conf, 1))
    /\ UNCHANGED <<yaml, row, runners, lock, unannounced>>

\* store.delete: stat_object, then remove_object, which an absent object
\* does not make fail.
StatYaml(p) ==
    /\ req[p].pc = "stat"
    /\ IF yaml[req[p].agent] = None THEN Return(p) ELSE Goto(p, "remove")
    /\ UNCHANGED <<yaml, row, runners, lock, unannounced>>

RemoveYaml(p) ==
    /\ req[p].pc = "remove"
    /\ yaml' = [yaml EXCEPT ![req[p].agent] = None]
    /\ Goto(p, "rowget")
    /\ UNCHANGED <<row, runners, lock, unannounced>>

\* repository.delete: the row is selected, AgentNotFoundError if another
\* request has deleted it, and then deleted.
SelectRow(p) ==
    /\ req[p].pc = "rowget"
    /\ IF row[req[p].agent] = None
       THEN Raise(p)
       ELSE Goto(p, "rowdel") /\ UNCHANGED unannounced
    /\ UNCHANGED <<yaml, row, runners, lock>>

DeleteRow(p) ==
    /\ req[p].pc = "rowdel"
    /\ row' = [row EXCEPT ![req[p].agent] = None]
    /\ Goto(p, "invalidate")
    /\ UNCHANGED <<yaml, runners, lock, unannounced>>

\* Mutants of Invalidate: the pop does not wait for the lock; the dependents
\* are forgotten.
InvalidateUnlocked(p) ==
    /\ req[p].pc = "invalidate"
    /\ runners' = [runners EXCEPT ![req[p].agent] = NoRunner]
    /\ Goto(p, "list")
    /\ UNCHANGED <<yaml, row, lock, unannounced>>

InvalidateAlone(p) ==
    /\ req[p].pc = "invalidate"
    /\ lock = None
    /\ runners' = [runners EXCEPT ![req[p].agent] = NoRunner]
    /\ Return(p)
    /\ UNCHANGED <<yaml, row, lock, unannounced>>

\* registry.invalidate takes the lock, drops the runner and gives the lock
\* back without an await in between.
Invalidate(p) ==
    /\ req[p].pc = "invalidate"
    /\ lock = None
    /\ runners' = [runners EXCEPT ![req[p].agent] = NoRunner]
    /\ Goto(p, "list")
    /\ UNCHANGED <<yaml, row, lock, unannounced>>

\* invalidate_dependent_agents: list_all, then one store.get for each other
\* name, and an invalidation of each that has a subagent with this agent_ref.
ListYamls(p) ==
    /\ req[p].pc = "list"
    /\ req' = [req EXCEPT ![p].pc = "scan",
                          ![p].todo = {a \in Agents : yaml[a] # None} \ {req[p].agent}]
    /\ UNCHANGED <<yaml, row, runners, lock, unannounced>>

ScanYaml(p) ==
    /\ req[p].pc = "scan"
    /\ \E b \in req[p].todo :
         IF yaml[b] # None /\ req[p].agent \in RefSet(yaml[b])
         THEN req' = [req EXCEPT ![p].pc = "dependent", ![p].dep = b,
                                 ![p].todo = @ \ {b}]
         ELSE req' = [req EXCEPT ![p].todo = @ \ {b}]
    /\ UNCHANGED <<yaml, row, runners, lock, unannounced>>

InvalidateDependent(p) ==
    /\ req[p].pc = "dependent"
    /\ lock = None
    /\ runners' = [runners EXCEPT ![req[p].dep] = NoRunner]
    /\ req' = [req EXCEPT ![p].pc = "scan", ![p].dep = None]
    /\ UNCHANGED <<yaml, row, lock, unannounced>>

ScanDone(p) ==
    /\ req[p].pc = "scan"
    /\ req[p].todo = {}
    /\ Return(p)
    /\ UNCHANGED <<yaml, row, runners, lock, unannounced>>

-----------------------------------------------------------------------------
(* PersistentAgentRegistry.get_runner, for a thread of any agent: threads    *)
(* keep the name of an agent that has been deleted.  A request that finds    *)
(* the runner cached returns at once and changes nothing.                    *)

StartGetRunner(p) ==
    /\ req[p].pc = "idle"
    /\ \E a \in Threads :
         /\ runners[a] = NoRunner
         /\ req' = [req EXCEPT ![p] = [Idle EXCEPT !.pc = "lock", !.op = "run",
                                                   !.agent = a]]
    /\ UNCHANGED <<yaml, row, runners, lock, unannounced>>

\* Mutant of AcquireLock: no second look at the cache.
AcquireLockBlindly(p) ==
    /\ req[p].pc = "lock"
    /\ lock = None
    /\ Goto(p, "own")
    /\ lock' = p
    /\ UNCHANGED <<yaml, row, runners, unannounced>>

\* The second look at the cache, under the lock.
AcquireLock(p) ==
    /\ req[p].pc = "lock"
    /\ lock = None
    /\ IF runners[req[p].agent] # NoRunner
       THEN Return(p) /\ UNCHANGED lock
       ELSE Goto(p, "own") /\ lock' = p
    /\ UNCHANGED <<yaml, row, runners, unannounced>>

\* Mutant of FailBuild: the lock is not released in a finally.
FailBuildKeepsLock(p) == Return(p) /\ UNCHANGED lock

\* The build ends without a runner: the async with block gives the lock back.
FailBuild(p) ==
    /\ Return(p)
    /\ lock' = None

\* Mutant of ReadOwnYaml: an absent object is not noticed.
ReadOwnYamlUnchecked(p) ==
    LET a == req[p].agent
    IN  /\ req[p].pc = "own"
        /\ req' = [req EXCEPT ![p].pc = "build", ![p].conf = yaml[a],
                              ![p].snap = {<<a, yaml[a]>>}]
        /\ UNCHANGED <<yaml, row, runners, lock, unannounced>>

ReadOwnYaml(p) ==
    LET a == req[p].agent
    IN  /\ req[p].pc = "own"
        /\ IF yaml[a] = None
           THEN FailBuild(p)
           ELSE /\ req' = [req EXCEPT ![p].pc = "build", ![p].conf = yaml[a],
                                      ![p].snap = {<<a, yaml[a]>>}]
                /\ UNCHANGED lock
        /\ UNCHANGED <<yaml, row, runners, unannounced>>

\* config_resolver, for one subagent with an agent_ref: the referenced
\* agent's own subagents are ignored.
ReadReferencedYaml(p) ==
    LET ref == Refs[req[p].conf][req[p].pos]
    IN  /\ req[p].pc = "build"
        /\ req[p].pos <= Len(Refs[req[p].conf])
        /\ IF yaml[ref] = None
           THEN FailBuild(p)
           ELSE /\ req' = [req EXCEPT ![p].pos = @ + 1,
                                      ![p].snap = @ \cup {<<ref, yaml[ref]>>}]
                /\ UNCHANGED lock
        /\ UNCHANGED <<yaml, row, runners, unannounced>>

CacheRunner(p) ==
    /\ req[p].pc = "build"
    /\ req[p].pos > Len(Refs[req[p].conf])
    /\ runners' = [runners EXCEPT ![req[p].agent] = req[p].snap]
    /\ lock' = None
    /\ Return(p)
    /\ UNCHANGED <<yaml, row, unannounced>>

\* The prompt manager, an MCP server, the user's LLM settings or the graph
\* compiler raise, or the client of a stream goes away during the build.
AbortBuild(p) ==
    /\ req[p].pc \in BuildSteps
    /\ FailBuild(p)
    /\ UNCHANGED <<yaml, row, runners, unannounced>>

-----------------------------------------------------------------------------
(* Failures of MinIO and PostgreSQL, and of the process *)

\* The call named by pc raises before it has an effect.  (A call that has
\* its effect and then raises is the call's own step followed by this one;
\* a commit that does so is AckLost.)
CallRaises(p) ==
    /\ Faults
    /\ req[p].pc \in AdminSteps \ {"invalidate", "list", "scan", "dependent"}
    /\ Raise(p)
    /\ UNCHANGED <<yaml, row, runners, lock>>

AckLost(p) ==
    /\ Faults
    /\ req[p].pc \in {"insert", "modify", "rowdel"}
    /\ ~CommitConflicts(p)
    /\ IF req[p].op = "delete" THEN row' = [row EXCEPT ![req[p].agent] = None]
                               ELSE WriteRow(p)
    /\ Raise(p)
    /\ UNCHANGED <<yaml, runners, lock>>

\* list_all raises: a warning is logged and the request succeeds.
ListRaises(p) ==
    /\ Faults
    /\ req[p].pc = "list"
    /\ Return(p)
    /\ unannounced' = unannounced \cup {req[p].agent}
    /\ UNCHANGED <<yaml, row, runners, lock>>

\* store.get or safe_load raises for one name: it is logged and skipped.
ScanRaises(p) ==
    /\ Faults
    /\ req[p].pc = "scan"
    /\ \E b \in req[p].todo : req' = [req EXCEPT ![p].todo = @ \ {b}]
    /\ unannounced' = unannounced \cup {req[p].agent}
    /\ UNCHANGED <<yaml, row, runners, lock>>

\* The process dies and starts again: MinIO and PostgreSQL keep what they
\* have, the cache and every request are gone.
Restart ==
    /\ Restarts
    /\ runners' = [a \in Agents |-> NoRunner]
    /\ lock' = None
    /\ req' = [p \in Procs |-> Idle]
    /\ unannounced' = {}
    /\ UNCHANGED <<yaml, row>>

-----------------------------------------------------------------------------

TakeLock(p) == Invalidate(p) \/ InvalidateDependent(p) \/ AcquireLock(p)

\* A step of a request that has started and does not wait for the lock.
Continue(p) ==
    \/ RejectRef(p) \/ AcceptRef(p) \/ CheckExists(p) \/ Put(p)
    \/ Save(p) \/ Commit(p) \/ CommitRaises(p)
    \/ GetRow(p) \/ StatYaml(p) \/ RemoveYaml(p) \/ SelectRow(p) \/ DeleteRow(p)
    \/ ListYamls(p) \/ ScanYaml(p) \/ ScanDone(p)
    \/ ReadOwnYaml(p) \/ ReadReferencedYaml(p) \/ CacheRunner(p) \/ AbortBuild(p)
    \/ CallRaises(p) \/ AckLost(p) \/ ListRaises(p) \/ ScanRaises(p)

Next ==
    \/ \E p \in Admins : StartCreate(p) \/ StartUpdate(p) \/ StartDelete(p)
    \/ \E p \in Users : StartGetRunner(p)
    \/ \E p \in Procs : TakeLock(p) \/ Continue(p)
    \/ Restart

Spec == Init /\ [][Next]_vars

\* Every call to MinIO, PostgreSQL, Phoenix or an MCP server returns or
\* raises, and asyncio.Lock wakes its waiters in the order they came.
Fairness ==
    \A p \in Procs : WF_vars(Continue(p)) /\ SF_vars(TakeLock(p))

FairSpec == Spec /\ Fairness

-----------------------------------------------------------------------------
(* What the invalidations still to come are going to drop *)

\* p is an update or a deletion of a that has changed the YAML of a and has
\* registry.invalidate(a) ahead of it.
WillInvalidate(p, a) ==
    /\ req[p].agent = a
    /\ ChangedYaml(p) \/ req[p].pc = "invalidate"

\* p is an update or a deletion of d whose scan will still look at b.
WillScan(p, b, d) ==
    /\ req[p].agent = d
    /\ b # d
    /\ \/ ChangedYaml(p)
       \/ req[p].pc \in {"invalidate", "list"}
       \/ req[p].pc \in {"scan", "dependent"} /\ b \in req[p].todo
       \/ req[p].pc = "dependent" /\ b = req[p].dep

\* A runner of b may hold an old document of d.
MayBeOld(b, d) ==
    \/ b \in unannounced
    \/ d \in unannounced
    \/ \E p \in Procs : WillInvalidate(p, b) \/ WillScan(p, b, d)

\* Every document in s, which a runner of b is built from, is the one that is
\* stored now, unless an invalidation of that runner is on its way.
UpToDate(b, s) ==
    \A x \in s : yaml[x[1]] = x[2] \/ MayBeOld(b, x[1])

\* CacheCoherence: a cached runner, or one being built, that was made from a
\* document (its own or a referenced agent's) that has since been replaced or
\* deleted is about to be dropped by the request that made the change; the
\* only exceptions are the changes recorded in unannounced.  This is what the
\* lock around the build and around the pop, and the order put-save-invalidate-
\* scan of the use cases, are for.
CacheCoherence ==
    /\ \A b \in Agents : UpToDate(b, runners[b])
    /\ \A p \in Procs : req[p].pc \in BuildSteps => UpToDate(req[p].agent, req[p].snap)

\* s holds everything a build of b has read: a document of b and, for the
\* rest, documents of the agents that this document references.
BuiltFrom(b, s) ==
    \E c \in Configs : <<b, c>> \in s /\ (\A x \in s : x[1] = b \/ x[1] \in RefSet(c))

\* What a request knows at each of its steps.
RequestOK(r) ==
    /\ r.pos >= 1
    /\ r.pc # "idle" => r.agent \in Agents
    /\ r.pc \in {"refs", "exists", "put", "save", "insert", "modify"} =>
         r.op \in {"create", "update"} /\ r.conf \in Configs
    /\ r.pc = "refs" => r.pos <= Len(Refs[r.conf])
    /\ r.pc = "get" => /\ r.pos = 1
                       /\ \/ r.op = "delete"
                          \/ r.op = "update" /\ r.conf \in Configs
    /\ r.pc \in {"stat", "remove", "rowget", "rowdel"} => r.op = "delete"
    /\ r.pc = "dependent" => r.dep \in Agents
    /\ r.pc \in {"lock", "own"} => r.snap = {}
    /\ r.pc = "build" =>
         /\ r.conf \in Configs
         /\ <<r.agent, r.conf>> \in r.snap
         /\ \A x \in r.snap : x[1] = r.agent \/ x[1] \in RefSet(r.conf)

\* The registry lock is held exactly during a build.
LockHeldByBuilder == \A p \in Procs : lock = p <=> req[p].pc \in BuildSteps

\* Inv is inductive: CacheCoherence with what keeps it.
Inv ==
    /\ TypeOK
    /\ \A p \in Procs : RequestOK(req[p])
    /\ LockHeldByBuilder
    /\ \A b \in Agents : runners[b] = NoRunner \/ BuiltFrom(b, runners[b])
    /\ CacheCoherence

\* RunnerNotReplaced: a cached runner leaves the cache only by being dropped.
\* Two requests that miss the cache together must not build two runners, the
\* second hiding the first: with a MemorySaver the runner owns the
\* conversations that were started on it.
RunnerNotReplaced ==
    [][\A a \in Agents : runners[a] # NoRunner => runners'[a] \in {runners[a], NoRunner}]_vars

\* A runner in the cache was built from documents that are all still stored.
Fresh(b) == \A x \in runners[b] : yaml[x[1]] = x[2]

\* StaleRunnersGo: as long as requests on one agent do not overlap and nothing
\* fails, a runner whose own document or whose subagent's document has changed
\* does not stay in the cache: the update or deletion reaches its invalidation
\* and its scan finds every runner that it made stale.
StaleRunnersGo == \A b \in Agents : ~Fresh(b) ~> Fresh(b)

\* RowDescribesYaml: when no request is at work on an agent, the row in
\* PostgreSQL and the object in MinIO are both there or both absent and the
\* row was filled from that object.  Two stores are written without a
\* transaction; this holds when requests on one name do not overlap and
\* nothing fails.
RowDescribesYaml ==
    \A a \in Agents :
        (\A p \in Admins : req[p].agent # a) => row[a] = yaml[a]

\* RequestsEnd: every request ends: the scan of dependents ends, no failed
\* build keeps the lock, and whoever waits for the lock gets it.
RequestsEnd ==
    \A p \in Procs : (req[p].pc # "idle") ~> (req[p].pc = "idle")

-----------------------------------------------------------------------------
(* Claims of the repository that the code does not keep *)

\* NoStaleRunnerAfterUpdate: README, "When an agent is updated or deleted, the
\* registry also invalidates any agents that reference it via agent_ref in
\* their subagents. This ensures stale runners are rebuilt on next use."  An
\* update or deletion that ends well, while no other one is at work, leaves no
\* cached runner built from an old document of its agent.
NoStaleRunnerAfterUpdate ==
    [][\A p \in Admins :
         (/\ req[p].pc \in {"list", "scan"}
          /\ req'[p].pc = "idle"
          /\ \A q \in Admins \ {p} : req[q].pc = "idle")
         => \A b \in Agents : \A x \in runners'[b] :
                x[1] = req[p].agent => yaml'[x[1]] = x[2]]_vars

\* AgentWithRowHasYaml: validate_subagent_refs, "The metadata repository is
\* the single source of truth for 'does this agent exist?'".  An agent that
\* the repository knows, and on which no request is at work, has a document.
AgentWithRowHasYaml ==
    \A a \in Agents :
        (\A p \in Admins : req[p].agent # a) /\ row[a] # None => yaml[a] # None

=============================================================================
