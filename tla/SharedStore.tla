---------------------------- MODULE SharedStore ----------------------------
(***************************************************************************)
(* The store of skills and memories and the process that opens it.  The    *)
(* file API and the agents of one process are to share one store, the      *)
(* PostgreSQL one kept in the global _pg_store, or else the one kept in    *)
(* memory.  The global is set as soon as the pool is open, before setup()  *)
(* has created the tables.                                                 *)
(*                                                                         *)
(* A path is the kind of the file, its directory and the last segment the  *)
(* agents know it by.  The file API and the file tools of the agents take  *)
(* any path, those under /agents/<name>/ included.  A file is a text and   *)
(* the user whose request or turn wrote it.                                *)
(***************************************************************************)
EXTENDS Naturals, FiniteSets, Sequences

CONSTANTS
    Tenants,     \* user ids of requests
    NoUser,      \* no user in the context: tests and background jobs
    AgentDir,    \* the directory /agents/<name>/
    Paths,       \* the paths of the store
    Contents,    \* what users write
    Learned,     \* what an agent writes
    NoFile,      \* no file at this path
    MaxFaults,   \* bound: failing calls to MinIO, PostgreSQL or an MCP server
    MaxEdits,    \* bound: writes by users
    MaxStarts    \* bound: starts of the process

\* Where an agent has its copy of the file p.
CopyOf(p) == [p EXCEPT !.dir = AgentDir]

File == [by : Tenants, text : Contents \cup {Learned}]

ASSUME SharedStoreAssumption ==
    /\ Paths \subseteq [kind : {"skills", "memories"}, dir : STRING, name : STRING]
    /\ \A p \in Paths : CopyOf(p) \in Paths
    /\ NoFile \notin File
    /\ {MaxFaults, MaxEdits, MaxStarts} \subseteq Nat

VARIABLES
    proc,        \* the process: whether it is up, the store of the file API,
                 \* whether the registry is wired, the two globals, and how
                 \* many pools it opened for the store
    tables,      \* what PostgreSQL keeps: the tables of the store
    saverTables, \* and those of the checkpointer
    files,       \* files[s][n][p]: the file p of namespace n in the store s
    left         \* how often the bounded things may still happen

storeVars == <<proc, tables, saverTables, files, left>>

Stores == {"pg", "memory"}

\* user_namespaced("filesystem")
Namespaced(u) == IF u # NoUser THEN <<u, "filesystem">> ELSE <<"filesystem">>

Namespaces == {Namespaced(u) : u \in Tenants}

Empty == [n \in Namespaces |-> [p \in Paths |-> NoFile]]

Down ==
    [up |-> FALSE, api |-> "none", wired |-> FALSE, store |-> FALSE,
     saver |-> FALSE, pools |-> 0]

StoreInit ==
    /\ proc = Down
    /\ tables = FALSE
    /\ saverTables = FALSE
    /\ files = [s \in Stores |-> Empty]
    /\ left = [faults |-> MaxFaults, edits |-> MaxEdits, starts |-> MaxStarts]

Spend(what) ==
    /\ left[what] > 0
    /\ left' = [left EXCEPT ![what] = @ - 1]

-----------------------------------------------------------------------------
(* _create_postgres_store and _create_postgres_checkpointer *)

\* Entering the context manager fails, setup() fails, or neither.
Outcomes == {"closed", "bare", "ready"}

\* The call succeeds or takes a fault.
Costs(outcome) ==
    IF outcome = "ready" THEN UNCHANGED left ELSE Spend("faults")

SetAfterSetup(process, outcome) ==
    IF process.store \/ outcome = "closed" THEN process
    ELSE [process EXCEPT !.store = outcome = "ready", !.pools = @ + 1]

\* The global that is set is returned as it is, whatever became of its setup().
OpenStore(process, outcome) ==
    IF process.store \/ outcome = "closed" THEN process
    ELSE [process EXCEPT !.store = TRUE, !.pools = @ + 1]

OpenSaver(process, outcome) ==
    [process EXCEPT !.saver = @ \/ outcome # "closed"]

-----------------------------------------------------------------------------
(* main.lifespan and init_persistence *)

Up == [Down EXCEPT !.up = TRUE]

\* The bucket is not there: nothing after it is wired, and the server starts.
StartUnwired ==
    /\ ~proc.up
    /\ left.starts > 0 /\ left.faults > 0
    /\ left' = [left EXCEPT !.starts = @ - 1, !.faults = @ - 1]
    /\ proc' = Up
    /\ UNCHANGED <<tables, saverTables, files>>

\* The file API keeps the store it gets here as long as the process lives.
StartWired ==
    /\ ~proc.up
    /\ left.starts > 0
    /\ \E outcome \in Outcomes :
         /\ outcome # "ready" => left.faults > 0
         /\ left' = [left EXCEPT !.starts = @ - 1,
                                 !.faults = IF outcome = "ready" THEN @ ELSE @ - 1]
         /\ proc' = [OpenStore(Up, outcome) EXCEPT
                       !.wired = TRUE,
                       !.api = IF outcome = "ready" THEN "pg" ELSE "memory"]
         /\ tables' = (tables \/ outcome = "ready")
    /\ UNCHANGED <<saverTables, files>>

\* Shut down or killed: close_persistence closes nothing that is kept here.
Stop ==
    /\ proc.up
    /\ proc' = Down
    /\ files' = [files EXCEPT !["memory"] = Empty]
    /\ UNCHANGED <<tables, saverTables, left>>

-----------------------------------------------------------------------------
(* /api/v1/store/files *)

\* _require_store_file_repository
ApiStore == IF proc.api = "none" THEN "memory" ELSE proc.api

\* put_file and delete_file, of any path without "..": one call of the store.
ApiWrites(u, p, file) ==
    /\ proc.up
    /\ Spend("edits")
    /\ files[ApiStore][Namespaced(u)][p] # file
    /\ proc' = [proc EXCEPT !.api = ApiStore]
    /\ files' = [files EXCEPT ![ApiStore][Namespaced(u)][p] = file]
    /\ UNCHANGED <<tables, saverTables>>

PutFile(u, p, content) == ApiWrites(u, p, [by |-> u, text |-> content])

DeleteFile(u, p) == ApiWrites(u, p, NoFile)

\* At most one pool of the store is opened while the process lives, however
\* often opening it or its setup fails (factory.py:137-139: "created once and
\* reused across all agent creations to avoid leaking connection pools").
OnePool == proc.pools <= 1

=============================================================================
