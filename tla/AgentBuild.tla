----------------------------- MODULE AgentBuild -----------------------------
(***************************************************************************)
(* Building the runner of one agent and running it for its users.          *)
(*                                                                         *)
(* The registry caches one runner per agent.  The request that finds none  *)
(* builds it under the registry lock, so there is one build at a time; the *)
(* build reads the files and the credentials of the user it runs for.      *)
(* Every action of the build is one awaited call; the file API, uploads of *)
(* the agent, settings of users and turns of agents run in between.        *)
(*                                                                         *)
(* Two fields of a build are history: what each file held since the build  *)
(* got its store (seen), and the files that a user or an agent wrote since *)
(* it looked for stale copies and that no call of it replaced (byHand).    *)
(* The runner keeps the latter.                                            *)
(***************************************************************************)
EXTENDS SharedStore, Functions

CONSTANTS
    Selections,  \* [skills, memory, checkpoints]: what an agent document asks for
    LlmKeys,     \* the credentials a user may have set
    SearchLimit, \* the limit of a search of the store (1000)
    NoLlmKey, NoRunner, NoBuild, NoTurn

\* The list that names a source decides the directory of its copy: documents
\* list skills as skills and memories as memories.
ASSUME AgentBuildAssumption ==
    /\ Selections \subseteq [skills : Seq({p \in Paths : p.kind = "skills"}),
                             memory : Seq({p \in Paths : p.kind = "memories"}),
                             checkpoints : {"postgres", "memory"}]
    /\ NoLlmKey \notin LlmKeys

VARIABLES
    selection,    \* the stored document of the agent
    invalidating, \* a request waits for the lock to drop the runner
    llm,          \* llm[u]: the LLM settings of u
    runner,       \* the cached runner, with what it was built from
    build,        \* the build under way
    turn          \* the last request that got the runner, its user's settings
                  \* and the skills it found

agentVars == <<selection, invalidating, llm, runner, build, turn>>
buildVars == <<storeVars, agentVars>>

BuildSteps == {"saver", "store", "tools", "search", "delete", "read", "write", "model", "cache"}

AgentInit ==
    /\ selection \in Selections
    /\ invalidating = FALSE
    /\ llm = [u \in Tenants |-> NoLlmKey]
    /\ runner = NoRunner
    /\ build = NoBuild
    /\ turn = NoTurn

BuildInit == StoreInit /\ AgentInit

-----------------------------------------------------------------------------
(* Requests *)

Sourced(chosen) == chosen.skills \o chosen.memory

\* The copies a build leaves in place.
SelectedCopies(chosen) == {CopyOf(p) : p \in Range(Sourced(chosen))}

SourcesOf(chosen, copy) == {p \in Range(Sourced(chosen)) : CopyOf(p) = copy}

\* What SkillsMiddleware finds for u in the directory it was given.
Discovered(built, u) ==
    IF built.chosen.skills = <<>> THEN {}
    ELSE {p \in Paths : /\ p.kind = "skills" /\ p.dir = AgentDir
                        /\ files[built.store][Namespaced(u)][p] # NoFile}

\* get_runner: the cached runner, whoever it was built for.
Run(u) ==
    /\ proc.up /\ proc.wired
    /\ runner # NoRunner
    /\ turn' = [user |-> u, built |-> runner, own |-> llm[u],
                found |-> Discovered(runner, u)]
    /\ turn' # turn
    /\ UNCHANGED <<storeVars, selection, invalidating, llm, runner, build>>

BeginBuild(u) ==
    /\ proc.up /\ proc.wired
    /\ runner = NoRunner /\ build = NoBuild
    /\ build' = [pc |-> "saver", user |-> u, chosen |-> selection, saver |-> "memory",
                 store |-> "memory", creds |-> "environment", pos |-> 1, stale |-> {},
                 held |-> NoFile, missed |-> FALSE, seen |-> [p \in Paths |-> {}],
                 byHand |-> {}]
    /\ UNCHANGED <<storeVars, selection, invalidating, llm, runner, turn>>

Building(step) == proc.up /\ build # NoBuild /\ build.pc = step

Step(next) == build' = [build EXCEPT !.pc = next]

\* An exception leaves get_runner; what the build has written stays.
Raise == build' = NoBuild

-----------------------------------------------------------------------------
(* create_agent_from_config *)

GetSaver ==
    /\ Building("saver")
    /\ \/ /\ build.chosen.checkpoints = "memory"
          /\ Step("store")
          /\ UNCHANGED <<proc, saverTables, left>>
       \/ \E outcome \in IF proc.saver THEN {"ready"} ELSE Outcomes :
            /\ build.chosen.checkpoints = "postgres"
            /\ Costs(outcome)
            /\ proc' = OpenSaver(proc, outcome)
            /\ saverTables' = (saverTables \/ (~proc.saver /\ outcome = "ready"))
            /\ build' = [build EXCEPT !.pc = "store",
                                      !.saver = IF outcome = "ready" THEN "pg" ELSE "memory"]
    /\ UNCHANGED <<tables, files, selection, invalidating, llm, runner, turn>>

\* What each file is when the build is about to look at them.
FilesNow(store) ==
    [p \in Paths |-> {files[store][Namespaced(build.user)][p]}]

StoreLikeSaver(outcome) == IF outcome = "ready" THEN build.saver ELSE "memory"

\* PostgreSQL, whatever backend the agent asks for, or else the memory.
StoreGot(outcome) == IF outcome = "ready" THEN "pg" ELSE "memory"

\* _get_shared_store
GetStore ==
    /\ Building("store")
    /\ \E outcome \in IF proc.store THEN {"ready"} ELSE Outcomes :
         /\ Costs(outcome)
         /\ proc' = OpenStore(proc, outcome)
         /\ tables' = (tables \/ (~proc.store /\ outcome = "ready"))
         /\ build' = [build EXCEPT !.pc = "tools", !.store = StoreGot(outcome),
                                   !.seen = FilesNow(StoreGot(outcome))]
    /\ UNCHANGED <<saverTables, files, selection, invalidating, llm, runner, turn>>

GetTools ==
    /\ Building("tools")
    /\ \/ /\ Step(IF Sourced(build.chosen) = <<>> THEN "model" ELSE "search")
          /\ UNCHANGED left
       \/ Raise /\ Spend("faults")
    /\ UNCHANGED <<proc, tables, saverTables, files, selection, invalidating, llm, runner, turn>>

Mine == files[build.store][Namespaced(build.user)]

\* The tables are missing when the setup of the global failed before.
Works == build.store = "pg" => tables

StaleMemories(found) ==
    {p \in found : /\ p.dir = AgentDir /\ p.kind = "memories"
                   /\ p \notin SelectedCopies(build.chosen)}

\* An item is stale by the last segment of its path.
StaleCopies(found) ==
    {p \in found : p.dir = AgentDir /\ p \notin SelectedCopies(build.chosen)}

\* _cleanup_stale_agent_files: the search sees SearchLimit items at most.
Search ==
    /\ Building("search") /\ Works
    /\ LET there == {p \in Paths : Mine[p] # NoFile}
           many == Cardinality(there) > SearchLimit
       IN  \E found \in IF many THEN {f \in SUBSET there : Cardinality(f) = SearchLimit}
                                ELSE {there} :
             build' = [build EXCEPT !.pc = "delete", !.stale = StaleCopies(found),
                                    !.missed = many, !.byHand = {}]
    /\ UNCHANGED <<storeVars, selection, invalidating, llm, runner, turn>>

\* _safe_delete: a failure is logged.
DeleteStale ==
    /\ Building("delete")
    /\ \E p \in build.stale :
         \/ /\ files' = [files EXCEPT ![build.store][Namespaced(build.user)][p] = NoFile]
            /\ build' = [build EXCEPT !.stale = @ \ {p}, !.byHand = @ \ {p},
                                      !.seen[p] = @ \cup {NoFile}]
            /\ UNCHANGED left
         \/ /\ Spend("faults")
            /\ build' = [build EXCEPT !.stale = @ \ {p}, !.missed = TRUE]
            /\ UNCHANGED files
    /\ UNCHANGED <<proc, tables, saverTables, selection, invalidating, llm, runner, turn>>

Cleaned ==
    /\ Building("delete")
    /\ build.stale = {}
    /\ Step("read")
    /\ UNCHANGED <<storeVars, selection, invalidating, llm, runner, turn>>

Source == Sourced(build.chosen)[build.pos]

OnePastTheEnd ==
    [build EXCEPT !.pos = @ + 1,
                  !.pc = IF build.pos <= Len(Sourced(build.chosen)) THEN "read" ELSE "model"]

NextSource ==
    [build EXCEPT !.pos = @ + 1,
                  !.pc = IF build.pos < Len(Sourced(build.chosen)) THEN "read" ELSE "model"]

\* A source that is gone leaves the copy of an earlier build alone.
ReadIfNotCopied ==
    /\ Building("read") /\ Works
    /\ build' = IF Mine[Source] = NoFile \/ Mine[CopyOf(Source)] # NoFile THEN NextSource
                ELSE [build EXCEPT !.pc = "write", !.held = Mine[Source]]
    /\ UNCHANGED <<storeVars, selection, invalidating, llm, runner, turn>>

ReadSource ==
    /\ Building("read") /\ Works
    /\ build' = IF Mine[Source] = NoFile THEN NextSource
                ELSE [build EXCEPT !.pc = "write", !.held = Mine[Source]]
    /\ UNCHANGED <<storeVars, selection, invalidating, llm, runner, turn>>

WriteCopy ==
    /\ Building("write")
    /\ files' = [files EXCEPT ![build.store][Namespaced(build.user)][CopyOf(Source)] = build.held]
    /\ build' = [NextSource EXCEPT !.held = NoFile, !.byHand = @ \ {CopyOf(Source)},
                                   !.seen[CopyOf(Source)] = @ \cup {build.held}]
    /\ UNCHANGED <<proc, tables, saverTables, left, selection, invalidating, llm, runner, turn>>

StoreCallFails ==
    /\ \E step \in {"search", "read", "write"} : Building(step)
    /\ Raise
    /\ IF Works THEN Spend("faults") ELSE UNCHANGED left
    /\ UNCHANGED <<proc, tables, saverTables, files, selection, invalidating, llm, runner, turn>>

\* _resolve_model: the environment's credentials without a user.
ResolveModel ==
    /\ Building("model")
    /\ IF build.user # NoUser /\ llm[build.user] = NoLlmKey
         THEN Raise
         ELSE build' = [build EXCEPT
                          !.pc = "cache",
                          !.creds = IF build.user = NoUser THEN "environment"
                                    ELSE <<build.user, llm[build.user]>>]
    /\ UNCHANGED <<storeVars, selection, invalidating, llm, runner, turn>>

\* The subagents and the graph come first, and may raise.
CacheRunner ==
    /\ Building("cache")
    /\ \/ /\ runner' = [user |-> build.user, chosen |-> build.chosen, saver |-> build.saver,
                        store |-> build.store, creds |-> build.creds, missed |-> build.missed,
                        byHand |-> build.byHand]
          /\ UNCHANGED left
       \/ Spend("faults") /\ UNCHANGED runner
    /\ Raise
    /\ UNCHANGED <<proc, tables, saverTables, files, selection, invalidating, llm, turn>>

-----------------------------------------------------------------------------
(* What happens around builds *)

\* PUT of the agent stores the document and then invalidates under the lock.
Reconfigure(chosen) ==
    /\ proc.up /\ proc.wired
    /\ chosen # selection
    /\ Spend("edits")
    /\ selection' = chosen
    /\ invalidating' = TRUE
    /\ UNCHANGED <<proc, tables, saverTables, files, llm, runner, build, turn>>

Invalidate ==
    /\ invalidating
    /\ build = NoBuild
    /\ invalidating' = FALSE
    /\ runner' = NoRunner
    /\ UNCHANGED <<storeVars, selection, llm, build, turn>>

SetLlmKey(u, key) ==
    /\ proc.up
    /\ u # NoUser /\ llm[u] # key
    /\ llm' = [llm EXCEPT ![u] = key]
    /\ UNCHANGED <<storeVars, selection, invalidating, runner, build, turn>>

\* The build under way may read what was written to p, and neither it nor the
\* build of the runner put it there.
Notes(s, u, p) ==
    /\ build' = IF build = NoBuild THEN build
                ELSE IF build.user # u \/ build.store # s THEN build
                ELSE [build EXCEPT !.seen[p] = @ \cup {files'[s][Namespaced(u)][p]},
                                   !.byHand = @ \cup {p}]
    /\ runner' = IF runner = NoRunner THEN runner
                 ELSE IF runner.user # u \/ runner.store # s THEN runner
                 ELSE [runner EXCEPT !.byHand = @ \cup {p}]

\* The store of a turn, which fails while its tables are missing.
TurnStore == turn.built.store

TurnWorks == turn # NoTurn /\ (TurnStore = "pg" => tables)

ToolWritesForBuilder(p) ==
    /\ TurnWorks
    /\ Spend("edits")
    /\ files' = [files EXCEPT ![TurnStore][Namespaced(turn.built.user)][p] =
                                [by |-> turn.user, text |-> Learned]]
    /\ Notes(TurnStore, turn.built.user, p)
    /\ UNCHANGED <<proc, tables, saverTables, selection, invalidating, llm, turn>>

\* A file tool of the agent writes any path, sources and copies included, in
\* the namespace of the user the agent runs for: the backend resolves it at
\* each call.
ToolWrites(p) ==
    /\ TurnWorks
    /\ Spend("edits")
    /\ files' = [files EXCEPT ![TurnStore][Namespaced(turn.user)][p] =
                                [by |-> turn.user, text |-> Learned]]
    /\ Notes(TurnStore, turn.user, p)
    /\ UNCHANGED <<proc, tables, saverTables, selection, invalidating, llm, turn>>

FileApi(u, p) ==
    /\ \/ \E c \in Contents : PutFile(u, p, c)
       \/ DeleteFile(u, p)
    /\ Notes(ApiStore, u, p)
    /\ UNCHANGED <<selection, invalidating, llm, turn>>

\* Nothing of the process is left.
StopAll ==
    /\ Stop
    /\ invalidating' = FALSE
    /\ runner' = NoRunner
    /\ build' = NoBuild
    /\ turn' = NoTurn
    /\ UNCHANGED <<selection, llm>>

BuildNext ==
    \/ (StartUnwired \/ StartWired) /\ UNCHANGED agentVars
    \/ StopAll
    \/ \E p \in Paths : ToolWrites(p) \/ \E u \in Tenants : FileApi(u, p)
    \/ \E u \in Tenants : Run(u) \/ BeginBuild(u) \/ \E k \in LlmKeys : SetLlmKey(u, k)
    \/ GetSaver \/ GetStore \/ GetTools
    \/ Search \/ DeleteStale \/ Cleaned \/ ReadSource \/ WriteCopy \/ StoreCallFails
    \/ ResolveModel \/ CacheRunner
    \/ \E chosen \in Selections : Reconfigure(chosen)
    \/ Invalidate

BuildSpec == BuildInit /\ [][BuildNext]_buildVars

-----------------------------------------------------------------------------

\* The types, and where a build that copies files is: at a source, with the
\* content it read (factory.py:537-543, 563-571).
BuildTypeOK ==
    /\ proc \in [up : BOOLEAN, api : Stores \cup {"none"}, wired : BOOLEAN,
                 store : BOOLEAN, saver : BOOLEAN, pools : Nat]
    /\ {tables, saverTables, invalidating} \subseteq BOOLEAN
    /\ files \in [Stores -> [Namespaces -> [Paths -> File \cup {NoFile}]]]
    /\ left \in [faults : Nat, edits : Nat, starts : Nat]
    /\ selection \in Selections
    /\ llm \in [Tenants -> LlmKeys \cup {NoLlmKey}]
    /\ runner # NoRunner => runner.chosen \in Selections /\ runner.store \in Stores
    /\ build # NoBuild =>
         /\ build.pc \in BuildSteps
         /\ build.stale \subseteq Paths
         /\ build.pc \in {"read", "write"} => build.pos \in DOMAIN Sourced(build.chosen)
         /\ build.pc = "write" => build.held # NoFile

\* When the file API keeps its files in PostgreSQL, so does every runner: what
\* users upload is what agents read (factory.py:112-131, dependencies.py:264-267).
AgentsUseApiStore == proc.api = "pg" /\ runner # NoRunner => runner.store = "pg"

\* The user a runner was built for finds the selected skills, and others only
\* if this user, or an agent in a turn of this user, put them there after the
\* build had looked for stale ones; unless a removal was skipped
\* (factory.py:418-419).
OnlySelectedSkills ==
    (turn # NoTurn /\ turn.user = turn.built.user /\ ~turn.built.missed) =>
        turn.found \subseteq SelectedCopies(turn.built.chosen) \cup turn.built.byHand

\* A runner is cached with copies of what its sources held at some moment of
\* the build, also when they are replaced meanwhile.  A copy that a user or an
\* agent writes after the build did stays as they wrote it, and an older copy
\* stays where a source is missing (factory.py:537-543, 563-571).
CopyWasCurrent ==
    [][runner = NoRunner /\ runner' # NoRunner =>
         \A copy \in SelectedCopies(build.chosen) \ build.byHand :
           LET held == UNION {build.seen[p] : p \in SourcesOf(build.chosen, copy)}
           IN  NoFile \in held \/ Mine[copy] \in held]_buildVars

\* What is in the namespace of a user was written there by this user or by an
\* agent in a turn of this user, or copied by a build from such files: a runner
\* that was built for one user and runs for all of them carries no file from
\* one to the other (namespace.py:20-39, factory.py:228-245).
NamespacesApart ==
    \A s \in Stores, u \in Tenants, p \in Paths :
        LET file == files[s][Namespaced(u)][p]
        IN  file # NoFile => file.by = u

\* "The agent factory resolves the credentials per request from the
\* authenticated user_id" (README.md:1393).
OwnCredentials ==
    turn # NoTurn =>
      turn.built.creds = IF turn.user = NoUser THEN "environment" ELSE <<turn.user, turn.own>>

=============================================================================
