-------------------------- MODULE AgentBuildProofs --------------------------
(***************************************************************************)
(* Proofs about AgentBuild for any users, files, agents and bounds.        *)
(***************************************************************************)
EXTENDS AgentBuild, TLAPS

ProcType ==
    [up : BOOLEAN, api : Stores \cup {"none"}, wired : BOOLEAN,
     store : BOOLEAN, saver : BOOLEAN, pools : Nat]

-----------------------------------------------------------------------------
(* One process *)

\* One pool for the global, none without it; and the file API has its files
\* in PostgreSQL only when the global is there.
OneGlobal(process) ==
    /\ process \in ProcType
    /\ process.pools = IF process.store THEN 1 ELSE 0
    /\ process.api = "pg" => process.store

LEMMA DownOK == OneGlobal(Down) /\ OneGlobal(Up) /\ Up.store = FALSE /\ Up.pools = 0
<1>1. Down \in ProcType /\ Down.pools = 0 /\ Down.store = FALSE /\ Down.api = "none"
  BY DEF Down, ProcType
<1>2. Up \in ProcType /\ Up.pools = 0 /\ Up.store = FALSE /\ Up.api = "none"
  BY <1>1 DEF Up, ProcType
<1> QED
  BY <1>1, <1>2 DEF OneGlobal

\* Opening the store, whatever its outcome, opens no second pool.
LEMMA OpenStoreOK ==
    ASSUME NEW process, OneGlobal(process), NEW outcome \in Outcomes
    PROVE  /\ OneGlobal(OpenStore(process, outcome))
           /\ outcome = "ready" => OpenStore(process, outcome).store
           /\ OpenStore(process, outcome).api = process.api
           /\ OpenStore(process, outcome).up = process.up
<1>1. CASE process.store \/ outcome = "closed"
  BY <1>1 DEF OpenStore
<1>2. CASE ~process.store /\ outcome # "closed"
  <2>1. OpenStore(process, outcome) = [process EXCEPT !.store = TRUE, !.pools = 1]
    BY <1>2 DEF OneGlobal, OpenStore
  <2> DEFINE opened == [process EXCEPT !.store = TRUE, !.pools = 1]
  <2>2. process \in ProcType
    BY DEF OneGlobal
  <2>3. opened \in ProcType /\ opened.store = TRUE /\ opened.pools = 1
    BY <2>2 DEF ProcType
  <2>4. opened.api = process.api /\ opened.up = process.up
    BY <2>2 DEF ProcType
  <2>5. OneGlobal(opened)
    BY <2>3 DEF OneGlobal
  <2> QED
    BY <2>1, <2>3, <2>4, <2>5
<1> QED
  BY <1>1, <1>2

LEMMA OpenSaverOK ==
    ASSUME NEW process, OneGlobal(process), NEW outcome
    PROVE  /\ OneGlobal(OpenSaver(process, outcome))
           /\ OpenSaver(process, outcome).api = process.api
           /\ OpenSaver(process, outcome).up = process.up
BY DEF OneGlobal, ProcType, OpenSaver

LEMMA ApiStoreOK ==
    ASSUME NEW process, OneGlobal(process),
           NEW api \in Stores, api = (IF process.api = "none" THEN "memory" ELSE process.api)
    PROVE  /\ OneGlobal([process EXCEPT !.api = api])
           /\ [process EXCEPT !.api = api].api = api
           /\ [process EXCEPT !.api = api].up = process.up
           /\ api = "pg" => process.api = "pg"
BY DEF OneGlobal, ProcType, Stores

LEMMA WiredOK ==
    ASSUME NEW process, OneGlobal(process), NEW api \in Stores, api = "pg" => process.store
    PROVE  /\ OneGlobal([process EXCEPT !.wired = TRUE, !.api = api])
           /\ [process EXCEPT !.wired = TRUE, !.api = api].up = process.up
BY DEF OneGlobal, ProcType

-----------------------------------------------------------------------------
(* The build *)

IsBuild(b) ==
    b = [pc |-> b.pc, user |-> b.user, chosen |-> b.chosen, saver |-> b.saver,
         store |-> b.store, creds |-> b.creds, pos |-> b.pos, stale |-> b.stale,
         held |-> b.held, missed |-> b.missed, seen |-> b.seen, byHand |-> b.byHand]

IsRunner(r) ==
    r = [user |-> r.user, chosen |-> r.chosen, saver |-> r.saver, store |-> r.store,
         creds |-> r.creds, missed |-> r.missed, byHand |-> r.byHand]

Early == {"saver", "store"}

\* A build past _get_shared_store, and a cached runner, are on the store of
\* the file API when that is PostgreSQL; a process that is down has neither.
OnApiStore ==
    /\ build # NoBuild => IsBuild(build)
    /\ runner # NoRunner => IsRunner(runner)
    /\ build # NoBuild /\ build.pc \notin Early /\ proc.api = "pg" => build.store = "pg"
    /\ runner # NoRunner /\ proc.api = "pg" => runner.store = "pg"
    /\ ~proc.up => build = NoBuild /\ runner = NoRunner

StoreInv == OneGlobal(proc) /\ OnApiStore

\* A build that goes on with the store it has.
GoesOn(b) ==
    b = NoBuild \/ (IsBuild(b) /\ b.store = build.store /\ (b.pc \in Early => build.pc \in Early))

LEMMA WentOn ==
    ASSUME StoreInv, proc' = proc, runner' = runner, build # NoBuild, build.pc \notin Early,
           GoesOn(build'), proc.up
    PROVE  StoreInv'
BY DEF StoreInv, OnApiStore, GoesOn

\* A write that is noted moves no build and no runner.
LEMMA NotedStores ==
    ASSUME OnApiStore, NEW s, NEW u, NEW p, Notes(s, u, p)
    PROVE  /\ build = NoBuild => build' = NoBuild
           /\ build # NoBuild => /\ IsBuild(build') /\ build'.pc = build.pc
                                 /\ build'.store = build.store
           /\ runner = NoRunner => runner' = NoRunner
           /\ runner # NoRunner => IsRunner(runner') /\ runner'.store = runner.store
<1>1. build # NoBuild => /\ IsBuild(build') /\ build'.pc = build.pc
                         /\ build'.store = build.store
  <2>1. \/ build' = build
        \/ \E seen, byHand : build' = [build EXCEPT !.seen = seen, !.byHand = byHand]
    <3>1. [build EXCEPT !.seen[p] = @ \cup {files'[s][Namespaced(u)][p]},
                        !.byHand = @ \cup {p}]
          = [build EXCEPT !.seen = [build.seen EXCEPT ![p] = @ \cup {files'[s][Namespaced(u)][p]}],
                          !.byHand = build.byHand \cup {p}]
      OBVIOUS
    <3> QED
      BY <3>1 DEF Notes
  <2> QED
    BY <2>1 DEF OnApiStore, IsBuild
<1>2. runner # NoRunner => IsRunner(runner') /\ runner'.store = runner.store
  BY DEF OnApiStore, IsRunner, Notes
<1> QED
  BY <1>1, <1>2 DEF Notes

LEMMA StoreInit0 == BuildInit => StoreInv
BY DownOK DEF BuildInit, StoreInit, AgentInit, StoreInv, OnApiStore, Down

LEMMA StoreInvStep == StoreInv /\ [BuildNext]_buildVars => StoreInv'
<1> SUFFICES ASSUME StoreInv, [BuildNext]_buildVars PROVE StoreInv'
  OBVIOUS
<1>a. OneGlobal(proc)
  BY DEF StoreInv
<1>1. CASE UNCHANGED <<proc, build, runner>>
  BY <1>1 DEF StoreInv, OnApiStore
<1>2. CASE StartUnwired /\ UNCHANGED agentVars
  <2>1. proc' = Up /\ build = NoBuild /\ runner = NoRunner /\ UNCHANGED <<build, runner>>
    BY <1>2 DEF StartUnwired, agentVars, StoreInv, OnApiStore
  <2> QED
    BY <2>1, DownOK DEF StoreInv, OnApiStore
<1>3. CASE StartWired /\ UNCHANGED agentVars
  <2>1. build = NoBuild /\ runner = NoRunner /\ UNCHANGED <<build, runner>>
    BY <1>3 DEF StartWired, agentVars, StoreInv, OnApiStore
  <2>2. PICK outcome \in Outcomes :
          proc' = [OpenStore(Up, outcome) EXCEPT
                     !.wired = TRUE, !.api = IF outcome = "ready" THEN "pg" ELSE "memory"]
    BY <1>3 DEF StartWired
  <2> DEFINE api == IF outcome = "ready" THEN "pg" ELSE "memory"
  <2>3. OneGlobal(OpenStore(Up, outcome)) /\ (outcome = "ready" => OpenStore(Up, outcome).store)
    BY DownOK, OpenStoreOK
  <2>4. api \in Stores /\ (api = "pg" => OpenStore(Up, outcome).store)
    BY <2>3 DEF Stores
  <2>5. proc' = [OpenStore(Up, outcome) EXCEPT !.wired = TRUE, !.api = api]
    BY <2>2
  <2> HIDE DEF api
  <2>6. OneGlobal(proc')
    BY <2>3, <2>4, <2>5, WiredOK
  <2> QED
    BY <2>1, <2>6 DEF StoreInv, OnApiStore
<1>4. CASE StopAll
  BY <1>4, DownOK DEF StopAll, Stop, StoreInv, OnApiStore
<1>5. ASSUME NEW u \in Tenants, NEW p \in Paths, FileApi(u, p) PROVE StoreInv'
  <2>1. proc.up /\ proc' = [proc EXCEPT !.api = ApiStore] /\ Notes(ApiStore, u, p)
    BY <1>5 DEF FileApi, PutFile, DeleteFile, ApiWrites
  <2>2. ApiStore \in Stores /\ ApiStore = IF proc.api = "none" THEN "memory" ELSE proc.api
    BY <1>a DEF ApiStore, Stores, OneGlobal, ProcType
  <2>3. OneGlobal(proc') /\ proc'.up /\ (proc'.api = "pg" => proc.api = "pg")
    BY <1>a, <2>1, <2>2, ApiStoreOK
  <2> QED
    BY <2>1, <2>3, NotedStores DEF StoreInv, OnApiStore
<1>12. ASSUME NEW p \in Paths, ToolWrites(p) PROVE StoreInv'
  <2>1. proc' = proc /\ Notes(TurnStore, turn.user, p)
    BY <1>12 DEF ToolWrites
  <2> QED
    BY <2>1, NotedStores DEF StoreInv, OnApiStore, Notes
<1>6. ASSUME NEW u \in Tenants, BeginBuild(u) PROVE StoreInv'
  BY <1>6 DEF BeginBuild, storeVars, StoreInv, OnApiStore, IsBuild, Early
<1>7. CASE GetSaver
  <2>1. build # NoBuild /\ IsBuild(build) /\ runner' = runner /\ proc.up
    BY <1>7 DEF GetSaver, Building, StoreInv, OnApiStore
  <2>2. CASE build' = [build EXCEPT !.pc = "store"] /\ UNCHANGED proc
    BY <2>1, <2>2 DEF StoreInv, OnApiStore, IsBuild, Early
  <2>3. ASSUME NEW outcome,
               proc' = OpenSaver(proc, outcome),
               build' = [build EXCEPT !.pc = "store",
                                      !.saver = IF outcome = "ready" THEN "pg" ELSE "memory"]
        PROVE  StoreInv'
    <3>1. OneGlobal(proc') /\ proc'.api = proc.api /\ proc'.up
      BY <1>a, <2>1, <2>3, OpenSaverOK
    <3>2. IsBuild(build') /\ build'.pc = "store"
      BY <2>1, <2>3 DEF IsBuild
    <3> QED
      BY <2>1, <3>1, <3>2 DEF StoreInv, OnApiStore, Early
  <2> QED
    BY <1>7, <2>2, <2>3 DEF GetSaver, Step
<1>8. CASE GetStore
  <2>1. PICK outcome \in IF proc.store THEN {"ready"} ELSE Outcomes :
          /\ proc' = OpenStore(proc, outcome)
          /\ build' = [build EXCEPT !.pc = "tools", !.store = StoreGot(outcome),
                                    !.seen = FilesNow(StoreGot(outcome))]
    BY <1>8 DEF GetStore
  <2>2. build # NoBuild /\ IsBuild(build) /\ runner' = runner /\ proc.up
    BY <1>8 DEF GetStore, Building, StoreInv, OnApiStore
  <2>3. outcome \in Outcomes /\ (proc.store => outcome = "ready")
    BY <2>1 DEF Outcomes
  <2>4. OneGlobal(proc') /\ proc'.api = proc.api /\ proc'.up
    BY <1>a, <2>1, <2>2, <2>3, OpenStoreOK
  <2>5. IsBuild(build') /\ build'.store = StoreGot(outcome)
    BY <2>1, <2>2 DEF IsBuild
  <2>6. proc.api = "pg" => build'.store = "pg"
    BY <1>a, <2>3, <2>5 DEF OneGlobal, StoreGot
  <2> QED
    BY <2>2, <2>4, <2>5, <2>6 DEF StoreInv, OnApiStore
<1>9. CASE GetTools \/ Search \/ DeleteStale \/ Cleaned \/ ReadSource \/ WriteCopy
           \/ StoreCallFails \/ ResolveModel
  <2>1. /\ proc' = proc /\ runner' = runner /\ proc.up
        /\ build # NoBuild /\ build.pc \notin Early /\ IsBuild(build)
    BY <1>9
    DEF GetTools, Search, DeleteStale, Cleaned, ReadSource, WriteCopy, StoreCallFails,
        ResolveModel, Building, Early, storeVars, StoreInv, OnApiStore
  <2>2. ASSUME NEW step, build' = [build EXCEPT !.pc = step], step \notin Early
        PROVE  GoesOn(build')
    BY <2>1, <2>2 DEF GoesOn, IsBuild
  <2>3. build' = NoBuild => GoesOn(build')
    BY DEF GoesOn
  <2>4. GoesOn(build')
    <3>1. CASE GetTools
      BY <2>2, <2>3, <3>1 DEF GetTools, Step, Raise, Early
    <3>2. CASE Cleaned
      BY <2>2, <3>2 DEF Cleaned, Step, Early
    <3>3. CASE Search
      <4>1. PICK stale, missed :
              build' = [build EXCEPT !.pc = "delete", !.stale = stale, !.missed = missed,
                                     !.byHand = {}]
        BY <3>3 DEF Search
      <4> QED
        BY <2>1, <4>1 DEF GoesOn, IsBuild, Early
    <3>4. CASE DeleteStale
      BY <2>1, <3>4 DEF DeleteStale, GoesOn, IsBuild, Early
    <3>5. CASE ReadSource
      BY <2>1, <3>5 DEF ReadSource, NextSource, GoesOn, IsBuild, Early
    <3>6. CASE WriteCopy
      BY <2>1, <3>6 DEF WriteCopy, NextSource, GoesOn, IsBuild, Early
    <3>7. CASE StoreCallFails
      BY <2>3, <3>7 DEF StoreCallFails, Raise
    <3>8. CASE ResolveModel
      <4>1. build' = NoBuild
            \/ \E creds : build' = [build EXCEPT !.pc = "cache", !.creds = creds]
        BY <3>8 DEF ResolveModel, Raise
      <4> QED
        <5>1. ASSUME NEW creds, build' = [build EXCEPT !.pc = "cache", !.creds = creds]
              PROVE  GoesOn(build')
          BY <2>1, <5>1 DEF GoesOn, IsBuild, Early
        <5> QED
          BY <2>3, <4>1, <5>1
    <3> QED
      BY <1>9, <3>1, <3>2, <3>3, <3>4, <3>5, <3>6, <3>7, <3>8
  <2> QED
    BY <2>1, <2>4, WentOn
<1>10. CASE CacheRunner
  <2>1. /\ proc' = proc /\ proc.up /\ build # NoBuild /\ build.pc = "cache"
        /\ build' = NoBuild
        /\ runner' = runner \/ (IsRunner(runner') /\ runner'.store = build.store)
    BY <1>10 DEF CacheRunner, Building, Raise, IsRunner
  <2> QED
    BY <2>1 DEF StoreInv, OnApiStore, Early
<1>11. CASE Invalidate
  BY <1>11 DEF Invalidate, storeVars, StoreInv, OnApiStore
<1> QED
  BY <1>1, <1>2, <1>3, <1>4, <1>5, <1>6, <1>7, <1>8, <1>9, <1>10, <1>11, <1>12
  DEF BuildNext, buildVars, storeVars, agentVars, Run, SetLlmKey, Reconfigure

LEMMA StoreAlways == BuildSpec => []StoreInv
<1> QED
  BY StoreInit0, StoreInvStep, PTL DEF BuildSpec

\* However often opening the store fails, and whoever tries again.
THEOREM OnePoolEver == BuildSpec => []OnePool
<1>1. StoreInv => OnePool
  BY DEF StoreInv, OneGlobal, OnePool, ProcType
<1> QED
  BY <1>1, StoreAlways, PTL

\* Agents built at any time, after any failures, read what users upload.
THEOREM ApiStoreShared == BuildSpec => []AgentsUseApiStore
<1>1. StoreInv => AgentsUseApiStore
  BY DEF StoreInv, OnApiStore, AgentsUseApiStore
<1> QED
  BY <1>1, StoreAlways, PTL

-----------------------------------------------------------------------------
(* The files and the types *)

Held == File \cup {NoFile}

FilesType == [Stores -> [Namespaces -> [Paths -> Held]]]

LeftType == [faults : Nat, edits : Nat, starts : Nat]

Credentials == {"environment"} \cup (Tenants \X LlmKeys)

RunnerType ==
    [user : Tenants, chosen : Selections, saver : Stores, store : Stores,
     creds : Credentials, missed : BOOLEAN, byHand : SUBSET Paths]

BuildType ==
    [pc : BuildSteps, user : Tenants, chosen : Selections, saver : Stores, store : Stores,
     creds : Credentials, pos : Nat, stale : SUBSET Paths, held : Held, missed : BOOLEAN,
     seen : [Paths -> SUBSET Held], byHand : SUBSET Paths]

TurnType ==
    [user : Tenants, built : RunnerType, own : LlmKeys \cup {NoLlmKey}, found : SUBSET Paths]

Others ==
    /\ tables \in BOOLEAN /\ saverTables \in BOOLEAN /\ invalidating \in BOOLEAN
    /\ files \in FilesType
    /\ left \in LeftType
    /\ selection \in Selections
    /\ llm \in [Tenants -> LlmKeys \cup {NoLlmKey}]
    /\ runner = NoRunner \/ runner \in RunnerType
    /\ turn = NoTurn \/ turn \in TurnType

\* Where a build stands among its sources.
Placed(b) ==
    LET sources == Len(Sourced(b.chosen))
    IN  /\ b.pc \in {"saver", "store", "tools", "search", "delete"} => b.pos = 1
        /\ b.pc \in {"search", "delete"} => sources > 0
        /\ b.pc \in {"read", "write"} => b.pos \in 1 .. sources
        /\ b.pc \in {"model", "cache"} => b.pos = sources + 1
        /\ b.pc = "write" => b.held # NoFile
        /\ \A p \in b.stale : p.dir = AgentDir

IsBuilt(b) == b \in BuildType /\ Placed(b)

\* A build is for a registry that caches no runner.
Built == build = NoBuild \/ (IsBuilt(build) /\ runner = NoRunner)

Typed == Others /\ Built

\* The files after one write.
Put(s, n, p, content) ==
    \A s2 \in Stores, n2 \in Namespaces, p2 \in Paths :
      files'[s2][n2][p2] =
        IF s2 = s /\ n2 = n /\ p2 = p THEN content ELSE files[s2][n2][p2]

LEMMA Written ==
    ASSUME files \in FilesType, NEW s \in Stores, NEW n \in Namespaces, NEW p \in Paths,
           NEW content \in Held,
           files' = [files EXCEPT ![s][n][p] = content]
    PROVE  files' \in FilesType /\ Put(s, n, p, content)
<1>1. files[s] \in [Namespaces -> [Paths -> Held]] /\ files[s][n] \in [Paths -> Held]
  BY DEF FilesType
<1> DEFINE inner == [files[s][n] EXCEPT ![p] = content]
           outer == [files[s] EXCEPT ![n] = inner]
<1>2. inner \in [Paths -> Held]
      /\ \A p2 \in Paths : inner[p2] = IF p2 = p THEN content ELSE files[s][n][p2]
  BY <1>1
<1>3. files' = [files EXCEPT ![s] = outer]
  BY <1>1 DEF FilesType
<1> HIDE DEF inner
<1>4. outer \in [Namespaces -> [Paths -> Held]]
      /\ \A n2 \in Namespaces : outer[n2] = IF n2 = n THEN inner ELSE files[s][n2]
  BY <1>1, <1>2
<1> HIDE DEF outer
<1>5. files' \in FilesType
      /\ \A s2 \in Stores : files'[s2] = IF s2 = s THEN outer ELSE files[s2]
  BY <1>3, <1>4 DEF FilesType
<1> QED
  BY <1>2, <1>4, <1>5 DEF Put

LEMMA NamespacesDiffer ==
    ASSUME NEW u \in Tenants, NEW v \in Tenants, Namespaced(u) = Namespaced(v)
    PROVE  u = v
BY DEF Namespaced

LEMMA InNamespaces == \A u \in Tenants : Namespaced(u) \in Namespaces
BY DEF Namespaces

LEMMA Copies ==
    \A p \in Paths :
      CopyOf(p) \in Paths /\ CopyOf(p).kind = p.kind /\ CopyOf(p).dir = AgentDir
BY SharedStoreAssumption DEF CopyOf

LEMMA SourcedOK ==
    ASSUME NEW chosen \in Selections
    PROVE  /\ Sourced(chosen) \in Seq(Paths)
           /\ Len(Sourced(chosen)) \in Nat
           /\ DOMAIN Sourced(chosen) = 1 .. Len(Sourced(chosen))
           /\ \A i \in DOMAIN Sourced(chosen) : Sourced(chosen)[i] \in Paths
<1>1. chosen.skills \in Seq({p \in Paths : p.kind = "skills"})
      /\ chosen.memory \in Seq({p \in Paths : p.kind = "memories"})
  BY AgentBuildAssumption
<1>2. chosen.skills \in Seq(Paths) /\ chosen.memory \in Seq(Paths)
  BY <1>1
<1>3. Sourced(chosen) \in Seq(Paths)
  BY <1>2 DEF Sourced
<1> QED
  BY <1>3
-----------------------------------------------------------------------------
(* Every action keeps the types and the place of the build *)

LEMMA Spent ==
    ASSUME left \in LeftType, NEW what \in {"faults", "edits"}, Spend(what)
    PROVE  left' \in LeftType
BY DEF LeftType, Spend

LEMMA EmptyOK == Empty \in [Namespaces -> [Paths -> Held]]
BY DEF Empty, Held

LEMMA TypedInit == BuildInit => Typed
<1> SUFFICES ASSUME BuildInit PROVE Typed
  OBVIOUS
<1>1. files \in FilesType
  BY EmptyOK DEF BuildInit, StoreInit, FilesType
<1>2. left \in LeftType
  BY SharedStoreAssumption DEF BuildInit, StoreInit, LeftType
<1> QED
  BY <1>1, <1>2 DEF BuildInit, StoreInit, AgentInit, Typed, Others, Built

LEMMA TypedStart ==
    ASSUME Typed, StartUnwired \/ StartWired, UNCHANGED agentVars
    PROVE  Typed'
<1>1. left' \in LeftType
  <2>1. left \in LeftType
    BY DEF Typed, Others
  <2>2. CASE StartUnwired
    <3>1. left.starts > 0 /\ left.faults > 0
          /\ left' = [left EXCEPT !.starts = @ - 1, !.faults = @ - 1]
      BY <2>2 DEF StartUnwired
    <3>2. left.starts - 1 \in Nat /\ left.faults - 1 \in Nat
      BY <2>1, <3>1 DEF LeftType
    <3>3. left' = [left EXCEPT !.starts = left.starts - 1, !.faults = left.faults - 1]
      BY <3>1
    <3> QED
      BY <2>1, <3>2, <3>3 DEF LeftType
  <2>3. CASE StartWired
    <3>1. PICK outcome \in Outcomes :
            /\ outcome # "ready" => left.faults > 0
            /\ left' = [left EXCEPT !.starts = @ - 1,
                                    !.faults = IF outcome = "ready" THEN @ ELSE @ - 1]
      BY <2>3 DEF StartWired
    <3>2. left.starts > 0
      BY <2>3 DEF StartWired
    <3> DEFINE faults == IF outcome = "ready" THEN left.faults ELSE left.faults - 1
    <3>3. left.starts - 1 \in Nat /\ faults \in Nat
      BY <2>1, <3>1, <3>2 DEF LeftType
    <3>4. left' = [left EXCEPT !.starts = left.starts - 1, !.faults = faults]
      BY <3>1
    <3> HIDE DEF faults
    <3> QED
      BY <2>1, <3>3, <3>4 DEF LeftType
  <2> QED
    BY <2>2, <2>3
<1>2. tables' \in BOOLEAN /\ saverTables' \in BOOLEAN /\ files' = files
  BY DEF StartUnwired, StartWired, Typed, Others
<1> QED
  BY <1>1, <1>2 DEF agentVars, Typed, Others, Built

LEMMA TypedStop == ASSUME Typed, StopAll PROVE Typed'
<1>1. files' \in FilesType
  BY EmptyOK DEF StopAll, Stop, Typed, Others, FilesType
<1> QED
  BY <1>1 DEF StopAll, Stop, Typed, Others, Built

LEMMA ApiStoreIs == ASSUME OneGlobal(proc) PROVE ApiStore \in Stores
BY DEF ApiStore, Stores, OneGlobal, ProcType

LEMMA ApiWriteOK ==
    ASSUME Typed, OneGlobal(proc),
           NEW u \in Tenants, NEW p \in Paths, NEW file \in Held,
           ApiWrites(u, p, file)
    PROVE  /\ files' \in FilesType /\ left' \in LeftType
           /\ Put(ApiStore, Namespaced(u), p, file)
           /\ UNCHANGED <<tables, saverTables>>
<1>1. files \in FilesType /\ left \in LeftType
  BY DEF Typed, Others
<1>2. Spend("edits") /\ files' = [files EXCEPT ![ApiStore][Namespaced(u)][p] = file]
      /\ UNCHANGED <<tables, saverTables>>
  BY DEF ApiWrites
<1>3. Namespaced(u) \in Namespaces /\ ApiStore \in Stores
  BY InNamespaces, ApiStoreIs
<1>4. left' \in LeftType
  BY <1>1, <1>2, Spent
<1> QED
  BY <1>1, <1>2, <1>3, <1>4, Written

\* A user, or an agent in a turn of u, has written the file p of u in s.
ByHand(s, u, p, file) ==
    /\ file = NoFile \/ file.by = u
    /\ files' \in FilesType /\ left' \in LeftType
    /\ Put(s, Namespaced(u), p, file)
    /\ files'[s][Namespaced(u)][p] = file
    /\ Notes(s, u, p)
    /\ UNCHANGED <<tables, saverTables, selection, invalidating, llm, turn>>

HandWrite == \E s \in Stores, u \in Tenants, p \in Paths, file \in Held : ByHand(s, u, p, file)

LEMMA FileApiOK ==
    ASSUME Typed, OneGlobal(proc), NEW u \in Tenants, NEW p \in Paths, FileApi(u, p)
    PROVE  HandWrite
<1>1. PICK file \in Held : ApiWrites(u, p, file) /\ (file = NoFile \/ file.by = u)
  <2>1. CASE DeleteFile(u, p)
    BY <2>1 DEF DeleteFile, Held
  <2>2. ASSUME NEW c \in Contents, PutFile(u, p, c)
        PROVE  \E file \in Held : ApiWrites(u, p, file) /\ (file = NoFile \/ file.by = u)
    <3> DEFINE file == [by |-> u, text |-> c]
    <3>1. file \in Held /\ file.by = u
      BY DEF Held, File
    <3> QED
      BY <2>2, <3>1 DEF PutFile
  <2> QED
    BY <2>1, <2>2 DEF FileApi
<1>2. /\ files' \in FilesType /\ left' \in LeftType
      /\ Put(ApiStore, Namespaced(u), p, file)
      /\ UNCHANGED <<tables, saverTables>>
  BY <1>1, ApiWriteOK
<1>3. ApiStore \in Stores /\ Namespaced(u) \in Namespaces
  BY ApiStoreIs, InNamespaces
<1>4. files'[ApiStore][Namespaced(u)][p] = file
  BY <1>2, <1>3 DEF Put
<1>5. Notes(ApiStore, u, p) /\ UNCHANGED <<selection, invalidating, llm, turn>>
  BY DEF FileApi
<1>6. ByHand(ApiStore, u, p, file)
  BY <1>1, <1>2, <1>4, <1>5 DEF ByHand
<1> QED
  BY <1>3, <1>6 DEF HandWrite

LEMMA ToolWritesOK ==
    ASSUME Typed, NEW p \in Paths, ToolWrites(p)
    PROVE  HandWrite
<1>1. turn \in TurnType /\ files \in FilesType /\ left \in LeftType
  BY DEF ToolWrites, TurnWorks, Typed, Others
<1>2. turn.built \in RunnerType /\ turn.user \in Tenants
  BY <1>1 DEF TurnType
<1>3. TurnStore \in Stores /\ Namespaced(turn.user) \in Namespaces
  BY <1>2, InNamespaces DEF TurnStore, RunnerType
<1> DEFINE file == [by |-> turn.user, text |-> Learned]
<1>4. file \in Held /\ file.by = turn.user
  BY <1>2 DEF Held, File
<1>5. files' = [files EXCEPT ![TurnStore][Namespaced(turn.user)][p] = file]
  BY DEF ToolWrites
<1> HIDE DEF file
<1>6. files' \in FilesType /\ Put(TurnStore, Namespaced(turn.user), p, file)
  BY <1>1, <1>3, <1>4, <1>5, Written
<1>7. files'[TurnStore][Namespaced(turn.user)][p] = file
  BY <1>3, <1>6 DEF Put
<1>8. left' \in LeftType
  BY <1>1, Spent DEF ToolWrites
<1>9. Notes(TurnStore, turn.user, p)
      /\ UNCHANGED <<tables, saverTables, selection, invalidating, llm, turn>>
  BY DEF ToolWrites
<1>10. ByHand(TurnStore, turn.user, p, file)
  BY <1>4, <1>6, <1>7, <1>8, <1>9 DEF ByHand
<1> QED
  BY <1>2, <1>3, <1>4, <1>10 DEF HandWrite

\* The build under way, and what it has noted.
NotedIn(s, u, p, file) ==
    /\ build' \in BuildType /\ Placed(build')
    /\ build'.pc = build.pc /\ build'.user = build.user /\ build'.chosen = build.chosen
    /\ build'.store = build.store /\ build'.missed = build.missed
    /\ build'.stale = build.stale /\ build'.pos = build.pos /\ build'.held = build.held
    /\ build'.byHand = IF build.user = u /\ build.store = s
                       THEN build.byHand \cup {p} ELSE build.byHand
    /\ \A q \in Paths : build'.seen[q] =
          IF build.user = u /\ build.store = s /\ q = p
          THEN build.seen[q] \cup {file} ELSE build.seen[q]

LEMMA NotedBuild ==
    ASSUME Typed, NEW s, NEW u, NEW p \in Paths, NEW file \in Held,
           Notes(s, u, p), files'[s][Namespaced(u)][p] = file, build # NoBuild
    PROVE  NotedIn(s, u, p, file)
<1>1. build \in BuildType /\ Placed(build)
  BY DEF Typed, Built, IsBuilt
<1>2. CASE build.user # u \/ build.store # s
  BY <1>1, <1>2 DEF Notes, NotedIn
<1>3. CASE build.user = u /\ build.store = s
  <2> DEFINE seen == [build.seen EXCEPT ![p] = @ \cup {file}]
             byHand == build.byHand \cup {p}
  <2>1. seen \in [Paths -> SUBSET Held] /\ byHand \in SUBSET Paths
        /\ \A q \in Paths : seen[q] = IF q = p THEN build.seen[q] \cup {file} ELSE build.seen[q]
    BY <1>1 DEF BuildType
  <2>2. build' = [build EXCEPT !.seen = seen, !.byHand = byHand]
    BY <1>3 DEF Notes
  <2> HIDE DEF seen, byHand
  <2>3. build' \in BuildType /\ build'.seen = seen /\ build'.byHand = byHand
    BY <1>1, <2>1, <2>2 DEF BuildType
  <2>4. /\ build'.pc = build.pc /\ build'.user = build.user /\ build'.chosen = build.chosen
        /\ build'.store = build.store /\ build'.missed = build.missed
        /\ build'.stale = build.stale /\ build'.pos = build.pos /\ build'.held = build.held
    BY <1>1, <2>2 DEF BuildType
  <2>5. Placed(build')
    BY <1>1, <2>4 DEF Placed
  <2>6. byHand = build.byHand \cup {p}
    BY DEF byHand
  <2> QED
    BY <1>3, <2>1, <2>3, <2>4, <2>5, <2>6 DEF NotedIn
<1> QED
  BY <1>2, <1>3

LEMMA NotedRunner ==
    ASSUME Typed, NEW s, NEW u, NEW p \in Paths, Notes(s, u, p)
    PROVE  /\ runner = NoRunner => runner' = NoRunner
           /\ runner # NoRunner =>
                /\ runner' \in RunnerType
                /\ runner'.user = runner.user /\ runner'.chosen = runner.chosen
                /\ runner'.store = runner.store /\ runner'.missed = runner.missed
                /\ runner'.byHand = IF runner.user = u /\ runner.store = s
                                    THEN runner.byHand \cup {p} ELSE runner.byHand
<1>1. runner # NoRunner => runner \in RunnerType
  BY DEF Typed, Others
<1> QED
  BY <1>1 DEF Notes, RunnerType

LEMMA TypedHandWrite == ASSUME Typed, HandWrite PROVE Typed'
<1>1. PICK s \in Stores, u \in Tenants, p \in Paths, file \in Held : ByHand(s, u, p, file)
  BY DEF HandWrite
<1>2. /\ files' \in FilesType /\ left' \in LeftType
      /\ files'[s][Namespaced(u)][p] = file
      /\ Notes(s, u, p)
      /\ UNCHANGED <<tables, saverTables, selection, invalidating, llm, turn>>
  BY <1>1 DEF ByHand
<1>3. runner' = NoRunner \/ runner' \in RunnerType
  BY <1>2, NotedRunner
<1>4. Built'
  <2>1. CASE build = NoBuild
    BY <1>2, <2>1 DEF Notes, Built
  <2>2. CASE build # NoBuild
    <3>1. build' \in BuildType /\ Placed(build')
      BY <1>2, <2>2, NotedBuild DEF NotedIn
    <3>2. runner' = NoRunner
      BY <1>2, <2>2, NotedRunner DEF Typed, Built
    <3> QED
      BY <3>1, <3>2 DEF Built, IsBuilt
  <2> QED
    BY <2>1, <2>2
<1> QED
  BY <1>2, <1>3, <1>4 DEF Typed, Others

\* A call that changes the build and takes a fault at most.
LEMMA OnlyBuild ==
    ASSUME Typed, Built', UNCHANGED left \/ Spend("faults"),
           UNCHANGED <<tables, saverTables, files, selection, invalidating, llm, runner, turn>>
    PROVE  Typed'
<1>1. left' \in LeftType
  BY Spent DEF Typed, Others
<1> QED
  BY <1>1 DEF Typed, Others

LEMMA InBuild ==
    ASSUME Typed, NEW step, Building(step)
    PROVE  /\ build \in BuildType /\ Placed(build) /\ runner = NoRunner
           /\ build.pc = step /\ build # NoBuild /\ proc.up
           /\ build.chosen \in Selections /\ build.pos \in Nat
           /\ build.user \in Tenants /\ build.store \in Stores
BY DEF Typed, Built, IsBuilt, Building, BuildType

LEMMA TypedRequests ==
    ASSUME Typed, NEW u \in Tenants,
           Run(u) \/ BeginBuild(u) \/ \E k \in LlmKeys : SetLlmKey(u, k)
    PROVE  Typed'
<1>1. CASE Run(u)
  <2>1. runner \in RunnerType /\ UNCHANGED <<storeVars, selection, invalidating, llm, runner, build>>
    BY <1>1 DEF Run, Typed, Others
  <2>2. llm[u] \in LlmKeys \cup {NoLlmKey} /\ Discovered(runner, u) \in SUBSET Paths
    BY DEF Typed, Others, Discovered
  <2>3. turn' = [user |-> u, built |-> runner, own |-> llm[u], found |-> Discovered(runner, u)]
    BY <1>1 DEF Run
  <2>4. turn' \in TurnType
    BY <2>1, <2>2, <2>3 DEF TurnType
  <2> QED
    BY <2>1, <2>4 DEF storeVars, Typed, Others, Built
<1>2. CASE BeginBuild(u)
  <2>1. build' \in BuildType
    BY <1>2 DEF BeginBuild, BuildType, BuildSteps, Typed, Others, Stores, Credentials, Held
  <2>2. Placed(build')
    BY <1>2 DEF BeginBuild, Placed
  <2> QED
    BY <1>2, <2>1, <2>2, OnlyBuild DEF BeginBuild, storeVars, Built, IsBuilt
<1>3. ASSUME NEW k \in LlmKeys, SetLlmKey(u, k) PROVE Typed'
  BY <1>3 DEF SetLlmKey, storeVars, Typed, Others, Built
<1> QED
  BY <1>1, <1>2, <1>3

LEMMA GetSaverOK ==
    ASSUME Typed, GetSaver
    PROVE  \E saver \in Stores : build' = [build EXCEPT !.pc = "store", !.saver = saver]
<1>1. build \in BuildType
  BY InBuild DEF GetSaver
<1>2. CASE build' = [build EXCEPT !.pc = "store"]
  BY <1>1, <1>2 DEF BuildType
<1>3. CASE \E outcome : build' = [build EXCEPT !.pc = "store",
                                    !.saver = IF outcome = "ready" THEN "pg" ELSE "memory"]
  BY <1>3 DEF Stores
<1> QED
  BY <1>2, <1>3 DEF GetSaver, Step

LEMMA TypedGetSaver == ASSUME Typed, GetSaver PROVE Typed'
<1>1. build \in BuildType /\ Placed(build) /\ runner = NoRunner /\ build.pc = "saver"
  BY InBuild DEF GetSaver
<1>3. PICK saver \in Stores : build' = [build EXCEPT !.pc = "store", !.saver = saver]
  BY GetSaverOK
<1>4. build' \in BuildType
  BY <1>1, <1>3 DEF BuildType, BuildSteps
<1>5. Placed(build')
  BY <1>1, <1>3 DEF Placed, BuildType
<1>6. left' \in LeftType /\ saverTables' \in BOOLEAN
  <2>1. UNCHANGED left \/ Spend("faults")
    BY DEF GetSaver, Costs
  <2>2. saverTables' \in BOOLEAN
    BY DEF GetSaver, Typed, Others
  <2> QED
    BY <2>1, <2>2, Spent DEF Typed, Others
<1> QED
  BY <1>1, <1>4, <1>5, <1>6 DEF GetSaver, Typed, Others, Built, IsBuilt

\* The build looks at what the file of each source is then.
LEMMA FilesNowOK ==
    ASSUME Typed, build \in BuildType, NEW s \in Stores
    PROVE  /\ FilesNow(s) \in [Paths -> SUBSET Held]
           /\ \A p \in Paths : files[s][Namespaced(build.user)][p] \in FilesNow(s)[p]
<1>a. build.user \in Tenants
  BY DEF BuildType
<1>b. Namespaced(build.user) \in Namespaces /\ files \in FilesType
  BY <1>a, InNamespaces DEF Typed, Others
<1>1. \A p \in Paths : files[s][Namespaced(build.user)][p] \in Held
  BY <1>b DEF FilesType
<1>2. \A p \in Paths : FilesNow(s)[p] = {files[s][Namespaced(build.user)][p]}
  BY DEF FilesNow
<1>3. \A p \in Paths : FilesNow(s)[p] \in SUBSET Held
  BY <1>1, <1>2
<1>4. FilesNow(s) \in [Paths -> SUBSET Held]
  BY <1>3 DEF FilesNow
<1> QED
  BY <1>2, <1>4

LEMMA GetStoreOK ==
    ASSUME Typed, GetStore
    PROVE  \E s \in Stores :
             /\ build' = [build EXCEPT !.pc = "tools", !.store = s, !.seen = FilesNow(s)]
             /\ left' \in LeftType /\ tables' \in BOOLEAN
             /\ UNCHANGED <<saverTables, files, selection, invalidating, llm, runner, turn>>
<1>1. PICK outcome :
        /\ Costs(outcome)
        /\ tables' = (tables \/ (~proc.store /\ outcome = "ready"))
        /\ build' = [build EXCEPT !.pc = "tools", !.store = StoreGot(outcome),
                                  !.seen = FilesNow(StoreGot(outcome))]
  BY DEF GetStore
<1>2. left' \in LeftType
  BY <1>1, Spent DEF Costs, Typed, Others
<1>3. StoreGot(outcome) \in Stores /\ tables' \in BOOLEAN
  BY <1>1 DEF StoreGot, Stores
<1> QED
  BY <1>1, <1>2, <1>3 DEF GetStore

LEMMA TypedGetStore == ASSUME Typed, GetStore PROVE Typed'
<1>1. build \in BuildType /\ Placed(build) /\ runner = NoRunner /\ build.pc = "store"
  BY InBuild DEF GetStore
<1>2. PICK s \in Stores :
        /\ build' = [build EXCEPT !.pc = "tools", !.store = s, !.seen = FilesNow(s)]
        /\ left' \in LeftType /\ tables' \in BOOLEAN
        /\ UNCHANGED <<saverTables, files, selection, invalidating, llm, runner, turn>>
  BY GetStoreOK
<1>3. FilesNow(s) \in [Paths -> SUBSET Held]
  BY <1>1, FilesNowOK
<1> DEFINE seen == FilesNow(s)
<1>4. build' = [build EXCEPT !.pc = "tools", !.store = s, !.seen = seen]
  BY <1>2
<1> HIDE DEF seen
<1>5. build' \in BuildType
  <2>1. seen \in [Paths -> SUBSET Held]
    BY <1>3 DEF seen
  <2> QED
    BY <1>1, <1>4, <2>1 DEF BuildType, BuildSteps
<1>6. Placed(build')
  BY <1>1, <1>4 DEF Placed, BuildType
<1> QED
  BY <1>1, <1>2, <1>5, <1>6 DEF Typed, Others, Built, IsBuilt

LEMMA TypedGetTools == ASSUME Typed, GetTools PROVE Typed'
<1>1. build \in BuildType /\ Placed(build) /\ runner = NoRunner /\ build.pc = "tools"
      /\ build.chosen \in Selections
  BY InBuild DEF GetTools
<1> DEFINE next == IF Sourced(build.chosen) = <<>> THEN "model" ELSE "search"
           sources == Len(Sourced(build.chosen))
<1>2. /\ sources \in Nat
      /\ next = "search" => sources > 0
      /\ next = "model" => sources = 0
      /\ next \in {"search", "model"}
  BY <1>1, SourcedOK
<1>3. build' = NoBuild \/ build' = [build EXCEPT !.pc = next]
  BY DEF GetTools, Raise, Step
<1>4. Built'
  <2>1. CASE build' = [build EXCEPT !.pc = next]
    <3> HIDE DEF next
    <3>1. build' \in BuildType /\ build'.chosen = build.chosen
      BY <1>1, <1>2, <2>1 DEF BuildType, BuildSteps
    <3>2. Placed(build')
      BY <1>1, <1>2, <2>1, <3>1 DEF Placed, BuildType
    <3> QED
      BY <1>1, <3>1, <3>2 DEF GetTools, Built, IsBuilt
  <2> QED
    BY <1>3, <2>1 DEF Built
<1> QED
  BY <1>4, OnlyBuild DEF GetTools

\* What a search finds: every file, unless it stops at its limit.
LEMMA SearchOK ==
    ASSUME Search
    PROVE  \E found \in SUBSET Paths, missed \in BOOLEAN :
             /\ build' = [build EXCEPT !.pc = "delete", !.stale = StaleCopies(found),
                                       !.missed = missed, !.byHand = {}]
             /\ ~missed => found = {p \in Paths : Mine[p] # NoFile}
             /\ UNCHANGED <<storeVars, selection, invalidating, llm, runner, turn>>
<1> DEFINE there == {p \in Paths : Mine[p] # NoFile}
           many == Cardinality(there) > SearchLimit
<1>1. PICK found \in IF many THEN {f \in SUBSET there : Cardinality(f) = SearchLimit}
                     ELSE {there} :
        build' = [build EXCEPT !.pc = "delete", !.stale = StaleCopies(found), !.missed = many,
                               !.byHand = {}]
  BY DEF Search
<1>2. found \in SUBSET Paths /\ many \in BOOLEAN /\ (~many => found = there)
  BY <1>1
<1>3. UNCHANGED <<storeVars, selection, invalidating, llm, runner, turn>>
  BY DEF Search
<1> HIDE DEF many
<1> QED
  BY <1>1, <1>2, <1>3

LEMMA TypedSearch == ASSUME Typed, Search PROVE Typed'
<1>1. build \in BuildType /\ Placed(build) /\ runner = NoRunner /\ build.pc = "search"
  BY InBuild DEF Search
<1>2. PICK found \in SUBSET Paths, missed \in BOOLEAN :
        /\ build' = [build EXCEPT !.pc = "delete", !.stale = StaleCopies(found),
                                  !.missed = missed, !.byHand = {}]
        /\ UNCHANGED <<storeVars, selection, invalidating, llm, runner, turn>>
  BY SearchOK
<1> DEFINE stale == StaleCopies(found)
<1>3. stale \in SUBSET Paths /\ \A p \in stale : p.dir = AgentDir
  BY DEF StaleCopies
<1>4. build' = [build EXCEPT !.pc = "delete", !.stale = stale, !.missed = missed, !.byHand = {}]
  BY <1>2
<1> HIDE DEF stale
<1>5. build' \in BuildType
  BY <1>1, <1>3, <1>4 DEF BuildType, BuildSteps
<1>6. Placed(build')
  BY <1>1, <1>3, <1>4 DEF Placed, BuildType
<1> QED
  BY <1>1, <1>2, <1>5, <1>6, OnlyBuild DEF storeVars, Built, IsBuilt

\* A stale copy is removed, or its removal fails and is skipped.
Removes(p) ==
    \/ /\ files' = files
       /\ build' = [build EXCEPT !.stale = @ \ {p}, !.missed = TRUE]
    \/ /\ Put(build.store, Namespaced(build.user), p, NoFile)
       /\ build' = [build EXCEPT !.stale = @ \ {p}, !.byHand = @ \ {p},
                                 !.seen[p] = @ \cup {NoFile}]

LEMMA DeleteStaleOK ==
    ASSUME Typed, DeleteStale
    PROVE  \E p \in build.stale :
             /\ Removes(p)
             /\ p \in Paths /\ p.dir = AgentDir
             /\ files' \in FilesType /\ left' \in LeftType
             /\ UNCHANGED <<proc, tables, saverTables, selection, invalidating, llm, runner, turn>>
<1>1. build \in BuildType /\ Placed(build)
      /\ build.store \in Stores /\ build.user \in Tenants
      /\ files \in FilesType /\ left \in LeftType
  BY InBuild DEF DeleteStale, Typed, Others
<1>2. PICK p \in build.stale :
         \/ /\ files' = [files EXCEPT ![build.store][Namespaced(build.user)][p] = NoFile]
            /\ build' = [build EXCEPT !.stale = @ \ {p}, !.byHand = @ \ {p},
                                      !.seen[p] = @ \cup {NoFile}]
            /\ UNCHANGED left
         \/ /\ Spend("faults")
            /\ build' = [build EXCEPT !.stale = @ \ {p}, !.missed = TRUE]
            /\ UNCHANGED files
  BY DEF DeleteStale
<1>3. p \in Paths /\ p.dir = AgentDir
  BY <1>1 DEF BuildType, Placed
<1>4. UNCHANGED <<proc, tables, saverTables, selection, invalidating, llm, runner, turn>>
  BY DEF DeleteStale
<1>5. left' \in LeftType
  BY <1>1, <1>2, Spent
<1>6. CASE /\ files' = [files EXCEPT ![build.store][Namespaced(build.user)][p] = NoFile]
           /\ build' = [build EXCEPT !.stale = @ \ {p}, !.byHand = @ \ {p},
                                     !.seen[p] = @ \cup {NoFile}]
  <2>1. files' \in FilesType /\ Put(build.store, Namespaced(build.user), p, NoFile)
    BY <1>1, <1>3, <1>6, InNamespaces, Written DEF Held
  <2> QED
    BY <1>3, <1>4, <1>5, <1>6, <2>1 DEF Removes
<1>7. CASE /\ build' = [build EXCEPT !.stale = @ \ {p}, !.missed = TRUE]
           /\ UNCHANGED files
  BY <1>1, <1>3, <1>4, <1>5, <1>7 DEF Removes
<1> QED
  BY <1>2, <1>6, <1>7

\* The build after that.
LEMMA RemovedOK ==
    ASSUME build \in BuildType, NEW p \in Paths, Removes(p)
    PROVE  /\ build' \in BuildType
           /\ build'.pc = build.pc /\ build'.user = build.user /\ build'.chosen = build.chosen
           /\ build'.store = build.store /\ build'.pos = build.pos /\ build'.held = build.held
           /\ build'.stale = build.stale \ {p}
           /\ \/ files' = files /\ build'.missed /\ build'.seen = build.seen
              \/ /\ Put(build.store, Namespaced(build.user), p, NoFile)
                 /\ build'.missed = build.missed /\ build'.byHand = build.byHand \ {p}
                 /\ \A q \in Paths : build'.seen[q] =
                       IF q = p THEN build.seen[q] \cup {NoFile} ELSE build.seen[q]
<1>1. CASE files' = files /\ build' = [build EXCEPT !.stale = @ \ {p}, !.missed = TRUE]
  BY <1>1 DEF BuildType
<1>2. CASE /\ Put(build.store, Namespaced(build.user), p, NoFile)
           /\ build' = [build EXCEPT !.stale = @ \ {p}, !.byHand = @ \ {p},
                                     !.seen[p] = @ \cup {NoFile}]
  <2> DEFINE seen == [build.seen EXCEPT ![p] = @ \cup {NoFile}]
             byHand == build.byHand \ {p}
             stale == build.stale \ {p}
  <2>1. /\ seen \in [Paths -> SUBSET Held] /\ byHand \in SUBSET Paths /\ stale \in SUBSET Paths
        /\ \A q \in Paths : seen[q] = IF q = p THEN build.seen[q] \cup {NoFile} ELSE build.seen[q]
    BY DEF BuildType, Held
  <2>2. build' = [build EXCEPT !.stale = stale, !.byHand = byHand, !.seen = seen]
    BY <1>2
  <2>3. byHand = build.byHand \ {p} /\ stale = build.stale \ {p}
    OBVIOUS
  <2> HIDE DEF seen, byHand, stale
  <2>4. /\ build' \in BuildType
        /\ build'.pc = build.pc /\ build'.user = build.user /\ build'.chosen = build.chosen
        /\ build'.store = build.store /\ build'.pos = build.pos /\ build'.held = build.held
        /\ build'.stale = stale /\ build'.missed = build.missed /\ build'.byHand = byHand
        /\ build'.seen = seen
    BY <2>1, <2>2 DEF BuildType
  <2> QED
    BY <1>2, <2>1, <2>3, <2>4
<1> QED
  BY <1>1, <1>2 DEF Removes

LEMMA TypedDeleteStale == ASSUME Typed, DeleteStale PROVE Typed'
<1>1. build \in BuildType /\ Placed(build) /\ runner = NoRunner /\ build.pc = "delete"
  BY InBuild DEF DeleteStale
<1>2. PICK p \in build.stale :
        /\ Removes(p) /\ p \in Paths
        /\ files' \in FilesType /\ left' \in LeftType
        /\ UNCHANGED <<proc, tables, saverTables, selection, invalidating, llm, runner, turn>>
  BY DeleteStaleOK
<1>3. /\ build' \in BuildType /\ build'.pc = "delete" /\ build'.chosen = build.chosen
      /\ build'.pos = build.pos /\ build'.held = build.held /\ build'.stale = build.stale \ {p}
  BY <1>1, <1>2, RemovedOK
<1>4. Placed(build')
  BY <1>1, <1>3 DEF Placed
<1> QED
  BY <1>1, <1>2, <1>3, <1>4 DEF Typed, Others, Built, IsBuilt

LEMMA TypedCleaned == ASSUME Typed, Cleaned PROVE Typed'
<1>1. build \in BuildType /\ Placed(build) /\ runner = NoRunner /\ build.pc = "delete"
      /\ build.chosen \in Selections
  BY InBuild DEF Cleaned
<1>2. build' = [build EXCEPT !.pc = "read"]
      /\ UNCHANGED <<storeVars, selection, invalidating, llm, runner, turn>>
  BY DEF Cleaned, Step
<1>3. build' \in BuildType
  BY <1>1, <1>2 DEF BuildType, BuildSteps
<1>4. Len(Sourced(build.chosen)) \in Nat
  BY <1>1, SourcedOK
<1>5. Placed(build')
  BY <1>1, <1>2, <1>4 DEF Placed, BuildType
<1> QED
  BY <1>1, <1>2, <1>3, <1>5, OnlyBuild DEF storeVars, Built, IsBuilt

\* The build at one of its sources, and at the next of them or past them all.
LEMMA AtSource ==
    ASSUME Typed, Building("read") \/ Building("write")
    PROVE  /\ build \in BuildType /\ runner = NoRunner /\ build.pc \notin Early
           /\ build.pos \in Nat /\ build.pos \in 1 .. Len(Sourced(build.chosen))
           /\ build.chosen \in Selections
           /\ build.user \in Tenants /\ build.store \in Stores
           /\ Source \in Paths /\ Source \in Range(Sourced(build.chosen))
           /\ files \in FilesType
           /\ \A p \in Paths : Mine[p] \in Held
<1>1. build \in BuildType /\ Placed(build) /\ runner = NoRunner /\ build.pc \notin Early
      /\ build.pc \in {"read", "write"}
      /\ build.chosen \in Selections /\ build.user \in Tenants /\ build.store \in Stores
      /\ build.pos \in Nat
  BY InBuild DEF Early
<1>2. build.pos \in 1 .. Len(Sourced(build.chosen))
  BY <1>1 DEF Placed
<1>3. Source \in Paths /\ Source \in Range(Sourced(build.chosen))
  <2>1. build.pos \in DOMAIN Sourced(build.chosen)
    BY <1>1, <1>2, SourcedOK
  <2>2. Sourced(build.chosen)[build.pos] \in Paths
    BY <1>1, <2>1, SourcedOK
  <2> QED
    BY <2>1, <2>2 DEF Source, Range
<1>4. files \in FilesType /\ Namespaced(build.user) \in Namespaces
  BY <1>1, InNamespaces DEF Typed, Others
<1>5. \A p \in Paths : Mine[p] \in Held
  BY <1>1, <1>4 DEF Mine, FilesType
<1> QED
  BY <1>1, <1>2, <1>3, <1>4, <1>5

LEMMA NextSourceOK ==
    ASSUME build \in BuildType, build.chosen \in Selections, \A p \in build.stale : p.dir = AgentDir,
           build.pos \in 1 .. Len(Sourced(build.chosen))
    PROVE  \E pc \in {"read", "model"} :
             /\ NextSource = [build EXCEPT !.pos = build.pos + 1, !.pc = pc]
             /\ IsBuilt(NextSource)
<1> DEFINE pc == IF build.pos < Len(Sourced(build.chosen)) THEN "read" ELSE "model"
<1>1. Len(Sourced(build.chosen)) \in Nat
  BY SourcedOK
<1>2. /\ pc \in {"read", "model"}
      /\ pc = "read" => build.pos + 1 \in 1 .. Len(Sourced(build.chosen))
      /\ pc = "model" => build.pos + 1 = Len(Sourced(build.chosen)) + 1
  BY <1>1
<1>3. NextSource = [build EXCEPT !.pos = build.pos + 1, !.pc = pc]
  BY DEF NextSource
<1> HIDE DEF pc
<1> DEFINE pos == build.pos + 1
<1>a. pos \in Nat
  BY <1>1
<1>b. NextSource = [build EXCEPT !.pos = pos, !.pc = pc]
  BY <1>3
<1> HIDE DEF pos
<1>4. NextSource \in BuildType
  BY <1>2, <1>a, <1>b DEF BuildType, BuildSteps
<1>5. /\ NextSource.pc = pc /\ NextSource.pos = build.pos + 1
      /\ NextSource.chosen = build.chosen /\ NextSource.stale = build.stale
  BY <1>3 DEF BuildType
<1>6. Placed(NextSource)
  BY <1>2, <1>5 DEF Placed
<1> QED
  BY <1>2, <1>3, <1>4, <1>6 DEF IsBuilt

LEMMA TypedReadSource == ASSUME Typed, ReadSource PROVE Typed'
<1>1. /\ build \in BuildType /\ runner = NoRunner /\ build.chosen \in Selections
      /\ build.pos \in 1 .. Len(Sourced(build.chosen))
      /\ Source \in Paths /\ \A p \in Paths : Mine[p] \in Held
  BY AtSource DEF ReadSource
<1>2. Placed(build) /\ build.pc = "read"
  BY InBuild DEF ReadSource
<1>3. Built'
  <2>1. CASE build' = NextSource
    <3>1. IsBuilt(build')
      BY <1>1, <1>2, <2>1, NextSourceOK DEF Placed
    <3> QED
      BY <1>1, <3>1 DEF ReadSource, Built
  <2>2. CASE Mine[Source] # NoFile
             /\ build' = [build EXCEPT !.pc = "write", !.held = Mine[Source]]
    <3> DEFINE held == Mine[Source]
    <3>1. held \in Held /\ held # NoFile
      BY <1>1, <2>2, Copies
    <3>2. build' = [build EXCEPT !.pc = "write", !.held = held]
      BY <2>2
    <3> HIDE DEF held
    <3>3. build' \in BuildType
      BY <1>1, <3>1, <3>2 DEF BuildType, BuildSteps
    <3>4. Placed(build')
      BY <1>1, <1>2, <3>1, <3>2 DEF Placed, BuildType
    <3> QED
      BY <1>1, <3>3, <3>4 DEF ReadSource, Built, IsBuilt
  <2> QED
    BY <2>1, <2>2 DEF ReadSource
<1> QED
  BY <1>3, OnlyBuild DEF ReadSource, storeVars

\* The copy of the source is written, and the build goes on.
LEMMA WriteCopyOK ==
    ASSUME Typed, WriteCopy
    PROVE  /\ files' \in FilesType
           /\ Put(build.store, Namespaced(build.user), CopyOf(Source), build.held)
           /\ build' \in BuildType /\ Placed(build')
           /\ build'.pc \in {"read", "model"} /\ build'.pos = build.pos + 1
           /\ build'.user = build.user /\ build'.chosen = build.chosen
           /\ build'.store = build.store /\ build'.missed = build.missed
           /\ build'.held = NoFile
           /\ build'.byHand = build.byHand \ {CopyOf(Source)}
           /\ \A q \in Paths : build'.seen[q] =
                 IF q = CopyOf(Source) THEN build.seen[q] \cup {build.held} ELSE build.seen[q]
<1>1. /\ build \in BuildType /\ build.user \in Tenants /\ build.store \in Stores
      /\ build.chosen \in Selections /\ build.pos \in 1 .. Len(Sourced(build.chosen))
      /\ Source \in Paths /\ files \in FilesType
  BY AtSource DEF WriteCopy
<1>2. build.held \in Held /\ CopyOf(Source) \in Paths /\ Namespaced(build.user) \in Namespaces
  BY <1>1, Copies, InNamespaces DEF BuildType
<1>3. files' = [files EXCEPT ![build.store][Namespaced(build.user)][CopyOf(Source)] = build.held]
  BY DEF WriteCopy
<1>4. files' \in FilesType /\ Put(build.store, Namespaced(build.user), CopyOf(Source), build.held)
  BY <1>1, <1>2, <1>3, Written
<1>5. Placed(build)
  BY InBuild DEF WriteCopy
<1>6. PICK pc \in {"read", "model"} :
        /\ NextSource = [build EXCEPT !.pos = build.pos + 1, !.pc = pc]
        /\ IsBuilt(NextSource)
  BY <1>1, <1>5, NextSourceOK DEF Placed
<1> DEFINE next == NextSource
           copy == CopyOf(Source)
           held == build.held
           seen == [next.seen EXCEPT ![copy] = @ \cup {held}]
           byHand == next.byHand \ {copy}
<1>7. /\ next \in BuildType /\ Placed(next) /\ next.pc = pc /\ next.pos = build.pos + 1
      /\ next.user = build.user /\ next.chosen = build.chosen /\ next.store = build.store
      /\ next.missed = build.missed /\ next.seen = build.seen /\ next.byHand = build.byHand
  BY <1>1, <1>6 DEF IsBuilt, BuildType
<1>8. build' = [next EXCEPT !.held = NoFile, !.byHand = byHand, !.seen = seen]
  BY DEF WriteCopy
<1>9. copy \in Paths /\ held \in Held
  BY <1>2
<1> HIDE DEF next, copy, held
<1>10. /\ seen \in [Paths -> SUBSET Held] /\ byHand \in SUBSET Paths
       /\ \A q \in Paths : seen[q] = IF q = copy THEN build.seen[q] \cup {held} ELSE build.seen[q]
       /\ byHand = build.byHand \ {copy}
  BY <1>7, <1>9 DEF BuildType
<1> HIDE DEF seen, byHand
<1>11. /\ build' \in BuildType
       /\ build'.pc = pc /\ build'.pos = build.pos + 1 /\ build'.user = build.user
       /\ build'.chosen = build.chosen /\ build'.store = build.store
       /\ build'.missed = build.missed /\ build'.held = NoFile
       /\ build'.byHand = byHand /\ build'.seen = seen /\ build'.stale = next.stale
  BY <1>7, <1>8, <1>10 DEF BuildType, Held
<1>12. Placed(build')
  BY <1>7, <1>11 DEF Placed
<1> QED
  BY <1>4, <1>10, <1>11, <1>12 DEF copy, held

LEMMA TypedWriteCopy == ASSUME Typed, WriteCopy PROVE Typed'
<1>1. runner = NoRunner
  BY AtSource DEF WriteCopy
<1>2. files' \in FilesType /\ build' \in BuildType /\ Placed(build')
  BY WriteCopyOK
<1> QED
  BY <1>1, <1>2 DEF WriteCopy, Typed, Others, Built, IsBuilt

LEMMA TypedStoreCallFails == ASSUME Typed, StoreCallFails PROVE Typed'
<1>1. build' = NoBuild /\ (UNCHANGED left \/ Spend("faults"))
      /\ UNCHANGED <<proc, tables, saverTables, files, selection, invalidating, llm, runner, turn>>
  BY DEF StoreCallFails, Raise
<1> QED
  BY <1>1, OnlyBuild DEF Built

LEMMA TypedResolveModel == ASSUME Typed, ResolveModel PROVE Typed'
<1>1. build \in BuildType /\ Placed(build) /\ runner = NoRunner /\ build.pc = "model"
      /\ build.user \in Tenants
  BY InBuild DEF ResolveModel
<1>2. CASE build' = NoBuild
  BY <1>2, OnlyBuild DEF ResolveModel, storeVars, Built
<1>3. CASE build' # NoBuild
  <2> DEFINE creds == IF build.user = NoUser THEN "environment"
                      ELSE <<build.user, llm[build.user]>>
  <2>1. ~(build.user # NoUser /\ llm[build.user] = NoLlmKey)
        /\ build' = [build EXCEPT !.pc = "cache", !.creds = creds]
    BY <1>3 DEF ResolveModel, Raise
  <2>2. llm[build.user] \in LlmKeys \cup {NoLlmKey}
    BY <1>1 DEF Typed, Others
  <2>3. creds \in Credentials
    BY <1>1, <2>1, <2>2 DEF Credentials
  <2> HIDE DEF creds
  <2>4. build' \in BuildType
    BY <1>1, <2>1, <2>3 DEF BuildType, BuildSteps
  <2>5. Placed(build')
    BY <1>1, <2>1 DEF Placed, BuildType
  <2> QED
    BY <1>1, <2>4, <2>5, OnlyBuild DEF ResolveModel, storeVars, Built, IsBuilt
<1> QED
  BY <1>2, <1>3

\* What is cached is what the build ended with, or nothing is.
LEMMA CacheRunnerOK ==
    ASSUME Typed, CacheRunner
    PROVE  /\ build' = NoBuild /\ left' \in LeftType
           /\ UNCHANGED <<proc, tables, saverTables, files, selection, invalidating, llm, turn>>
           /\ \/ runner' = runner
              \/ /\ runner' \in RunnerType
                 /\ runner'.user = build.user /\ runner'.chosen = build.chosen
                 /\ runner'.store = build.store /\ runner'.missed = build.missed
                 /\ runner'.byHand = build.byHand
<1>1. build \in BuildType
  BY InBuild DEF CacheRunner
<1>2. ASSUME runner' = [user |-> build.user, chosen |-> build.chosen, saver |-> build.saver,
                        store |-> build.store, creds |-> build.creds, missed |-> build.missed,
                        byHand |-> build.byHand]
      PROVE  /\ runner' \in RunnerType
             /\ runner'.user = build.user /\ runner'.chosen = build.chosen
             /\ runner'.store = build.store /\ runner'.missed = build.missed
             /\ runner'.byHand = build.byHand
  BY <1>1, <1>2 DEF BuildType, RunnerType
<1>3. left' \in LeftType
  BY Spent DEF CacheRunner, Typed, Others
<1> QED
  BY <1>2, <1>3 DEF CacheRunner, Raise

LEMMA HandWrites ==
    ASSUME StoreInv, Typed, NEW p \in Paths,
           ToolWrites(p) \/ \E u \in Tenants : FileApi(u, p)
    PROVE  HandWrite
BY FileApiOK, ToolWritesOK DEF StoreInv

LEMMA TypedNext == ASSUME StoreInv, Typed, [BuildNext]_buildVars PROVE Typed'
<1>1. CASE UNCHANGED buildVars
  BY <1>1 DEF buildVars, storeVars, agentVars, Typed, Others, Built
<1>2. ASSUME NEW p \in Paths, ToolWrites(p) \/ \E u \in Tenants : FileApi(u, p) PROVE Typed'
  BY <1>2, HandWrites, TypedHandWrite
<1>3. CASE CacheRunner
  BY <1>3, CacheRunnerOK DEF Typed, Others, Built
<1>4. ASSUME NEW chosen \in Selections, Reconfigure(chosen) PROVE Typed'
  <2>1. left' \in LeftType
    BY <1>4, Spent DEF Reconfigure, Typed, Others
  <2> QED
    BY <1>4, <2>1 DEF Reconfigure, Typed, Others, Built
<1>5. CASE Invalidate
  BY <1>5 DEF Invalidate, storeVars, Typed, Others, Built
<1> QED
  BY <1>1, <1>2, <1>3, <1>4, <1>5, TypedStart, TypedStop, TypedRequests, TypedGetSaver,
     TypedGetStore, TypedGetTools, TypedSearch, TypedDeleteStale, TypedCleaned,
     TypedReadSource, TypedWriteCopy, TypedStoreCallFails, TypedResolveModel
  DEF BuildNext

LEMMA TypedAlways == BuildSpec => [](StoreInv /\ Typed)
<1>1. BuildInit => StoreInv /\ Typed
  BY StoreInit0, TypedInit
<1>2. (StoreInv /\ Typed) /\ [BuildNext]_buildVars => (StoreInv /\ Typed)'
  BY StoreInvStep, TypedNext
<1> QED
  BY <1>1, <1>2, PTL DEF BuildSpec

\* A build is at a source of the document it began with, with a content to
\* write whenever it writes.
THEOREM BuildTypes == BuildSpec => []BuildTypeOK
<1>1. StoreInv /\ Typed => BuildTypeOK
  <2> SUFFICES ASSUME StoreInv, Typed PROVE BuildTypeOK
    OBVIOUS
  <2>1. proc \in ProcType
    BY DEF StoreInv, OneGlobal
  <2>2. runner # NoRunner => runner.chosen \in Selections /\ runner.store \in Stores
    BY DEF Typed, Others, RunnerType
  <2>3. build # NoBuild =>
          /\ build.pc \in BuildSteps
          /\ build.stale \subseteq Paths
          /\ build.pc \in {"read", "write"} => build.pos \in DOMAIN Sourced(build.chosen)
          /\ build.pc = "write" => build.held # NoFile
    <3> SUFFICES ASSUME build # NoBuild
                 PROVE  /\ build.pc \in BuildSteps
                        /\ build.stale \subseteq Paths
                        /\ build.pc \in {"read", "write"} =>
                             build.pos \in DOMAIN Sourced(build.chosen)
                        /\ build.pc = "write" => build.held # NoFile
      OBVIOUS
    <3>1. build \in BuildType /\ Placed(build)
      BY DEF Typed, Built, IsBuilt
    <3>2. build.pc \in BuildSteps /\ build.stale \subseteq Paths /\ build.chosen \in Selections
      BY <3>1 DEF BuildType
    <3> QED
      BY <3>1, <3>2, SourcedOK DEF Placed
  <2> QED
    BY <2>1, <2>2, <2>3 DEF BuildTypeOK, ProcType, Typed, Others, FilesType, LeftType, Held
<1> QED
  BY <1>1, TypedAlways, PTL

-----------------------------------------------------------------------------
(* Whose files *)

IsOf(u, file) == file = NoFile \/ file.by = u

\* Files and the content that a build holds are of the user they are for.
Owned ==
    /\ \A s \in Stores, u \in Tenants, p \in Paths : IsOf(u, files[s][Namespaced(u)][p])
    /\ build # NoBuild => IsOf(build.user, build.held)

\* A write to the namespace of its owner.
LEMMA OwnedPut ==
    ASSUME Owned, NEW s \in Stores, NEW u \in Tenants, NEW p \in Paths, NEW file,
           Put(s, Namespaced(u), p, file), IsOf(u, file),
           build' # NoBuild => IsOf(build'.user, build'.held)
    PROVE  Owned'
<1>1. ASSUME NEW s2 \in Stores, NEW v \in Tenants, NEW q \in Paths
      PROVE  IsOf(v, files'[s2][Namespaced(v)][q])
  <2>1. files'[s2][Namespaced(v)][q] =
          IF s2 = s /\ Namespaced(v) = Namespaced(u) /\ q = p
          THEN file ELSE files[s2][Namespaced(v)][q]
    BY InNamespaces DEF Put
  <2> QED
    BY <2>1, NamespacesDiffer DEF Owned
<1>2. IsOf(build.user, build.held)' = IsOf(build'.user, build'.held)
  BY DEF IsOf
<1>3. \A s2 \in Stores, v \in Tenants, q \in Paths :
        IsOf(v, files[s2][Namespaced(v)][q])' = IsOf(v, files'[s2][Namespaced(v)][q])
  BY DEF IsOf
<1> QED
  BY <1>1, <1>2, <1>3 DEF Owned

\* A step that writes no file.
LEMMA OwnedNoPut ==
    ASSUME Owned, UNCHANGED files, build' # NoBuild => IsOf(build'.user, build'.held)
    PROVE  Owned'
<1>1. IsOf(build.user, build.held)' = IsOf(build'.user, build'.held)
  BY DEF IsOf
<1>2. \A s \in Stores, u \in Tenants, p \in Paths :
        IsOf(u, files[s][Namespaced(u)][p])' = IsOf(u, files[s][Namespaced(u)][p])
  BY DEF IsOf
<1> QED
  BY <1>1, <1>2 DEF Owned

LEMMA OwnedNext == ASSUME StoreInv, Typed, Owned, [BuildNext]_buildVars PROVE Owned'
<1>1. CASE UNCHANGED <<files, build>>
  BY <1>1, OwnedNoPut DEF Owned
<1>2. CASE StopAll
  <2>1. files' = [files EXCEPT !["memory"] = Empty] /\ build' = NoBuild /\ files \in FilesType
    BY <1>2 DEF StopAll, Stop, Typed, Others
  <2>2. \A s \in Stores, u \in Tenants, p \in Paths :
          files'[s][Namespaced(u)][p] \in {files[s][Namespaced(u)][p], NoFile}
    BY <2>1, InNamespaces DEF FilesType, Empty, Stores
  <2> QED
    BY <2>1, <2>2 DEF Owned, IsOf
<1>3. ASSUME NEW p \in Paths, ToolWrites(p) \/ \E u \in Tenants : FileApi(u, p) PROVE Owned'
  <2>1. PICK s \in Stores, u \in Tenants, q \in Paths, file \in Held : ByHand(s, u, q, file)
    BY <1>3, HandWrites DEF HandWrite
  <2>2. /\ Put(s, Namespaced(u), q, file) /\ IsOf(u, file)
        /\ Notes(s, u, q) /\ files'[s][Namespaced(u)][q] = file
    BY <2>1 DEF ByHand, IsOf
  <2>3. build' # NoBuild => IsOf(build'.user, build'.held)
    <3>1. CASE build = NoBuild
      BY <2>2, <3>1 DEF Notes
    <3>2. CASE build # NoBuild
      <4>1. NotedIn(s, u, q, file)
        BY <2>2, <3>2, NotedBuild
      <4> QED
        BY <3>2, <4>1 DEF NotedIn, Owned
    <3> QED
      BY <3>1, <3>2
  <2> QED
    BY <2>2, <2>3, OwnedPut
<1>4. CASE DeleteStale
  <2>1. build \in BuildType /\ build # NoBuild /\ build.user \in Tenants /\ build.store \in Stores
    BY <1>4, InBuild DEF DeleteStale
  <2>2. PICK p \in build.stale : Removes(p) /\ p \in Paths
    BY <1>4, DeleteStaleOK
  <2>3. build'.user = build.user /\ build'.held = build.held
        /\ (files' = files \/ Put(build.store, Namespaced(build.user), p, NoFile))
    BY <2>1, <2>2, RemovedOK
  <2>4. IsOf(build'.user, build'.held) /\ IsOf(build.user, NoFile)
    BY <2>1, <2>3 DEF Owned, IsOf
  <2> QED
    BY <2>1, <2>2, <2>3, <2>4, OwnedPut, OwnedNoPut
<1>5. CASE WriteCopy
  <2>1. /\ build # NoBuild /\ build.user \in Tenants /\ build.store \in Stores
        /\ CopyOf(Source) \in Paths
    BY <1>5, AtSource, InBuild, Copies DEF WriteCopy
  <2>2. Put(build.store, Namespaced(build.user), CopyOf(Source), build.held) /\ build'.held = NoFile
    BY <1>5, WriteCopyOK
  <2>3. IsOf(build.user, build.held) /\ IsOf(build'.user, build'.held)
    BY <2>1, <2>2 DEF Owned, IsOf
  <2> QED
    BY <2>1, <2>2, <2>3, OwnedPut
<1>6. CASE ReadSource
  <2>1. /\ build \in BuildType /\ build # NoBuild /\ files' = files
        /\ build.user \in Tenants /\ build.store \in Stores /\ Source \in Paths
    BY <1>6, AtSource, InBuild DEF ReadSource, storeVars
  <2>2. IsOf(build.user, Mine[Source]) /\ IsOf(build.user, build.held)
    BY <2>1 DEF Owned, Mine
  <2>3. CASE build' = NextSource
    <3>1. build'.user = build.user /\ build'.held = build.held
      BY <2>1, <2>3 DEF NextSource, BuildType
    <3> QED
      BY <2>1, <2>2, <3>1, OwnedNoPut
  <2>4. CASE build' = [build EXCEPT !.pc = "write", !.held = Mine[Source]]
    <3>1. build'.user = build.user /\ build'.held = Mine[Source]
      BY <2>1, <2>4 DEF BuildType
    <3> QED
      BY <2>1, <2>2, <3>1, OwnedNoPut
  <2> QED
    BY <1>6, <2>3, <2>4 DEF ReadSource
<1>7. ASSUME NEW u \in Tenants, BeginBuild(u) PROVE Owned'
  <2>1. build'.held = NoFile /\ files' = files
    BY <1>7 DEF BeginBuild, storeVars
  <2> QED
    BY <2>1, OwnedNoPut DEF IsOf
<1>8. CASE GetSaver \/ GetStore \/ GetTools \/ Search \/ Cleaned \/ ResolveModel
  <2>1. build \in BuildType /\ build # NoBuild /\ files' = files
    BY <1>8, InBuild DEF GetSaver, GetStore, GetTools, Search, Cleaned, ResolveModel, storeVars
  <2>2. build' = NoBuild \/ (build'.user = build.user /\ build'.held = build.held)
    <3>1. CASE GetSaver
      BY <2>1, <3>1, GetSaverOK DEF BuildType
    <3>2. CASE GetStore
      BY <2>1, <3>2, GetStoreOK DEF BuildType
    <3>3. CASE GetTools
      BY <2>1, <3>3 DEF GetTools, Step, Raise, BuildType
    <3>4. CASE Search
      BY <2>1, <3>4, SearchOK DEF BuildType
    <3>5. CASE Cleaned
      BY <2>1, <3>5 DEF Cleaned, Step, BuildType
    <3>6. CASE ResolveModel
      <4>1. build' = NoBuild
            \/ \E creds : build' = [build EXCEPT !.pc = "cache", !.creds = creds]
        BY <3>6 DEF ResolveModel, Raise
      <4> QED
        BY <2>1, <4>1 DEF BuildType
    <3> QED
      BY <1>8, <3>1, <3>2, <3>3, <3>4, <3>5, <3>6
  <2>3. build' # NoBuild => IsOf(build'.user, build'.held)
    BY <2>1, <2>2 DEF Owned
  <2> QED
    BY <2>1, <2>3, OwnedNoPut
<1>9. CASE StoreCallFails \/ CacheRunner
  <2>1. files' = files /\ build' = NoBuild
    BY <1>9 DEF StoreCallFails, CacheRunner, Raise
  <2> QED
    BY <2>1, OwnedNoPut
<1> QED
  BY <1>1, <1>2, <1>3, <1>4, <1>5, <1>6, <1>7, <1>8, <1>9
  DEF BuildNext, buildVars, storeVars, agentVars, StartUnwired, StartWired, Run, SetLlmKey,
      Reconfigure, Invalidate

\* Whoever a runner was built for and whoever it runs for.
THEOREM NamespacesKept == BuildSpec => []NamespacesApart
<1>1. BuildInit => Owned
  <2> SUFFICES ASSUME BuildInit PROVE Owned
    OBVIOUS
  <2>1. files = [s \in Stores |-> Empty] /\ build = NoBuild
    BY DEF BuildInit, StoreInit, AgentInit
  <2> QED
    BY <2>1, InNamespaces DEF Owned, IsOf, Empty
<1>2. (StoreInv /\ Typed) /\ Owned /\ [BuildNext]_buildVars => Owned'
  BY OwnedNext
<1>3. Owned => NamespacesApart
  BY DEF Owned, IsOf, NamespacesApart
<1> QED
  BY <1>1, <1>2, <1>3, TypedAlways, PTL DEF BuildSpec

-----------------------------------------------------------------------------
(* Copies of what the sources held *)

\* What the build may have read for a copy.
SeenFor(b, copy) == UNION {b.seen[p] : p \in SourcesOf(b.chosen, copy)}

Fresh(b, mine, copy) ==
    copy \in b.byHand \/ NoFile \in SeenFor(b, copy) \/ mine[copy] \in SeenFor(b, copy)

\* The build has seen what every file holds, what it is about to write, and
\* whatever is in the copies it has passed and nobody else has written since.
IsCurrent(b, mine) ==
    LET sources == Sourced(b.chosen)
    IN  /\ \A p \in Paths : mine[p] \in b.seen[p]
        /\ b.pc = "write" => b.held \in b.seen[sources[b.pos]]
        /\ \A i \in 1 .. Len(sources) : i < b.pos => Fresh(b, mine, CopyOf(sources[i]))

Current == build # NoBuild /\ build.pc \notin Early => IsCurrent(build, Mine)

LEMMA SeenMore ==
    ASSUME NEW b, NEW b2, b.chosen \in Selections, b2.chosen = b.chosen,
           \A p \in Paths : b.seen[p] \subseteq b2.seen[p],
           NEW copy
    PROVE  SeenFor(b, copy) \subseteq SeenFor(b2, copy)
<1>1. SourcesOf(b.chosen, copy) \subseteq Paths
  BY SourcedOK DEF SourcesOf, Range
<1> QED
  BY <1>1 DEF SeenFor

\* A source seen empty, or a copy of what it was seen to hold.
LEMMA SeenThere ==
    ASSUME NEW b, b.chosen \in Selections, NEW i \in 1 .. Len(Sourced(b.chosen))
    PROVE  b.seen[Sourced(b.chosen)[i]] \subseteq SeenFor(b, CopyOf(Sourced(b.chosen)[i]))
<1>1. Sourced(b.chosen)[i] \in SourcesOf(b.chosen, CopyOf(Sourced(b.chosen)[i]))
  BY SourcedOK DEF SourcesOf, Range
<1> QED
  BY <1>1 DEF SeenFor

LEMMA StaysCurrent ==
    ASSUME NEW b, NEW b2, NEW mine, NEW mine2, IsCurrent(b, mine),
           b.chosen \in Selections, b2.chosen = b.chosen, b2.pos = b.pos,
           b2.pc = "write" => b.pc = "write" /\ b2.held = b.held,
           b.pc = "write" => b.pos \in 1 .. Len(Sourced(b.chosen)),
           \A p \in Paths : b.seen[p] \subseteq b2.seen[p],
           \A p \in Paths : mine2[p] \in b2.seen[p],
           b.byHand \subseteq b2.byHand,
           \A p \in Paths : mine2[p] = mine[p] \/ p \in b2.byHand
    PROVE  IsCurrent(b2, mine2)
<1> DEFINE sources == Sourced(b.chosen)
<1>1. \A i \in 1 .. Len(sources) : sources[i] \in Paths
  BY SourcedOK
<1>2. b2.pc = "write" => b2.held \in b2.seen[sources[b.pos]]
  BY <1>1 DEF IsCurrent
<1>3. ASSUME NEW i \in 1 .. Len(sources), i < b.pos
      PROVE  Fresh(b2, mine2, CopyOf(sources[i]))
  <2>1. Fresh(b, mine, CopyOf(sources[i])) /\ sources[i] \in Paths
    BY <1>1, <1>3 DEF IsCurrent
  <2>2. SeenFor(b, CopyOf(sources[i])) \subseteq SeenFor(b2, CopyOf(sources[i]))
    BY SeenMore
  <2>3. CopyOf(sources[i]) \in Paths
    BY <2>1, Copies
  <2> QED
    BY <2>1, <2>2, <2>3 DEF Fresh
<1> QED
  BY <1>2, <1>3 DEF IsCurrent

\* A build that has not copied anything yet.
LEMMA CurrentAtStart ==
    ASSUME build'.pos = 1, build'.pc # "write", \A p \in Paths : Mine'[p] \in build'.seen[p]
    PROVE  Current'
<1>1. \A i \in 1 .. Len(Sourced(build'.chosen)) : ~(i < build'.pos)
  OBVIOUS
<1>2. IsCurrent(build', Mine')
  BY <1>1 DEF IsCurrent
<1> QED
  BY <1>2 DEF Current

\* Calls that copy nothing.
LEMMA CurrentElsewhere ==
    ASSUME Typed, Current, build # NoBuild, build.pc \notin Early,
           build' \in BuildType, build'.pc # "write", UNCHANGED files,
           build'.user = build.user, build'.chosen = build.chosen, build'.store = build.store,
           build'.pos = build.pos, build'.seen = build.seen, build'.byHand = build.byHand
    PROVE  Current'
<1>1. build \in BuildType /\ Placed(build) /\ IsCurrent(build, Mine) /\ build.chosen \in Selections
  BY DEF Typed, Built, IsBuilt, Current, BuildType
<1>2. Mine' = Mine
  BY DEF Mine
<1>3. \A p \in Paths : Mine[p] \in build.seen[p]
  BY <1>1 DEF IsCurrent
<1>4. IsCurrent(build', Mine)
  BY <1>1, <1>3, StaysCurrent DEF Placed
<1> QED
  BY <1>2, <1>4 DEF Current

LEMMA CurrentHandWrite == ASSUME Typed, Current, HandWrite PROVE Current'
<1> SUFFICES ASSUME build' # NoBuild, build'.pc \notin Early PROVE IsCurrent(build', Mine')
  BY DEF Current
<1>1. PICK s \in Stores, u \in Tenants, p \in Paths, file \in Held : ByHand(s, u, p, file)
  BY DEF HandWrite
<1>2. /\ Put(s, Namespaced(u), p, file) /\ files'[s][Namespaced(u)][p] = file
      /\ Notes(s, u, p)
  BY <1>1 DEF ByHand
<1>3. build # NoBuild /\ build \in BuildType /\ Placed(build)
  BY <1>2 DEF Typed, Built, IsBuilt, Notes
<1>4. build.user \in Tenants /\ build.store \in Stores /\ build.chosen \in Selections
  BY <1>3 DEF BuildType
<1>5. /\ build'.pc = build.pc /\ build'.user = build.user /\ build'.chosen = build.chosen
      /\ build'.store = build.store /\ build'.pos = build.pos /\ build'.held = build.held
      /\ build'.byHand = IF build.user = u /\ build.store = s
                         THEN build.byHand \cup {p} ELSE build.byHand
      /\ \A q \in Paths : build'.seen[q] =
            IF build.user = u /\ build.store = s /\ q = p
            THEN build.seen[q] \cup {file} ELSE build.seen[q]
  <2>1. NotedIn(s, u, p, file)
    BY <1>2, <1>3, NotedBuild
  <2> QED
    BY <2>1 DEF NotedIn
<1>6. IsCurrent(build, Mine)
  BY <1>3, <1>5 DEF Current
<1>7. \A q \in Paths : Mine'[q] =
        IF build.user = u /\ build.store = s /\ q = p THEN file ELSE Mine[q]
  <2>1. Namespaced(build.user) \in Namespaces /\ Namespaced(u) \in Namespaces
        /\ (Namespaced(build.user) = Namespaced(u) => build.user = u)
    BY <1>4, InNamespaces, NamespacesDiffer
  <2> QED
    BY <1>2, <1>4, <1>5, <2>1 DEF Mine, Put
<1>8. \A q \in Paths : Mine'[q] \in build'.seen[q]
  BY <1>5, <1>6, <1>7 DEF IsCurrent
<1>9. \A q \in Paths : Mine'[q] = Mine[q] \/ q \in build'.byHand
  BY <1>5, <1>7
<1>10. \A q \in Paths : build.seen[q] \subseteq build'.seen[q]
  BY <1>5
<1> QED
  BY <1>3, <1>4, <1>5, <1>6, <1>8, <1>9, <1>10, StaysCurrent DEF Placed

LEMMA CurrentGetStore == ASSUME Typed, GetStore PROVE Current'
<1>1. PICK s \in Stores :
        /\ build' = [build EXCEPT !.pc = "tools", !.store = s, !.seen = FilesNow(s)]
        /\ files' = files
  BY GetStoreOK
<1>2. build \in BuildType /\ Placed(build) /\ build.pc = "store" /\ build.pos = 1
  BY InBuild DEF GetStore, Placed
<1>3. /\ build'.pc = "tools" /\ build'.store = s /\ build'.user = build.user
      /\ build'.pos = 1 /\ build'.seen = FilesNow(s)
  BY <1>1, <1>2 DEF BuildType
<1>4. \A p \in Paths : Mine'[p] \in build'.seen[p]
  BY <1>1, <1>2, <1>3, FilesNowOK DEF Mine
<1> QED
  BY <1>3, <1>4, CurrentAtStart

LEMMA CurrentSearch == ASSUME Typed, Current, Search PROVE Current'
<1>1. PICK found, missed :
        /\ build' = [build EXCEPT !.pc = "delete", !.stale = StaleCopies(found),
                                  !.missed = missed, !.byHand = {}]
        /\ UNCHANGED storeVars
  BY SearchOK
<1>2. build \in BuildType /\ build.pc = "search" /\ build.pos = 1 /\ build # NoBuild
  BY InBuild DEF Search, Placed
<1>3. /\ build'.pc = "delete" /\ build'.pos = 1 /\ build'.seen = build.seen
      /\ build'.store = build.store /\ build'.user = build.user
  BY <1>1, <1>2 DEF BuildType
<1>4. \A p \in Paths : Mine[p] \in build.seen[p]
  BY <1>2 DEF Current, IsCurrent, Early
<1>5. Mine' = Mine
  BY <1>1, <1>3 DEF Mine, storeVars
<1> QED
  BY <1>3, <1>4, <1>5, CurrentAtStart

LEMMA CurrentDeleteStale == ASSUME Typed, Current, DeleteStale PROVE Current'
<1>1. PICK p \in build.stale : Removes(p) /\ p \in Paths
  BY DeleteStaleOK
<1>2. /\ build \in BuildType /\ build.pc = "delete" /\ build.pos = 1
      /\ build.user \in Tenants /\ build.store \in Stores /\ build # NoBuild
  BY InBuild DEF DeleteStale, Placed
<1>3. /\ build'.pc = "delete" /\ build'.store = build.store /\ build'.user = build.user
      /\ build'.pos = 1
      /\ \/ files' = files /\ build'.seen = build.seen
         \/ /\ Put(build.store, Namespaced(build.user), p, NoFile)
            /\ \A q \in Paths : build'.seen[q] =
                  IF q = p THEN build.seen[q] \cup {NoFile} ELSE build.seen[q]
  BY <1>1, <1>2, RemovedOK
<1>4. \A q \in Paths : Mine[q] \in build.seen[q]
  BY <1>2 DEF Current, IsCurrent, Early
<1>5. \A q \in Paths : Mine'[q] \in build'.seen[q]
  <2>1. CASE files' = files /\ build'.seen = build.seen
    BY <1>3, <1>4, <2>1 DEF Mine
  <2>2. CASE /\ Put(build.store, Namespaced(build.user), p, NoFile)
             /\ \A q \in Paths : build'.seen[q] =
                   IF q = p THEN build.seen[q] \cup {NoFile} ELSE build.seen[q]
    <3>1. Namespaced(build.user) \in Namespaces
      BY <1>2, InNamespaces
    <3>2. \A q \in Paths : Mine'[q] = IF q = p THEN NoFile ELSE Mine[q]
      BY <1>1, <1>2, <1>3, <2>2, <3>1 DEF Mine, Put
    <3> QED
      BY <1>4, <2>2, <3>2
  <2> QED
    BY <1>3, <2>1, <2>2
<1> QED
  BY <1>3, <1>5, CurrentAtStart

\* A source that is missing was seen missing; one that is there is copied as
\* it was seen.
LEMMA CurrentReadSource == ASSUME Typed, Current, ReadSource PROVE Current'
<1> DEFINE sources == Sourced(build.chosen)
<1>1. /\ build \in BuildType /\ build.chosen \in Selections /\ build.pc \notin Early
      /\ build.pos \in Nat /\ build.pos \in 1 .. Len(sources)
      /\ Source \in Paths
  BY AtSource DEF ReadSource
<1>2. Placed(build) /\ build.pc = "read" /\ build # NoBuild /\ files' = files
  BY InBuild DEF ReadSource, storeVars
<1>3. IsCurrent(build, Mine)
  BY <1>1, <1>2 DEF Current
<1>4. Mine[Source] \in build.seen[Source] /\ Source = sources[build.pos]
  BY <1>1, <1>3 DEF IsCurrent, Source
<1>5. CASE Mine[Source] = NoFile /\ build' = NextSource
  <2>1. PICK pc \in {"read", "model"} :
          NextSource = [build EXCEPT !.pos = build.pos + 1, !.pc = pc]
    BY <1>1, <1>2, NextSourceOK DEF Placed
  <2>2. /\ build'.chosen = build.chosen /\ build'.seen = build.seen /\ build'.pc # "write"
        /\ build'.pos = build.pos + 1 /\ build'.user = build.user /\ build'.store = build.store
        /\ build'.byHand = build.byHand
    BY <1>1, <1>5, <2>1 DEF BuildType
  <2>3. Mine' = Mine
    BY <1>2, <2>2 DEF Mine
  <2>4. NoFile \in SeenFor(build, CopyOf(sources[build.pos]))
    BY <1>1, <1>4, <1>5, SeenThere
  <2>5. \A i \in 1 .. Len(sources) : i < build.pos + 1 => Fresh(build, Mine, CopyOf(sources[i]))
    <3> SUFFICES ASSUME NEW i \in 1 .. Len(sources), i < build.pos + 1
                 PROVE  Fresh(build, Mine, CopyOf(sources[i]))
      OBVIOUS
    <3>1. CASE i = build.pos
      BY <2>4, <3>1 DEF Fresh
    <3>2. CASE i < build.pos
      BY <1>3, <3>2 DEF IsCurrent
    <3> QED
      BY <1>1, <3>1, <3>2
  <2>6. \A copy : Fresh(build', Mine, copy) = Fresh(build, Mine, copy)
    BY <2>2 DEF Fresh, SeenFor
  <2> QED
    BY <1>3, <2>2, <2>3, <2>5, <2>6 DEF Current, IsCurrent
<1>6. CASE build' = [build EXCEPT !.pc = "write", !.held = Mine[Source]]
  <2>1. /\ build'.chosen = build.chosen /\ build'.seen = build.seen /\ build'.pc = "write"
        /\ build'.pos = build.pos /\ build'.user = build.user /\ build'.store = build.store
        /\ build'.held = Mine[Source] /\ build'.byHand = build.byHand
    BY <1>1, <1>6 DEF BuildType
  <2>2. Mine' = Mine
    BY <1>2, <2>1 DEF Mine
  <2>3. \A copy : Fresh(build', Mine, copy) = Fresh(build, Mine, copy)
    BY <2>1 DEF Fresh, SeenFor
  <2> QED
    BY <1>3, <1>4, <2>1, <2>2, <2>3 DEF Current, IsCurrent
<1> QED
  BY <1>5, <1>6 DEF ReadSource

LEMMA CurrentWriteCopy == ASSUME Typed, Current, WriteCopy PROVE Current'
<1> DEFINE sources == Sourced(build.chosen)
<1>1. /\ build \in BuildType /\ build.chosen \in Selections /\ build.pc \notin Early
      /\ build.pos \in Nat /\ build.pos \in 1 .. Len(sources)
      /\ build.user \in Tenants /\ build.store \in Stores
      /\ Source \in Paths
  BY AtSource DEF WriteCopy
<1>2. Placed(build) /\ build.pc = "write" /\ build # NoBuild
  BY InBuild DEF WriteCopy
<1>3. IsCurrent(build, Mine)
  BY <1>1, <1>2 DEF Current
<1>4. build.held \in build.seen[sources[build.pos]] /\ Source = sources[build.pos]
  BY <1>2, <1>3 DEF IsCurrent, Source
<1>5. build.held \in SeenFor(build, CopyOf(Source))
  BY <1>1, <1>4, SeenThere
<1>8. /\ build'.chosen = build.chosen /\ build'.pc # "write" /\ build'.pos = build.pos + 1
      /\ build'.user = build.user /\ build'.store = build.store
      /\ build'.byHand = build.byHand \ {CopyOf(Source)}
      /\ \A q \in Paths : build'.seen[q] =
            IF q = CopyOf(Source) THEN build.seen[q] \cup {build.held} ELSE build.seen[q]
      /\ Put(build.store, Namespaced(build.user), CopyOf(Source), build.held)
  BY WriteCopyOK
<1>10. Namespaced(build.user) \in Namespaces /\ CopyOf(Source) \in Paths
  BY <1>1, InNamespaces, Copies
<1>11. \A p \in Paths : Mine'[p] = IF p = CopyOf(Source) THEN build.held ELSE Mine[p]
  BY <1>1, <1>8, <1>10 DEF Mine, Put
<1>12. \A p \in Paths : Mine'[p] \in build'.seen[p]
  BY <1>3, <1>8, <1>11 DEF IsCurrent
<1>13. \A copy \in Paths : SeenFor(build, copy) \subseteq SeenFor(build', copy)
  <2>1. \A q \in Paths : build.seen[q] \subseteq build'.seen[q]
    BY <1>8
  <2> QED
    BY <1>1, <1>8, <2>1, SeenMore
<1>14. ASSUME NEW i \in 1 .. Len(sources), i < build.pos + 1
       PROVE  Fresh(build', Mine', CopyOf(sources[i]))
  <2>1. CopyOf(sources[i]) \in Paths
    BY <1>1, <1>14, SourcedOK, Copies
  <2>2. CASE CopyOf(sources[i]) = CopyOf(Source)
    BY <1>5, <1>11, <1>13, <2>1, <2>2 DEF Fresh
  <2>3. CASE CopyOf(sources[i]) # CopyOf(Source)
    <3>1. i < build.pos
      BY <1>1, <1>4, <1>14, <2>3
    <3>2. Fresh(build, Mine, CopyOf(sources[i]))
      BY <1>3, <3>1 DEF IsCurrent
    <3> QED
      BY <1>8, <1>11, <1>13, <2>1, <2>3, <3>2 DEF Fresh
  <2> QED
    BY <2>2, <2>3
<1> QED
  BY <1>8, <1>12, <1>14 DEF Current, IsCurrent

LEMMA CurrentNext ==
    ASSUME StoreInv, Typed, Typed', Current, [BuildNext]_buildVars
    PROVE  Current'
<1>1. CASE UNCHANGED <<build, files>>
  BY <1>1 DEF Current, IsCurrent, Fresh, Mine
<1>2. CASE StopAll
  BY <1>2 DEF StopAll, Current
<1>3. ASSUME NEW p \in Paths, ToolWrites(p) \/ \E u \in Tenants : FileApi(u, p) PROVE Current'
  BY <1>3, HandWrites, CurrentHandWrite
<1>4. ASSUME NEW u \in Tenants, BeginBuild(u) PROVE Current'
  BY <1>4 DEF BeginBuild, Current, Early
<1>5. CASE GetSaver
  <2>1. build \in BuildType
    BY <1>5, InBuild DEF GetSaver
  <2>2. PICK saver \in Stores : build' = [build EXCEPT !.pc = "store", !.saver = saver]
    BY <1>5, GetSaverOK
  <2>3. build'.pc = "store"
    BY <2>1, <2>2 DEF BuildType
  <2> QED
    BY <2>3 DEF Current, Early
<1>6. CASE GetTools \/ Cleaned \/ ResolveModel
  <2>1. build # NoBuild /\ build.pc \notin Early /\ build \in BuildType /\ files' = files
    <3>1. CASE GetTools
      BY <3>1, InBuild DEF GetTools, Early
    <3>2. CASE Cleaned
      BY <3>2, InBuild DEF Cleaned, Early, storeVars
    <3>3. CASE ResolveModel
      BY <3>3, InBuild DEF ResolveModel, Early, storeVars
    <3> QED
      BY <1>6, <3>1, <3>2, <3>3
  <2>2. CASE build' = NoBuild
    BY <2>2 DEF Current
  <2>3. CASE build' # NoBuild
    <3>1. build' \in BuildType
      BY <2>3 DEF Typed, Built, IsBuilt
    <3>2. /\ build'.pc # "write" /\ build'.user = build.user /\ build'.chosen = build.chosen
          /\ build'.store = build.store /\ build'.pos = build.pos /\ build'.seen = build.seen
          /\ build'.byHand = build.byHand
      <4>1. CASE GetTools
        BY <2>1, <2>3, <4>1 DEF GetTools, Step, Raise, BuildType
      <4>2. CASE Cleaned
        BY <2>1, <4>2 DEF Cleaned, Step, BuildType
      <4>3. CASE ResolveModel
        <5>1. PICK creds : build' = [build EXCEPT !.pc = "cache", !.creds = creds]
          BY <2>3, <4>3 DEF ResolveModel, Raise
        <5> QED
          BY <2>1, <5>1 DEF BuildType
      <4> QED
        BY <1>6, <4>1, <4>2, <4>3
    <3> QED
      BY <2>1, <3>1, <3>2, CurrentElsewhere
  <2> QED
    BY <2>2, <2>3
<1>7. CASE StoreCallFails \/ CacheRunner
  BY <1>7 DEF StoreCallFails, CacheRunner, Raise, Current
<1> QED
  BY <1>1, <1>2, <1>3, <1>4, <1>5, <1>6, <1>7, CurrentGetStore, CurrentSearch,
     CurrentDeleteStale, CurrentReadSource, CurrentWriteCopy
  DEF BuildNext, buildVars, storeVars, agentVars, StartUnwired, StartWired, Run, SetLlmKey,
      Reconfigure, Invalidate

LEMMA CurrentAlways == BuildSpec => [](StoreInv /\ Typed /\ Current)
<1>1. BuildInit => Current
  BY DEF BuildInit, AgentInit, Current
<1>2. StoreInv /\ Typed /\ Typed' /\ Current /\ [BuildNext]_buildVars => Current'
  BY CurrentNext
<1> QED
  BY <1>1, <1>2, TypedAlways, PTL DEF BuildSpec

\* Whatever users upload and turns write during the build.
THEOREM CopiesWereCurrent == BuildSpec => CopyWasCurrent
<1>1. ASSUME Typed, Current, [BuildNext]_buildVars, runner = NoRunner, runner' # NoRunner,
             NEW copy \in SelectedCopies(build.chosen) \ build.byHand
      PROVE  LET held == UNION {build.seen[p] : p \in SourcesOf(build.chosen, copy)}
             IN  NoFile \in held \/ Mine[copy] \in held
  <2>1. CacheRunner
    BY <1>1
    DEF BuildNext, buildVars, storeVars, agentVars, StartUnwired, StartWired, StopAll, FileApi,
        Run, BeginBuild, SetLlmKey, GetSaver, GetStore, GetTools, Search, DeleteStale, Cleaned,
        ReadSource, WriteCopy, StoreCallFails, ResolveModel, Reconfigure, Invalidate, ToolWrites,
        Notes
  <2>2. /\ build # NoBuild /\ build.pc = "cache" /\ build \in BuildType /\ Placed(build)
        /\ build.chosen \in Selections
    BY <1>1, <2>1, InBuild DEF CacheRunner
  <2>3. IsCurrent(build, Mine)
    BY <1>1, <2>2 DEF Current, Early
  <2>4. PICK i \in 1 .. Len(Sourced(build.chosen)) : copy = CopyOf(Sourced(build.chosen)[i])
    BY <1>1, <2>2, SourcedOK DEF SelectedCopies, Range
  <2>5. i < build.pos
    BY <2>2, <2>4, SourcedOK DEF Placed
  <2>6. Fresh(build, Mine, copy)
    BY <2>3, <2>4, <2>5 DEF IsCurrent
  <2> QED
    BY <2>6 DEF Fresh, SeenFor
<1>2. Typed /\ Current /\ [BuildNext]_buildVars =>
        [runner = NoRunner /\ runner' # NoRunner =>
           \A copy \in SelectedCopies(build.chosen) \ build.byHand :
             LET held == UNION {build.seen[p] : p \in SourcesOf(build.chosen, copy)}
             IN  NoFile \in held \/ Mine[copy] \in held]_buildVars
  BY <1>1
<1> QED
  BY <1>2, CurrentAlways, PTL DEF BuildSpec, CopyWasCurrent

-----------------------------------------------------------------------------
(* The skills an agent finds *)

\* The copies of skills in one namespace.
Skills(s, u) ==
    {p \in Paths : /\ p.kind = "skills" /\ p.dir = AgentDir
                   /\ files[s][Namespaced(u)][p] # NoFile}

\* A build that has searched for copies of an earlier selection, and has not
\* skipped one.
HasSearched(b) ==
    b.pc \in {"delete", "read", "write", "model", "cache"} /\ ~b.missed /\ b.chosen.skills # <<>>

\* Selected, or put there by hand since the search, or about to be removed.
CleanBuild ==
    build # NoBuild /\ HasSearched(build) =>
      Skills(build.store, build.user)
        \subseteq SelectedCopies(build.chosen) \cup build.byHand
                    \cup (IF build.pc = "delete" THEN build.stale ELSE {})

CleanRunner ==
    runner # NoRunner /\ ~runner.missed /\ runner.chosen.skills # <<>> =>
      Skills(runner.store, runner.user) \subseteq SelectedCopies(runner.chosen) \cup runner.byHand

Clean == CleanBuild /\ CleanRunner /\ OnlySelectedSkills

\* A build that has searched goes on without touching copies.
GoesOnClean ==
    /\ build # NoBuild /\ HasSearched(build)
    /\ build'.user = build.user /\ build'.chosen = build.chosen
    /\ build'.store = build.store /\ build'.missed = build.missed
    /\ build'.stale = build.stale /\ build'.byHand = build.byHand
    /\ \/ build'.pc = build.pc
       \/ build.pc # "delete" /\ build'.pc # "delete"
       \/ build.stale = {}

LEMMA CleanOthers ==
    ASSUME Typed, Clean, runner' = runner, turn' = turn,
           \A s \in Stores, u \in Tenants : Skills(s, u)' = Skills(s, u),
           \/ build' = build
           \/ build' = NoBuild
           \/ ~HasSearched(build')
           \/ GoesOnClean
    PROVE  Clean'
<1>1. CleanRunner'
  <2>1. runner # NoRunner => runner.store \in Stores /\ runner.user \in Tenants
    BY DEF Typed, Others, RunnerType
  <2> QED
    BY <2>1 DEF Clean, CleanRunner
<1>2. OnlySelectedSkills'
  BY DEF Clean, OnlySelectedSkills
<1>3. CleanBuild'
  <2>1. build # NoBuild => build.store \in Stores /\ build.user \in Tenants
    BY DEF Typed, Built, IsBuilt, BuildType
  <2> QED
    BY <2>1 DEF Clean, CleanBuild, HasSearched, GoesOnClean
<1> QED
  BY <1>1, <1>2, <1>3 DEF Clean

LEMMA SkillsStay == ASSUME UNCHANGED files PROVE \A s, u : Skills(s, u)' = Skills(s, u)
BY DEF Skills

\* A write by hand adds at most the file written, which its build and its
\* runner note.
LEMMA CleanHandWrite == ASSUME Typed, Clean, HandWrite PROVE Clean'
<1>1. PICK s \in Stores, u \in Tenants, p \in Paths, file \in Held : ByHand(s, u, p, file)
  BY DEF HandWrite
<1>2. /\ Put(s, Namespaced(u), p, file) /\ files'[s][Namespaced(u)][p] = file
      /\ Notes(s, u, p) /\ turn' = turn
  BY <1>1 DEF ByHand
<1>3. ASSUME NEW s2 \in Stores, NEW v \in Tenants
      PROVE  Skills(s2, v)' \subseteq
               IF s2 = s /\ v = u THEN Skills(s2, v) \cup {p} ELSE Skills(s2, v)
  <2>1. Namespaced(v) \in Namespaces /\ (Namespaced(v) = Namespaced(u) => v = u)
    BY InNamespaces, NamespacesDiffer
  <2>2. \A q \in Paths :
          files'[s2][Namespaced(v)][q] = files[s2][Namespaced(v)][q]
          \/ (s2 = s /\ v = u /\ q = p)
    BY <1>2, <2>1 DEF Put
  <2> QED
    BY <2>2 DEF Skills
<1>4. CleanBuild'
  <2>1. CASE build = NoBuild
    BY <1>2, <2>1 DEF Notes, CleanBuild
  <2>2. CASE build # NoBuild
    <3>1. /\ build'.pc = build.pc /\ build'.user = build.user /\ build'.chosen = build.chosen
          /\ build'.store = build.store /\ build'.missed = build.missed
          /\ build'.stale = build.stale
          /\ build'.byHand = IF build.user = u /\ build.store = s
                             THEN build.byHand \cup {p} ELSE build.byHand
      <4>1. NotedIn(s, u, p, file)
        BY <1>2, <2>2, NotedBuild
      <4> QED
        BY <4>1 DEF NotedIn
    <3>2. build.store \in Stores /\ build.user \in Tenants
      BY <2>2 DEF Typed, Built, IsBuilt, BuildType
    <3>3. Skills(build.store, build.user)' \subseteq
            IF build.store = s /\ build.user = u THEN Skills(build.store, build.user) \cup {p}
            ELSE Skills(build.store, build.user)
      BY <1>3, <3>1, <3>2 DEF Skills
    <3> QED
      BY <2>2, <3>1, <3>3 DEF Clean, CleanBuild, HasSearched
  <2> QED
    BY <2>1, <2>2
<1>5. CleanRunner'
  <2>1. CASE runner = NoRunner
    BY <1>2, <2>1, NotedRunner DEF CleanRunner
  <2>2. CASE runner # NoRunner
    <3>1. /\ runner'.user = runner.user /\ runner'.chosen = runner.chosen
          /\ runner'.store = runner.store /\ runner'.missed = runner.missed
          /\ runner'.byHand = IF runner.user = u /\ runner.store = s
                              THEN runner.byHand \cup {p} ELSE runner.byHand
      BY <1>2, <2>2, NotedRunner
    <3>2. runner.store \in Stores /\ runner.user \in Tenants
      BY <2>2 DEF Typed, Others, RunnerType
    <3> QED
      BY <1>3, <2>2, <3>1, <3>2 DEF Clean, CleanRunner
  <2> QED
    BY <2>1, <2>2
<1>6. OnlySelectedSkills'
  BY <1>2 DEF Clean, OnlySelectedSkills
<1> QED
  BY <1>4, <1>5, <1>6 DEF Clean

LEMMA CleanSearch == ASSUME Typed, Clean, Search PROVE Clean'
<1>1. PICK found \in SUBSET Paths, missed \in BOOLEAN :
        /\ build' = [build EXCEPT !.pc = "delete", !.stale = StaleCopies(found),
                                  !.missed = missed, !.byHand = {}]
        /\ ~missed => found = {p \in Paths : Mine[p] # NoFile}
        /\ UNCHANGED <<storeVars, selection, invalidating, llm, runner, turn>>
  BY SearchOK
<1>2. build \in BuildType /\ runner = NoRunner
  BY InBuild DEF Search
<1>3. /\ build'.pc = "delete" /\ build'.stale = StaleCopies(found) /\ build'.missed = missed
      /\ build'.user = build.user /\ build'.chosen = build.chosen /\ build'.store = build.store
  BY <1>1, <1>2 DEF BuildType
<1>4. ~missed =>
        Skills(build.store, build.user) \subseteq SelectedCopies(build.chosen) \cup StaleCopies(found)
  BY <1>1 DEF Skills, StaleCopies, Mine
<1>5. Skills(build.store, build.user)' = Skills(build.store, build.user)
  BY <1>1, <1>3 DEF Skills, storeVars
<1> QED
  BY <1>1, <1>2, <1>3, <1>4, <1>5
  DEF Clean, CleanBuild, CleanRunner, OnlySelectedSkills, HasSearched

LEMMA CleanDeleteStale == ASSUME Typed, Clean, DeleteStale PROVE Clean'
<1>1. PICK q \in build.stale : Removes(q) /\ q \in Paths /\ UNCHANGED <<runner, turn>>
  BY DeleteStaleOK
<1>2. build \in BuildType /\ runner = NoRunner /\ build.pc = "delete" /\ build # NoBuild
      /\ build.store \in Stores /\ build.user \in Tenants
  BY InBuild DEF DeleteStale
<1>3. /\ build'.pc = "delete" /\ build'.stale = build.stale \ {q}
      /\ build'.user = build.user /\ build'.chosen = build.chosen /\ build'.store = build.store
      /\ \/ build'.missed
         \/ /\ Put(build.store, Namespaced(build.user), q, NoFile)
            /\ build'.missed = build.missed /\ build'.byHand = build.byHand \ {q}
  BY <1>1, <1>2, RemovedOK
<1>4. Namespaced(build.user) \in Namespaces
  BY <1>2, InNamespaces
<1>5. CleanBuild'
  <2>1. CASE build'.missed
    BY <2>1 DEF CleanBuild, HasSearched
  <2>2. CASE ~build'.missed
    <3>1. /\ Put(build.store, Namespaced(build.user), q, NoFile) /\ ~build.missed
          /\ build'.byHand = build.byHand \ {q}
      BY <1>3, <2>2
    <3>2. Skills(build.store, build.user)' \subseteq Skills(build.store, build.user) \ {q}
      BY <1>2, <1>3, <1>4, <3>1 DEF Skills, Put
    <3>3. build.chosen.skills # <<>> =>
            Skills(build.store, build.user)
              \subseteq SelectedCopies(build.chosen) \cup build.byHand \cup build.stale
      BY <1>2, <3>1 DEF Clean, CleanBuild, HasSearched
    <3> QED
      BY <1>3, <3>1, <3>2, <3>3 DEF CleanBuild, HasSearched
  <2> QED
    BY <2>1, <2>2
<1> QED
  BY <1>1, <1>2, <1>5 DEF Clean, CleanRunner, OnlySelectedSkills

LEMMA CleanWriteCopy == ASSUME Typed, Clean, WriteCopy PROVE Clean'
<1>1. /\ build \in BuildType /\ build.chosen \in Selections /\ runner = NoRunner
      /\ build.user \in Tenants /\ build.store \in Stores
      /\ Source \in Range(Sourced(build.chosen))
  BY AtSource DEF WriteCopy
<1>2. build.pc = "write" /\ build # NoBuild
  BY InBuild DEF WriteCopy
<1>3. /\ build'.pc \in {"read", "model"} /\ build'.missed = build.missed
      /\ build'.user = build.user /\ build'.chosen = build.chosen /\ build'.store = build.store
      /\ build'.byHand = build.byHand \ {CopyOf(Source)}
      /\ Put(build.store, Namespaced(build.user), CopyOf(Source), build.held)
  BY WriteCopyOK
<1>4. CopyOf(Source) \in SelectedCopies(build.chosen)
  BY <1>1 DEF SelectedCopies
<1>5. Namespaced(build.user) \in Namespaces
  BY <1>1, InNamespaces
<1>6. Skills(build.store, build.user)'
        \subseteq Skills(build.store, build.user) \cup SelectedCopies(build.chosen)
  BY <1>1, <1>3, <1>4, <1>5 DEF Skills, Put
<1>7. build'.missed \/ build.chosen.skills = <<>>
      \/ Skills(build.store, build.user)
           \subseteq SelectedCopies(build.chosen) \cup build.byHand
  BY <1>2, <1>3 DEF Clean, CleanBuild, HasSearched
<1>8. CleanBuild'
  BY <1>3, <1>4, <1>6, <1>7 DEF CleanBuild, HasSearched
<1> QED
  BY <1>1, <1>8 DEF Clean, CleanRunner, OnlySelectedSkills, WriteCopy

LEMMA CleanBuilding ==
    ASSUME Typed, Clean, GetTools \/ Cleaned \/ ReadSource \/ ResolveModel
    PROVE  Clean'
<1>1. /\ build \in BuildType /\ build # NoBuild /\ Placed(build) /\ build.chosen \in Selections
      /\ UNCHANGED <<files, runner, turn>>
  <2>1. CASE GetTools
    BY <2>1, InBuild DEF GetTools
  <2>2. CASE Cleaned
    BY <2>2, InBuild DEF Cleaned, storeVars
  <2>3. CASE ReadSource
    BY <2>3, InBuild DEF ReadSource, storeVars
  <2>4. CASE ResolveModel
    BY <2>4, InBuild DEF ResolveModel, storeVars
  <2> QED
    BY <2>1, <2>2, <2>3, <2>4
<1>2. \/ build' = NoBuild
      \/ ~HasSearched(build')
      \/ GoesOnClean
  <2>1. CASE GetTools
    <3>1. CASE Sourced(build.chosen) = <<>>
      <4>1. build.chosen.skills = <<>>
        BY <1>1, <3>1, AgentBuildAssumption DEF Sourced
      <4>2. build' = NoBuild \/ build' = [build EXCEPT !.pc = "model"]
        BY <2>1, <3>1 DEF GetTools, Raise, Step
      <4> QED
        BY <1>1, <4>1, <4>2 DEF BuildType, HasSearched
    <3>2. CASE Sourced(build.chosen) # <<>>
      <4>1. build' = NoBuild \/ build' = [build EXCEPT !.pc = "search"]
        BY <2>1, <3>2 DEF GetTools, Raise, Step
      <4> QED
        BY <1>1, <4>1 DEF BuildType, HasSearched
    <3> QED
      BY <3>1, <3>2
  <2>2. CASE Cleaned
    <3>1. build.pc = "delete" /\ build.stale = {} /\ build' = [build EXCEPT !.pc = "read"]
      BY <2>2, InBuild DEF Cleaned, Step
    <3> QED
      BY <1>1, <3>1 DEF BuildType, HasSearched, GoesOnClean
  <2>3. CASE ReadSource
    <3>1. build.pc = "read" /\ build.pos \in 1 .. Len(Sourced(build.chosen))
      BY <2>3, InBuild, AtSource DEF ReadSource
    <3>2. CASE build' = NextSource
      <4>1. PICK pc \in {"read", "model"} :
              NextSource = [build EXCEPT !.pos = build.pos + 1, !.pc = pc]
        BY <1>1, <3>1, NextSourceOK DEF Placed
      <4> QED
        BY <1>1, <3>1, <3>2, <4>1 DEF BuildType, HasSearched, GoesOnClean
    <3>3. CASE build' = [build EXCEPT !.pc = "write", !.held = Mine[Source]]
      BY <1>1, <3>1, <3>3 DEF BuildType, HasSearched, GoesOnClean
    <3> QED
      BY <2>3, <3>2, <3>3 DEF ReadSource
  <2>4. CASE ResolveModel
    <3>1. build.pc = "model"
      BY <2>4, InBuild DEF ResolveModel
    <3>2. CASE build' = NoBuild
      BY <3>2
    <3>3. CASE build' # NoBuild
      <4>1. PICK creds : build' = [build EXCEPT !.pc = "cache", !.creds = creds]
        BY <2>4, <3>3 DEF ResolveModel, Raise
      <4> QED
        BY <1>1, <3>1, <4>1 DEF BuildType, HasSearched, GoesOnClean
    <3> QED
      BY <3>2, <3>3
  <2> QED
    BY <2>1, <2>2, <2>3, <2>4
<1> QED
  BY <1>1, <1>2, SkillsStay, CleanOthers

LEMMA CleanRun ==
    ASSUME Typed, Clean, NEW u \in Tenants, Run(u)
    PROVE  Clean'
<1>1. runner # NoRunner /\ runner \in RunnerType /\ UNCHANGED <<files, runner, build>>
  BY DEF Run, storeVars, Typed, Others
<1>2. turn' = [user |-> u, built |-> runner, own |-> llm[u], found |-> Discovered(runner, u)]
  BY DEF Run
<1>3. turn'.user = u /\ turn'.built = runner /\ turn'.found = Discovered(runner, u)
  BY <1>2
<1>4. u = runner.user /\ ~runner.missed =>
        Discovered(runner, u) \subseteq SelectedCopies(runner.chosen) \cup runner.byHand
  BY <1>1 DEF Clean, CleanRunner, Discovered, Skills
<1>5. OnlySelectedSkills'
  BY <1>3, <1>4 DEF OnlySelectedSkills
<1> QED
  BY <1>1, <1>5 DEF Clean, CleanBuild, CleanRunner, Skills

LEMMA CleanCacheRunner == ASSUME Typed, Clean, CacheRunner PROVE Clean'
<1>1. build # NoBuild /\ build.pc = "cache"
  BY InBuild DEF CacheRunner
<1>2. /\ build' = NoBuild /\ UNCHANGED <<files, turn>>
      /\ \/ runner' = runner
         \/ /\ runner'.user = build.user /\ runner'.chosen = build.chosen
            /\ runner'.store = build.store /\ runner'.missed = build.missed
            /\ runner'.byHand = build.byHand
  BY CacheRunnerOK
<1> QED
  BY <1>1, <1>2 DEF Clean, CleanBuild, CleanRunner, OnlySelectedSkills, HasSearched, Skills

LEMMA CleanNext ==
    ASSUME StoreInv, Typed, Clean, [BuildNext]_buildVars
    PROVE  Clean'
<1>1. CASE UNCHANGED <<build, runner, turn, files>>
  BY <1>1, SkillsStay, CleanOthers
<1>2. CASE StopAll
  BY <1>2 DEF StopAll, Clean, CleanBuild, CleanRunner, OnlySelectedSkills
<1>3. ASSUME NEW p \in Paths, ToolWrites(p) \/ \E u \in Tenants : FileApi(u, p) PROVE Clean'
  BY <1>3, HandWrites, CleanHandWrite
<1>4. ASSUME NEW u \in Tenants, BeginBuild(u) PROVE Clean'
  <2>1. ~HasSearched(build') /\ UNCHANGED <<runner, turn, files>>
    BY <1>4 DEF BeginBuild, storeVars, HasSearched
  <2> QED
    BY <2>1, SkillsStay, CleanOthers
<1>5. CASE GetSaver
  <2>1. build \in BuildType /\ UNCHANGED <<runner, turn, files>>
    BY <1>5, InBuild DEF GetSaver
  <2>2. PICK saver \in Stores : build' = [build EXCEPT !.pc = "store", !.saver = saver]
    BY <1>5, GetSaverOK
  <2>3. ~HasSearched(build')
    BY <2>1, <2>2 DEF BuildType, HasSearched
  <2> QED
    BY <2>1, <2>3, SkillsStay, CleanOthers
<1>6. CASE GetStore
  <2>1. PICK s \in Stores :
          /\ build' = [build EXCEPT !.pc = "tools", !.store = s, !.seen = FilesNow(s)]
          /\ UNCHANGED <<files, runner, turn>>
    BY <1>6, GetStoreOK
  <2>2. build \in BuildType
    BY <1>6, InBuild DEF GetStore
  <2>3. ~HasSearched(build')
    BY <2>1, <2>2 DEF BuildType, HasSearched
  <2> QED
    BY <2>1, <2>3, SkillsStay, CleanOthers
<1>7. CASE StoreCallFails
  <2>1. build' = NoBuild /\ UNCHANGED <<files, runner, turn>>
    BY <1>7 DEF StoreCallFails, Raise
  <2> QED
    BY <2>1, SkillsStay, CleanOthers
<1>8. CASE Invalidate
  BY <1>8 DEF Invalidate, storeVars, Clean, CleanBuild, CleanRunner, OnlySelectedSkills
<1> QED
  BY <1>1, <1>2, <1>3, <1>4, <1>5, <1>6, <1>7, <1>8, CleanRun, CleanCacheRunner,
     CleanSearch, CleanDeleteStale, CleanWriteCopy, CleanBuilding
  DEF BuildNext, buildVars, storeVars, agentVars, StartUnwired, StartWired, SetLlmKey,
      Reconfigure

\* Whatever an earlier version of the agent left there, on whichever store,
\* and whatever other turns and users write.
THEOREM SelectedSkillsOnly == BuildSpec => []OnlySelectedSkills
<1>1. BuildInit => Clean
  BY DEF BuildInit, AgentInit, Clean, CleanBuild, CleanRunner, OnlySelectedSkills
<1>2. StoreInv /\ Typed /\ Clean /\ [BuildNext]_buildVars => Clean'
  BY CleanNext
<1>3. Clean => OnlySelectedSkills
  BY DEF Clean
<1> QED
  BY <1>1, <1>2, <1>3, TypedAlways, PTL DEF BuildSpec

=============================================================================
