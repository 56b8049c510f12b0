------------------------- MODULE AgentConfigsProofs -------------------------
(***************************************************************************)
(* Theorems about AgentConfigs for every set of agents, documents, uploads *)
(* and requests: TypeCorrect, CacheCoherent, RunnerKept, and, for requests *)
(* that take turns on a name, RowAgreesForTurns.                           *)
(*                                                                         *)
(* Typed adds to TypeOK what a request knows at each of its steps.  On top *)
(* of it the lock is held exactly during a build (LockHeldByBuilder), and  *)
(* with the lock every invalidation finds nobody building, which makes Inv *)
(* inductive.  RowInv is the invariant of requests that take turns on a    *)
(* name, on which the agreement of row and document rests.                 *)
(***************************************************************************)
EXTENDS AgentConfigs, TLAPS

Typed == TypeOK /\ \A p \in Procs : RequestOK(req[p])

\* The steps of the request p.
Starts(p) == StartCreate(p) \/ StartUpdate(p) \/ StartDelete(p) \/ StartGetRunner(p)

Acts(p) == Starts(p) \/ TakeLock(p) \/ Continue(p)

\* A step is one of a request or a restart.
LEMMA NextActs ==
    [Next]_vars => (\E p \in Procs : Acts(p)) \/ Restart \/ UNCHANGED vars
BY DEF Next, Acts, Starts, Procs

-----------------------------------------------------------------------------
(* Lemmas about the operators *)

\* A reference of a document is an agent name and a member of its RefSet.
LEMMA RefIsAgent ==
    ASSUME NEW c \in Configs, NEW i \in Nat, i >= 1, i <= Len(Refs[c])
    PROVE  Refs[c][i] \in Agents /\ Refs[c][i] \in RefSet(c)
BY ConfigsAssumption DEF RefSet

\* AfterRefs names a call that the request can make next.
LEMMA AfterRefsStep ==
    ASSUME NEW c \in Configs, NEW op \in {"create", "update"}, NEW i \in Nat
    PROVE  /\ AfterRefs(op, c, i) \in {"refs", "exists", "put"}
           /\ AfterRefs(op, c, i) = "refs" => i <= Len(Refs[c])
BY DEF AfterRefs

\* A request that has returned is a legal one.
LEMMA IdleOK == Idle \in Request /\ RequestOK(Idle)
BY DEF Idle, Request, RequestOK

\* Replacing one request by a legal one leaves all of them legal.
LEMMA OneRequest ==
    ASSUME Typed, NEW p \in Procs, NEW r \in Request, RequestOK(r),
           req' = [req EXCEPT ![p] = r]
    PROVE  req' \in [Procs -> Request] /\ \A q \in Procs : RequestOK(req'[q])
BY DEF Typed, TypeOK

\* A request that returns leaves all of them legal.
LEMMA ReturnOK ==
    ASSUME Typed, NEW p \in Procs, Return(p)
    PROVE  req' \in [Procs -> Request] /\ \A q \in Procs : RequestOK(req'[q])
BY OneRequest, IdleOK DEF Return

-----------------------------------------------------------------------------
(* Typing *)

Steps == {"idle", "lock"} \cup AdminSteps \cup BuildSteps

\* A request is a record of its fields.
LEMMA Fields ==
    ASSUME Typed, NEW p \in Procs
    PROVE  /\ req[p] \in Request
           /\ RequestOK(req[p])
           /\ req[p].pos \in Nat
           /\ req[p].todo \subseteq Agents
           /\ req[p].agent \in Agents \cup {None}
           /\ req[p].conf \in Configs \cup {None}
           /\ req[p].snap \subseteq Agents \X Configs
           /\ req[p].op \in {"none", "create", "update", "delete", "run"}
BY DEF Typed, TypeOK, Request

\* Going on to another call is legal if the request may be at that call.
LEMMA GotoOK ==
    ASSUME Typed, NEW p \in Procs, NEW step \in Steps, Goto(p, step),
           RequestOK([req[p] EXCEPT !.pc = step])
    PROVE  req' \in [Procs -> Request] /\ \A q \in Procs : RequestOK(req'[q])
<1>1. [req[p] EXCEPT !.pc = step] \in Request
  BY Fields DEF Request, Steps
<1>2. req' = [req EXCEPT ![p] = [req[p] EXCEPT !.pc = step]]
  BY DEF Goto
<1>3. QED
  BY <1>1, <1>2, OneRequest

\* An exception leaves the requests legal and unannounced a set of agents.
LEMMA RaiseOK ==
    ASSUME Typed, NEW p \in Procs, Raise(p), req[p].pc # "idle"
    PROVE  /\ req' \in [Procs -> Request]
           /\ \A q \in Procs : RequestOK(req'[q])
           /\ unannounced' \subseteq Agents
BY ReturnOK, Fields DEF Raise, RequestOK, Typed, TypeOK

\* The lemmas that follow, one for each action: a step keeps every variable in
\* its type and every request legal.
LEMMA RejectRefOK ==
    ASSUME Typed, NEW p \in Procs, RejectRef(p)
    PROVE  Typed'
BY ReturnOK DEF RejectRef, Typed, TypeOK

\* Typing of AcceptRef.
LEMMA AcceptRefOK ==
    ASSUME Typed, NEW p \in Procs, AcceptRef(p)
    PROVE  Typed'
<1> DEFINE n == req[p].pos + 1
           step == AfterRefs(req[p].op, req[p].conf, n)
           r == [req[p] EXCEPT !.pos = n, !.pc = step]
<1>1. req' = [req EXCEPT ![p] = r]
  BY DEF AcceptRef
<1>2. step \in {"refs", "exists", "put"} /\ (step = "refs" => n <= Len(Refs[req[p].conf]))
  <2>1. req[p].pc = "refs"
    BY DEF AcceptRef
  <2>2. req[p].conf \in Configs /\ req[p].op \in {"create", "update"}
    BY <2>1, Fields DEF RequestOK
  <2>3. n \in Nat
    BY Fields
  <2>4. QED
    BY <2>2, <2>3, AfterRefsStep
<1>3. n \in Nat /\ step \in Steps
  BY Fields, <1>2 DEF Steps, AdminSteps
<1>4. r \in Request
  <2> HIDE DEF step, n
  <2> QED
    BY <1>3, Fields DEF Request, Steps
<1>5. RequestOK(r)
  BY <1>2, Fields DEF RequestOK, AcceptRef, Request
<1>6. QED
  BY <1>1, <1>4, <1>5, OneRequest DEF AcceptRef, Typed, TypeOK

\* Typing of CheckExists.
LEMMA CheckExistsOK ==
    ASSUME Typed, NEW p \in Procs, CheckExists(p)
    PROVE  Typed'
<1>1. CASE Return(p)
  BY <1>1, ReturnOK DEF CheckExists, Typed, TypeOK
<1>2. CASE Goto(p, "put")
  <2>1. RequestOK([req[p] EXCEPT !.pc = "put"])
    BY Fields DEF CheckExists, RequestOK, Request
  <2>2. QED
    BY <1>2, <2>1, GotoOK DEF CheckExists, Typed, TypeOK, Steps, AdminSteps, BuildSteps
<1>3. QED
  BY <1>1, <1>2 DEF CheckExists

\* Typing of Put.
LEMMA PutOK ==
    ASSUME Typed, NEW p \in Procs, Put(p)
    PROVE  Typed'
<1>1. Goto(p, "save") /\ RequestOK([req[p] EXCEPT !.pc = "save"])
  BY Fields DEF Put, RequestOK, Request
<1>2. yaml' \in [Agents -> Configs \cup {None}] /\ unannounced' \subseteq Agents
  BY Fields DEF Put, RequestOK, Typed, TypeOK
<1>3. QED
  BY <1>1, <1>2, GotoOK DEF Put, Typed, TypeOK, Steps, AdminSteps, BuildSteps

\* Typing of Save.
LEMMA SaveOK ==
    ASSUME Typed, NEW p \in Procs, Save(p)
    PROVE  Typed'
<1>1. PICK step \in {"insert", "modify"} : Goto(p, step)
  BY DEF Save
<1>2. RequestOK([req[p] EXCEPT !.pc = step])
  BY Fields DEF Save, RequestOK, Request
<1>3. QED
  BY <1>1, <1>2, GotoOK DEF Save, Typed, TypeOK, Steps, AdminSteps, BuildSteps

\* Typing of Commit.
LEMMA CommitOK ==
    ASSUME Typed, NEW p \in Procs, Commit(p)
    PROVE  Typed'
<1>1. row' \in [Agents -> Configs \cup {None}]
  BY Fields DEF Commit, WriteRow, RequestOK, Typed, TypeOK
<1>2. CASE Return(p)
  BY <1>1, <1>2, ReturnOK DEF Commit, Typed, TypeOK
<1>3. CASE Goto(p, "invalidate")
  <2>1. RequestOK([req[p] EXCEPT !.pc = "invalidate"])
    BY Fields DEF Commit, RequestOK, Request
  <2>2. QED
    BY <1>1, <1>3, <2>1, GotoOK DEF Commit, Typed, TypeOK, Steps, AdminSteps, BuildSteps
<1>4. QED
  BY <1>2, <1>3 DEF Commit

\* Typing of CommitRaises.
LEMMA CommitRaisesOK ==
    ASSUME Typed, NEW p \in Procs, CommitRaises(p)
    PROVE  Typed'
BY RaiseOK DEF CommitRaises, Typed, TypeOK

\* Typing of GetRow.
LEMMA GetRowOK ==
    ASSUME Typed, NEW p \in Procs, GetRow(p)
    PROVE  Typed'
<1>1. CASE Return(p)
  BY <1>1, ReturnOK DEF GetRow, Typed, TypeOK
<1>2. CASE Goto(p, "stat") /\ req[p].op = "delete"
  <2>1. RequestOK([req[p] EXCEPT !.pc = "stat"])
    BY <1>2, Fields DEF GetRow, RequestOK, Request
  <2>2. QED
    BY <1>2, <2>1, GotoOK DEF GetRow, Typed, TypeOK, Steps, AdminSteps, BuildSteps
<1>3. CASE /\ Goto(p, AfterRefs("update", req[p].conf, 1))
           /\ req[p].op # "delete"
  <2> DEFINE step == AfterRefs("update", req[p].conf, 1)
  <2>1. req[p].conf \in Configs /\ req[p].op = "update" /\ req[p].pos = 1
    BY <1>3, Fields DEF GetRow, RequestOK
  <2>2. step \in {"refs", "exists", "put"} /\ (step = "refs" => 1 <= Len(Refs[req[p].conf]))
    BY <2>1, AfterRefsStep
  <2> HIDE DEF step
  <2>3. RequestOK([req[p] EXCEPT !.pc = step])
    BY <2>1, <2>2, Fields DEF GetRow, RequestOK, Request
  <2>4. Goto(p, step) /\ step \in Steps
    BY <1>3, <2>2 DEF step, Steps, AdminSteps
  <2>5. QED
    BY <2>3, <2>4, GotoOK DEF GetRow, Typed, TypeOK
<1>4. QED
  BY <1>1, <1>2, <1>3 DEF GetRow

\* Typing of StatYaml.
LEMMA StatYamlOK ==
    ASSUME Typed, NEW p \in Procs, StatYaml(p)
    PROVE  Typed'
<1>1. CASE Return(p)
  BY <1>1, ReturnOK DEF StatYaml, Typed, TypeOK
<1>2. CASE Goto(p, "remove")
  <2>1. RequestOK([req[p] EXCEPT !.pc = "remove"])
    BY Fields DEF StatYaml, RequestOK, Request
  <2>2. QED
    BY <1>2, <2>1, GotoOK DEF StatYaml, Typed, TypeOK, Steps, AdminSteps, BuildSteps
<1>3. QED
  BY <1>1, <1>2 DEF StatYaml

\* Typing of RemoveYaml.
LEMMA RemoveYamlOK ==
    ASSUME Typed, NEW p \in Procs, RemoveYaml(p)
    PROVE  Typed'
<1>1. Goto(p, "rowget") /\ RequestOK([req[p] EXCEPT !.pc = "rowget"])
  BY Fields DEF RemoveYaml, RequestOK, Request
<1>2. yaml' \in [Agents -> Configs \cup {None}]
  BY DEF RemoveYaml, Typed, TypeOK
<1>3. QED
  BY <1>1, <1>2, GotoOK DEF RemoveYaml, Typed, TypeOK, Steps, AdminSteps, BuildSteps

\* Typing of SelectRow.
LEMMA SelectRowOK ==
    ASSUME Typed, NEW p \in Procs, SelectRow(p)
    PROVE  Typed'
<1>1. CASE Raise(p)
  BY <1>1, RaiseOK DEF SelectRow, Typed, TypeOK
<1>2. CASE Goto(p, "rowdel") /\ UNCHANGED unannounced
  <2>1. RequestOK([req[p] EXCEPT !.pc = "rowdel"])
    BY Fields DEF SelectRow, RequestOK, Request
  <2>2. QED
    BY <1>2, <2>1, GotoOK DEF SelectRow, Typed, TypeOK, Steps, AdminSteps, BuildSteps
<1>3. QED
  BY <1>1, <1>2 DEF SelectRow

\* Typing of DeleteRow.
LEMMA DeleteRowOK ==
    ASSUME Typed, NEW p \in Procs, DeleteRow(p)
    PROVE  Typed'
<1>1. Goto(p, "invalidate") /\ RequestOK([req[p] EXCEPT !.pc = "invalidate"])
  BY Fields DEF DeleteRow, RequestOK, Request
<1>2. row' \in [Agents -> Configs \cup {None}]
  BY DEF DeleteRow, Typed, TypeOK
<1>3. QED
  BY <1>1, <1>2, GotoOK DEF DeleteRow, Typed, TypeOK, Steps, AdminSteps, BuildSteps

\* Typing of Invalidate.
LEMMA InvalidateOK ==
    ASSUME Typed, NEW p \in Procs, Invalidate(p)
    PROVE  Typed'
<1>1. Goto(p, "list") /\ RequestOK([req[p] EXCEPT !.pc = "list"])
  BY Fields DEF Invalidate, RequestOK, Request
<1>2. runners' \in [Agents -> SUBSET (Agents \X Configs)]
  BY Fields DEF Invalidate, RequestOK, Typed, TypeOK, NoRunner
<1>3. QED
  BY <1>1, <1>2, GotoOK DEF Invalidate, Typed, TypeOK, Steps, AdminSteps, BuildSteps

\* Typing of ListYamls.
LEMMA ListYamlsOK ==
    ASSUME Typed, NEW p \in Procs, ListYamls(p)
    PROVE  Typed'
<1> DEFINE r == [req[p] EXCEPT !.pc = "scan",
                              !.todo = {a \in Agents : yaml[a] # None} \ {req[p].agent}]
<1>1. req' = [req EXCEPT ![p] = r]
  BY DEF ListYamls
<1>2. r \in Request
  BY Fields, ZenonT(30) DEF Request, ListYamls, AdminSteps
<1>3. RequestOK(r)
  BY Fields DEF RequestOK, Request, ListYamls
<1>4. QED
  BY <1>1, <1>2, <1>3, OneRequest DEF ListYamls, Typed, TypeOK, NoRunner

\* Typing of ScanYaml.
LEMMA ScanYamlOK ==
    ASSUME Typed, NEW p \in Procs, ScanYaml(p)
    PROVE  Typed'
<1>1. PICK b \in req[p].todo :
         \/ req' = [req EXCEPT ![p] = [req[p] EXCEPT !.pc = "dependent", !.dep = b,
                                                     !.todo = @ \ {b}]]
         \/ req' = [req EXCEPT ![p] = [req[p] EXCEPT !.todo = @ \ {b}]]
  BY DEF ScanYaml
<1> DEFINE r == [req[p] EXCEPT !.pc = "dependent", !.dep = b, !.todo = @ \ {b}]
           t == [req[p] EXCEPT !.todo = @ \ {b}]
<1>2. r \in Request /\ t \in Request
  <2>1. b \in Agents /\ req[p].todo \ {b} \subseteq Agents /\ req[p] \in Request
    BY Fields
  <2>2. t \in Request
    BY <2>1 DEF Request
  <2>3. r \in Request
    BY <2>1 DEF Request, AdminSteps
  <2>4. QED
    BY <2>2, <2>3
<1>3. RequestOK(r) /\ RequestOK(t)
  BY Fields DEF RequestOK, Request, ScanYaml
<1>4. QED
  BY <1>1, <1>2, <1>3, OneRequest DEF ScanYaml, Typed, TypeOK

\* Typing of InvalidateDependent.
LEMMA InvalidateDependentOK ==
    ASSUME Typed, NEW p \in Procs, InvalidateDependent(p)
    PROVE  Typed'
<1> DEFINE r == [req[p] EXCEPT !.pc = "scan", !.dep = None]
<1>1. req' = [req EXCEPT ![p] = r]
  BY DEF InvalidateDependent
<1>2. r \in Request
  BY Fields, ZenonT(30) DEF Request, InvalidateDependent, AdminSteps
<1>3. RequestOK(r)
  BY Fields DEF RequestOK, Request, InvalidateDependent
<1>4. QED
  BY <1>1, <1>2, <1>3, OneRequest DEF InvalidateDependent, Typed, TypeOK, NoRunner

\* Typing of ScanDone.
LEMMA ScanDoneOK ==
    ASSUME Typed, NEW p \in Procs, ScanDone(p)
    PROVE  Typed'
BY ReturnOK DEF ScanDone, Typed, TypeOK

\* Typing of AcquireLock.
LEMMA AcquireLockOK ==
    ASSUME Typed, NEW p \in Procs, AcquireLock(p)
    PROVE  Typed'
<1>1. CASE Return(p)
  BY <1>1, ReturnOK DEF AcquireLock, Typed, TypeOK
<1>2. CASE Goto(p, "own") /\ lock' = p
  <2>1. RequestOK([req[p] EXCEPT !.pc = "own"])
    BY Fields DEF AcquireLock, RequestOK, Request
  <2>2. QED
    BY <1>2, <2>1, GotoOK DEF AcquireLock, Typed, TypeOK, Steps, BuildSteps
<1>3. QED
  BY <1>1, <1>2 DEF AcquireLock

\* Typing of ReadOwnYaml.
LEMMA ReadOwnYamlOK ==
    ASSUME Typed, NEW p \in Procs, ReadOwnYaml(p)
    PROVE  Typed'
<1> DEFINE a == req[p].agent
           r == [req[p] EXCEPT !.pc = "build", !.conf = yaml[a], !.snap = {<<a, yaml[a]>>}]
<1>1. CASE yaml[a] = None
  BY <1>1, ReturnOK DEF ReadOwnYaml, FailBuild, Typed, TypeOK
<1>2. CASE yaml[a] # None
  <2>1. req' = [req EXCEPT ![p] = r]
    BY <1>2 DEF ReadOwnYaml
  <2>2. a \in Agents /\ yaml[a] \in Configs
    BY <1>2, Fields DEF ReadOwnYaml, RequestOK, Typed, TypeOK
  <2>3. r \in Request /\ RequestOK(r)
    <3> DEFINE y == yaml[a]
               t == {<<a, y>>}
    <3>1. y \in Configs /\ t \subseteq Agents \X Configs
      BY <2>2
    <3>2. <<a, y>> \in t /\ \A x \in t : x[1] = a
      OBVIOUS
    <3> HIDE DEF y, t
    <3>3. [req[p] EXCEPT !.pc = "build", !.conf = y, !.snap = t] \in Request
      BY <3>1, Fields DEF Request, BuildSteps
    <3>4. RequestOK([req[p] EXCEPT !.pc = "build", !.conf = y, !.snap = t])
      BY <3>1, <3>2, <2>2, Fields DEF RequestOK, Request, ReadOwnYaml
    <3>5. QED
      BY <3>3, <3>4 DEF y, t
  <2>5. QED
    BY <1>2, <2>1, <2>3, OneRequest DEF ReadOwnYaml, Typed, TypeOK
<1>3. QED
  BY <1>1, <1>2

\* Typing of ReadReferencedYaml.
LEMMA ReadReferencedYamlOK ==
    ASSUME Typed, NEW p \in Procs, ReadReferencedYaml(p)
    PROVE  Typed'
<1> DEFINE ref == Refs[req[p].conf][req[p].pos]
           r == [req[p] EXCEPT !.pos = @ + 1, !.snap = @ \cup {<<ref, yaml[ref]>>}]
<1>1. CASE yaml[ref] = None
  BY <1>1, ReturnOK DEF ReadReferencedYaml, FailBuild, Typed, TypeOK
<1>2. CASE yaml[ref] # None
  <2>1. req' = [req EXCEPT ![p] = r]
    BY <1>2 DEF ReadReferencedYaml
  <2>2. ref \in Agents /\ ref \in RefSet(req[p].conf)
    BY Fields, RefIsAgent DEF ReadReferencedYaml, RequestOK
  <2>3. yaml[ref] \in Configs
    BY <1>2, <2>2 DEF Typed, TypeOK
  <2>4. r \in Request
    <3> DEFINE t == req[p].snap \cup {<<ref, yaml[ref]>>}
               n == req[p].pos + 1
    <3>1. n \in Nat /\ t \subseteq Agents \X Configs
      BY <2>2, <2>3, Fields
    <3> HIDE DEF t, n
    <3>2. [req[p] EXCEPT !.pos = n, !.snap = t] \in Request
      BY <3>1, Fields DEF Request
    <3>3. QED
      BY <3>2 DEF t, n
  <2>5. RequestOK(r)
    <3> HIDE DEF ref
    <3> QED
      BY <2>2, <2>3, Fields, SMTT(30) DEF RequestOK, Request, ReadReferencedYaml
  <2>6. QED
    BY <1>2, <2>1, <2>4, <2>5, OneRequest DEF ReadReferencedYaml, Typed, TypeOK
<1>3. QED
  BY <1>1, <1>2

\* Typing of CacheRunner.
LEMMA CacheRunnerOK ==
    ASSUME Typed, NEW p \in Procs, CacheRunner(p)
    PROVE  Typed'
<1>1. runners' \in [Agents -> SUBSET (Agents \X Configs)]
  BY Fields DEF CacheRunner, Typed, TypeOK, RequestOK
<1>2. QED
  BY <1>1, ReturnOK DEF CacheRunner, Typed, TypeOK

\* Typing of AbortBuild.
LEMMA AbortBuildOK ==
    ASSUME Typed, NEW p \in Procs, AbortBuild(p)
    PROVE  Typed'
BY ReturnOK DEF AbortBuild, FailBuild, Typed, TypeOK

\* Typing of CallRaises.
LEMMA CallRaisesOK ==
    ASSUME Typed, NEW p \in Procs, CallRaises(p)
    PROVE  Typed'
BY RaiseOK DEF CallRaises, Typed, TypeOK, AdminSteps

\* Typing of AckLost.
LEMMA AckLostOK ==
    ASSUME Typed, NEW p \in Procs, AckLost(p)
    PROVE  Typed'
<1>1. row' \in [Agents -> Configs \cup {None}]
  BY Fields DEF AckLost, WriteRow, Typed, TypeOK, RequestOK
<1>2. QED
  BY <1>1, RaiseOK DEF AckLost, Typed, TypeOK

\* Typing of ListRaises.
LEMMA ListRaisesOK ==
    ASSUME Typed, NEW p \in Procs, ListRaises(p)
    PROVE  Typed'
BY ReturnOK, Fields DEF ListRaises, RequestOK, Typed, TypeOK

\* Typing of ScanRaises.
LEMMA ScanRaisesOK ==
    ASSUME Typed, NEW p \in Procs, ScanRaises(p)
    PROVE  Typed'
<1>1. PICK b \in req[p].todo : req' = [req EXCEPT ![p] = [req[p] EXCEPT !.todo = @ \ {b}]]
  BY DEF ScanRaises
<1> DEFINE r == [req[p] EXCEPT !.todo = @ \ {b}]
<1>2. r \in Request
  BY Fields DEF Request
<1>3. RequestOK(r)
  BY Fields DEF RequestOK, Request, ScanRaises
<1>4. QED
  BY <1>1, <1>2, <1>3, OneRequest, Fields DEF ScanRaises, Typed, TypeOK, RequestOK

\* The requests that start.
LEMMA StartOK ==
    ASSUME Typed, NEW p \in Procs, Starts(p)
    PROVE  Typed'
<1>1. CASE StartCreate(p)
  <2>1. PICK u \in Uploads :
          req' = [req EXCEPT ![p] = [Idle EXCEPT !.pc = AfterRefs("create", u[2], 1),
                                                 !.op = "create",
                                                 !.agent = u[1], !.conf = u[2]]]
    BY <1>1 DEF StartCreate
  <2> DEFINE step == AfterRefs("create", u[2], 1)
             r == [Idle EXCEPT !.pc = step, !.op = "create", !.agent = u[1], !.conf = u[2]]
  <2>2. u[1] \in Agents /\ u[2] \in Configs
    BY ConfigsAssumption
  <2>3. step \in {"refs", "exists", "put"} /\ (step = "refs" => 1 <= Len(Refs[u[2]]))
    BY <2>2, AfterRefsStep
  <2>4. r \in Request /\ RequestOK(r)
    <3> HIDE DEF step
    <3>1. r \in Request
      BY <2>2, <2>3 DEF Request, Idle, AdminSteps
    <3>2. RequestOK(r)
      BY <2>2, <2>3 DEF RequestOK, Idle
    <3>3. QED
      BY <3>1, <3>2
  <2>5. QED
    BY <1>1, <2>1, <2>4, OneRequest DEF StartCreate, Typed, TypeOK
<1>2. CASE StartUpdate(p)
  <2>1. PICK u \in Uploads :
          req' = [req EXCEPT ![p] = [Idle EXCEPT !.pc = "get", !.op = "update",
                                                 !.agent = u[1], !.conf = u[2]]]
    BY <1>2 DEF StartUpdate
  <2> DEFINE r == [Idle EXCEPT !.pc = "get", !.op = "update", !.agent = u[1], !.conf = u[2]]
  <2>2. u[1] \in Agents /\ u[2] \in Configs
    BY ConfigsAssumption
  <2>3. r \in Request /\ RequestOK(r)
    <3>1. r \in Request
      BY <2>2 DEF Request, Idle, AdminSteps
    <3>2. RequestOK(r)
      BY <2>2 DEF RequestOK, Idle
    <3>3. QED
      BY <3>1, <3>2
  <2>4. QED
    BY <1>2, <2>1, <2>3, OneRequest DEF StartUpdate, Typed, TypeOK
<1>3. CASE StartDelete(p)
  <2>1. PICK a \in Agents :
          req' = [req EXCEPT ![p] = [Idle EXCEPT !.pc = "get", !.op = "delete", !.agent = a]]
    BY <1>3 DEF StartDelete
  <2> DEFINE r == [Idle EXCEPT !.pc = "get", !.op = "delete", !.agent = a]
  <2>2. r \in Request /\ RequestOK(r)
    <3>1. r \in Request
      BY DEF Request, Idle, AdminSteps
    <3>2. RequestOK(r)
      BY DEF RequestOK, Idle
    <3>3. QED
      BY <3>1, <3>2
  <2>3. QED
    BY <1>3, <2>1, <2>2, OneRequest DEF StartDelete, Typed, TypeOK
<1>4. CASE StartGetRunner(p)
  <2>1. PICK a \in Threads :
          req' = [req EXCEPT ![p] = [Idle EXCEPT !.pc = "lock", !.op = "run", !.agent = a]]
    BY <1>4 DEF StartGetRunner
  <2> DEFINE r == [Idle EXCEPT !.pc = "lock", !.op = "run", !.agent = a]
  <2>2. r \in Request /\ RequestOK(r)
    <3>1. r \in Request
      BY ConfigsAssumption DEF Request, Idle
    <3>2. RequestOK(r)
      BY ConfigsAssumption DEF RequestOK, Idle
    <3>3. QED
      BY <3>1, <3>2
  <2>3. QED
    BY <1>4, <2>1, <2>2, OneRequest DEF StartGetRunner, Typed, TypeOK
<1>5. QED
  BY <1>1, <1>2, <1>3, <1>4 DEF Starts

\* The server starts with legal requests.
LEMMA TypedInit == Init => Typed
BY IdleOK DEF Init, Typed, TypeOK, NoRunner

\* Every step keeps the types.
LEMMA TypedNext == Typed /\ [Next]_vars => Typed'
<1> SUFFICES ASSUME Typed, [Next]_vars PROVE Typed'
  OBVIOUS
<1>1. ASSUME NEW p \in Procs, Starts(p)
      PROVE  Typed'
  BY <1>1, StartOK
<1>2. ASSUME NEW p \in Procs, TakeLock(p)
      PROVE  Typed'
  BY <1>2, InvalidateOK, InvalidateDependentOK, AcquireLockOK DEF TakeLock
<1>3. ASSUME NEW p \in Procs, Continue(p)
      PROVE  Typed'
  BY <1>3, RejectRefOK, AcceptRefOK, CheckExistsOK, PutOK, SaveOK, CommitOK,
     CommitRaisesOK, GetRowOK, StatYamlOK, RemoveYamlOK, SelectRowOK, DeleteRowOK,
     ListYamlsOK, ScanYamlOK, ScanDoneOK, ReadOwnYamlOK, ReadReferencedYamlOK,
     CacheRunnerOK, AbortBuildOK, CallRaisesOK, AckLostOK, ListRaisesOK, ScanRaisesOK
     DEF Continue
<1>4. CASE Restart
  BY <1>4, IdleOK DEF Restart, Typed, TypeOK, NoRunner
<1>5. CASE UNCHANGED vars
  BY <1>5 DEF vars, Typed, TypeOK
<1>6. QED
  BY <1>1, <1>2, <1>3, <1>4, <1>5, NextActs DEF Acts

\* TypeCorrect: whatever the agents, documents and requests, every variable
\* keeps its type; in particular no request ever reads the references of an
\* absent document or builds a runner from one.
THEOREM TypeCorrect == Spec => []TypeOK
<1>1. Typed => TypeOK
  BY DEF Typed
<1>2. QED
  BY <1>1, TypedInit, TypedNext, PTL DEF Spec

-----------------------------------------------------------------------------
(* The registry lock *)

\* Nobody holds the lock at the start.
LEMMA LockInit == Init => LockHeldByBuilder
BY ConfigsAssumption DEF Init, LockHeldByBuilder, Idle, BuildSteps

\* A step of one request that leaves the lock alone and neither enters nor
\* leaves a build, or takes the free lock as it enters one, or releases its
\* lock as it leaves one, keeps the lock where it belongs.
LEMMA LockStep ==
    ASSUME Typed, LockHeldByBuilder, NEW p \in Procs,
           req' \in [Procs -> Request],
           \A q \in Procs \ {p} : req'[q] = req[q],
           \/ lock' = lock /\ (req[p].pc \in BuildSteps <=> req'[p].pc \in BuildSteps)
           \/ lock = None /\ lock' = p /\ req'[p].pc \in BuildSteps
           \/ req[p].pc \in BuildSteps /\ lock' = None /\ req'[p].pc \notin BuildSteps
    PROVE  LockHeldByBuilder'
BY ConfigsAssumption DEF LockHeldByBuilder, Typed, TypeOK

\* A step of p changes the request p only.
LEMMA OthersWait ==
    ASSUME Typed, NEW p \in Procs, Acts(p)
    PROVE  \A q \in Procs \ {p} : req'[q] = req[q]
<1> USE DEF Typed, TypeOK, Return, Goto, Raise, FailBuild
<1>1. CASE StartCreate(p)
  BY <1>1 DEF StartCreate
<1>2. CASE StartUpdate(p) \/ StartDelete(p) \/ StartGetRunner(p)
  BY <1>2 DEF StartUpdate, StartDelete, StartGetRunner
<1>3. CASE TakeLock(p)
  BY <1>3 DEF TakeLock, Invalidate, InvalidateDependent, AcquireLock
<1>4. CASE RejectRef(p) \/ AcceptRef(p) \/ CheckExists(p) \/ Put(p)
  BY <1>4 DEF RejectRef, AcceptRef, CheckExists, Put
<1>5. CASE Save(p) \/ Commit(p) \/ CommitRaises(p) \/ GetRow(p) \/ StatYaml(p)
  BY <1>5 DEF Save, Commit, CommitRaises, GetRow, StatYaml
<1>6. CASE \/ RemoveYaml(p) \/ SelectRow(p) \/ DeleteRow(p)
           \/ ListYamls(p) \/ ScanYaml(p) \/ ScanDone(p)
  BY <1>6 DEF RemoveYaml, SelectRow, DeleteRow, ListYamls, ScanYaml, ScanDone
<1>7. CASE ReadOwnYaml(p) \/ ReadReferencedYaml(p) \/ CacheRunner(p) \/ AbortBuild(p)
  BY <1>7 DEF ReadOwnYaml, ReadReferencedYaml, CacheRunner, AbortBuild
<1>8. CASE CallRaises(p) \/ AckLost(p) \/ ListRaises(p) \/ ScanRaises(p)
  BY <1>8 DEF CallRaises, AckLost, ListRaises, ScanRaises
<1>9. QED
  BY <1>1, <1>2, <1>3, <1>4, <1>5, <1>6, <1>7, <1>8 DEF Acts, Starts, Continue

\* Where the step of a request takes it, and what it does to the lock.
LEMMA LockMoves ==
    ASSUME Typed, NEW p \in Procs, Acts(p)
    PROVE  \/ lock' = lock /\ (req[p].pc \in BuildSteps <=> req'[p].pc \in BuildSteps)
           \/ lock = None /\ lock' = p /\ req'[p].pc \in BuildSteps
           \/ req[p].pc \in BuildSteps /\ lock' = None /\ req'[p].pc \notin BuildSteps
<1>0. /\ Return(p) => req'[p].pc = "idle"
      /\ \A s : Goto(p, s) => req'[p].pc = s
  BY Fields DEF Return, Goto, Idle, Typed, TypeOK, Request
<1> USE <1>0 DEF Typed, TypeOK, BuildSteps, Raise, FailBuild
<1>1. CASE StartCreate(p)
  <2>1. req'[p].pc \in {"refs", "exists", "put"}
    <3>1. PICK u \in Uploads :
            req' = [req EXCEPT ![p] = [Idle EXCEPT !.pc = AfterRefs("create", u[2], 1),
                                                   !.op = "create",
                                                   !.agent = u[1], !.conf = u[2]]]
      BY <1>1 DEF StartCreate
    <3>2. req'[p].pc = AfterRefs("create", u[2], 1)
      BY <3>1 DEF Idle
    <3>3. QED
      BY <3>2 DEF AfterRefs
  <2>2. QED
    BY <1>1, <2>1 DEF StartCreate
<1>2. CASE StartUpdate(p) \/ StartDelete(p) \/ StartGetRunner(p)
  BY <1>2, ZenonT(30) DEF StartUpdate, StartDelete, StartGetRunner, Idle
<1>3. CASE TakeLock(p)
  <2>1. CASE Invalidate(p) \/ AcquireLock(p)
    BY <2>1 DEF Invalidate, AcquireLock
  <2>2. CASE InvalidateDependent(p)
    BY <2>2, Fields DEF InvalidateDependent, Request
  <2>3. QED
    BY <1>3, <2>1, <2>2 DEF TakeLock
<1>4. CASE RejectRef(p) \/ CheckExists(p) \/ Put(p)
  BY <1>4 DEF RejectRef, CheckExists, Put
<1>5. CASE AcceptRef(p)
  <2>1. req'[p].pc = AfterRefs(req[p].op, req[p].conf, req[p].pos + 1)
    BY <1>5, Fields DEF AcceptRef, Request
  <2>2. QED
    BY <1>5, <2>1 DEF AcceptRef, AfterRefs
<1>6. CASE Save(p) \/ Commit(p) \/ CommitRaises(p) \/ StatYaml(p)
  BY <1>6 DEF Save, Commit, CommitRaises, StatYaml
<1>7. CASE GetRow(p)
  BY <1>7 DEF GetRow, AfterRefs
<1>8. CASE RemoveYaml(p) \/ SelectRow(p) \/ DeleteRow(p) \/ ScanDone(p)
  BY <1>8 DEF RemoveYaml, SelectRow, DeleteRow, ScanDone
<1>9. CASE ListYamls(p)
  BY <1>9, Fields DEF ListYamls, Request
<1>10. CASE ScanYaml(p)
  BY <1>10, Fields DEF ScanYaml, Request
<1>11. CASE ReadOwnYaml(p)
  BY <1>11, Fields DEF ReadOwnYaml, Request
<1>12. CASE ReadReferencedYaml(p)
  BY <1>12, Fields DEF ReadReferencedYaml, Request
<1>13. CASE CacheRunner(p) \/ AbortBuild(p)
  BY <1>13 DEF CacheRunner, AbortBuild
<1>14. CASE CallRaises(p) \/ AckLost(p) \/ ListRaises(p)
  BY <1>14 DEF CallRaises, AckLost, ListRaises, AdminSteps
<1>15. CASE ScanRaises(p)
  BY <1>15, Fields DEF ScanRaises, Request
<1>16. QED
  BY <1>1, <1>2, <1>3, <1>4, <1>5, <1>6, <1>7, <1>8, <1>9, <1>10, <1>11, <1>12, <1>13,
     <1>14, <1>15 DEF Acts, Starts, Continue

\* Every step keeps the lock where it belongs.
LEMMA LockNext == Typed /\ LockHeldByBuilder /\ [Next]_vars => LockHeldByBuilder'
<1> SUFFICES ASSUME Typed, LockHeldByBuilder, [Next]_vars PROVE LockHeldByBuilder'
  OBVIOUS
<1>1. req' \in [Procs -> Request]
  BY TypedNext DEF Typed, TypeOK
<1>2. ASSUME NEW p \in Procs, Acts(p)
      PROVE  LockHeldByBuilder'
  BY <1>1, <1>2, OthersWait, LockMoves, LockStep
<1>3. CASE Restart
  BY <1>3, ConfigsAssumption DEF Restart, LockHeldByBuilder, Idle, BuildSteps
<1>4. CASE UNCHANGED vars
  BY <1>4 DEF vars, LockHeldByBuilder
<1>5. QED
  BY <1>2, <1>3, <1>4, NextActs

-----------------------------------------------------------------------------
(* Coherence of the cache *)

\* A runner of b, cached or being built, holds the document c of d.
Holds(b, d, c) ==
    \/ <<d, c>> \in runners[b]
    \/ \E q \in Procs : req[q].pc \in BuildSteps /\ req[q].agent = b /\ <<d, c>> \in req[q].snap

\* The request p has still to drop a runner of b that holds a document of d.
Owes(p, b, d) == WillInvalidate(p, b) \/ WillScan(p, b, d)

Coherent ==
    \A b, d \in Agents : \A c \in Configs :
        Holds(b, d, c) => yaml[d] = c \/ MayBeOld(b, d)

\* Every cached runner was built from a document of its own agent.
RunnersBuilt == \A b \in Agents : runners[b] = NoRunner \/ BuiltFrom(b, runners[b])

\* CacheCoherence, one document at a time.
LEMMA CoherentIsCacheCoherence ==
    ASSUME Typed PROVE Coherent <=> CacheCoherence
<1>1. \A b \in Agents : \A x \in runners[b] :
         x = <<x[1], x[2]>> /\ x[1] \in Agents /\ x[2] \in Configs
  BY DEF Typed, TypeOK
<1>2. \A q \in Procs : \A x \in req[q].snap :
         x = <<x[1], x[2]>> /\ x[1] \in Agents /\ x[2] \in Configs
  BY Fields
<1>3. \A q \in Procs : req[q].pc \in BuildSteps => req[q].agent \in Agents
  BY Fields DEF RequestOK, BuildSteps
<1>4. ASSUME Coherent PROVE CacheCoherence
  <2>1. ASSUME NEW b \in Agents PROVE UpToDate(b, runners[b])
    BY <1>1, <1>4 DEF Coherent, Holds, UpToDate
  <2>2. ASSUME NEW q \in Procs, req[q].pc \in BuildSteps
        PROVE  UpToDate(req[q].agent, req[q].snap)
    BY <1>2, <1>3, <1>4, <2>2 DEF Coherent, Holds, UpToDate
  <2>3. QED
    BY <2>1, <2>2 DEF CacheCoherence
<1>5. ASSUME CacheCoherence PROVE Coherent
  <2> SUFFICES ASSUME NEW b \in Agents, NEW d \in Agents, NEW c \in Configs, Holds(b, d, c)
               PROVE  yaml[d] = c \/ MayBeOld(b, d)
    BY DEF Coherent
  <2>1. CASE <<d, c>> \in runners[b]
    BY <1>5, <2>1 DEF CacheCoherence, UpToDate
  <2>2. CASE \E q \in Procs : /\ req[q].pc \in BuildSteps
                              /\ req[q].agent = b /\ <<d, c>> \in req[q].snap
    BY <1>5, <2>2 DEF CacheCoherence, UpToDate
  <2>3. QED
    BY <2>1, <2>2 DEF Holds
<1>6. QED
  BY <1>4, <1>5

\* A runner that holds another agent's document holds a document of its own
\* agent that references the other.
LEMMA OwnDocument ==
    ASSUME Typed, RunnersBuilt, NEW b \in Agents, NEW d \in Agents, NEW c \in Configs,
           Holds(b, d, c), b # d
    PROVE  \E o \in Configs : Holds(b, b, o) /\ d \in RefSet(o)
<1>1. CASE <<d, c>> \in runners[b]
  <2>1. BuiltFrom(b, runners[b])
    BY <1>1 DEF RunnersBuilt, NoRunner
  <2>2. PICK o \in Configs : <<b, o>> \in runners[b]
                             /\ (\A x \in runners[b] : x[1] = b \/ x[1] \in RefSet(o))
    BY <2>1 DEF BuiltFrom
  <2>3. <<d, c>>[1] = b \/ <<d, c>>[1] \in RefSet(o)
    BY <1>1, <2>2
  <2>4. QED
    BY <2>2, <2>3 DEF Holds
<1>2. CASE \E q \in Procs : /\ req[q].pc \in BuildSteps
                            /\ req[q].agent = b /\ <<d, c>> \in req[q].snap
  <2>1. PICK q \in Procs : /\ req[q].pc \in BuildSteps
                           /\ req[q].agent = b /\ <<d, c>> \in req[q].snap
    BY <1>2
  <2>2. req[q].pc = "build"
    BY <2>1, Fields DEF BuildSteps, RequestOK
  <2>3. /\ req[q].conf \in Configs
        /\ <<b, req[q].conf>> \in req[q].snap
        /\ \A x \in req[q].snap : x[1] = b \/ x[1] \in RefSet(req[q].conf)
    BY <2>1, <2>2, Fields DEF RequestOK
  <2>4. <<d, c>>[1] = b \/ <<d, c>>[1] \in RefSet(req[q].conf)
    BY <2>1, <2>3
  <2>5. QED
    BY <2>1, <2>3, <2>4 DEF Holds
<1>3. QED
  BY <1>1, <1>2 DEF Holds

\* When b has lost the document that made it a dependent of d, the change of
\* its own document is what drops its runner: the scan need not.
LEMMA OwnChangeCovers ==
    ASSUME Typed, RunnersBuilt, Coherent,
           NEW b \in Agents, NEW d \in Agents, NEW c \in Configs, Holds(b, d, c), b # d,
           yaml[b] = None \/ d \notin RefSet(yaml[b])
    PROVE  b \in unannounced \/ \E q \in Procs : WillInvalidate(q, b)
<1>1. PICK o \in Configs : Holds(b, b, o) /\ d \in RefSet(o)
  BY OwnDocument
<1>2. yaml[b] # o
  BY <1>1, ConfigsAssumption
<1>3. MayBeOld(b, b)
  BY <1>1, <1>2 DEF Coherent
<1>4. QED
  BY <1>3 DEF MayBeOld, WillScan

\* A step keeps the cache coherent if what a runner newly holds is what is
\* stored, if whoever holds a document that the step replaces will be dropped,
\* and if a runner that was going to be dropped still is, or holds it no more.
LEMMA CoherentStep ==
    ASSUME Coherent,
           \A b, d \in Agents : \A c \in Configs :
              Holds(b, d, c)' =>
                 /\ Holds(b, d, c) \/ yaml'[d] = c
                 /\ yaml[d] = c => yaml'[d] = c \/ MayBeOld(b, d)'
                 /\ MayBeOld(b, d) /\ Holds(b, d, c) => MayBeOld(b, d)'
    PROVE  Coherent'
BY DEF Coherent

\* The requests that owe an invalidation before a step of p owe it after.
LEMMA StillOwed ==
    ASSUME NEW p \in Procs, \A q \in Procs \ {p} : req'[q] = req[q],
           unannounced \subseteq unannounced',
           NEW b \in Agents, NEW d \in Agents,
           Owes(p, b, d) => Owes(p, b, d)' \/ b \in unannounced' \/ d \in unannounced',
           MayBeOld(b, d)
    PROVE  MayBeOld(b, d)'
<1>1. CASE b \in unannounced \/ d \in unannounced
  BY <1>1 DEF MayBeOld
<1>2. ASSUME NEW q \in Procs, Owes(q, b, d)
      PROVE  MayBeOld(b, d)'
  <2>1. CASE q = p
    BY <1>2, <2>1 DEF MayBeOld, Owes
  <2>2. CASE q # p
    <3>1. Owes(q, b, d)'
      BY <1>2, <2>2 DEF Owes, WillInvalidate, WillScan, ChangedYaml
    <3>2. QED
      BY <3>1 DEF MayBeOld, Owes
  <2>3. QED
    BY <2>1, <2>2
<1>3. QED
  BY <1>1, <1>2 DEF MayBeOld, Owes

\* A step of p that leaves the cache alone, and leaves p outside a build or
\* with what it had read, gives nobody a new document.
LEMMA HoldsNothingNew ==
    ASSUME NEW p \in Procs, \A q \in Procs \ {p} : req'[q] = req[q],
           \A b \in Agents : runners'[b] \subseteq runners[b],
           req'[p].pc \in BuildSteps => req'[p].snap = {},
           NEW b \in Agents, NEW d \in Agents, NEW c \in Configs, Holds(b, d, c)'
    PROVE  Holds(b, d, c)
BY DEF Holds

\* The common case: nothing is stored, cached or read.
LEMMA Quiet ==
    ASSUME Coherent, NEW p \in Procs, \A q \in Procs \ {p} : req'[q] = req[q],
           yaml' = yaml, runners' = runners, unannounced \subseteq unannounced',
           req'[p].pc \in BuildSteps => req'[p].snap = {},
           \A b, d \in Agents :
              Owes(p, b, d) => Owes(p, b, d)' \/ b \in unannounced' \/ d \in unannounced'
    PROVE  Coherent'
<1> SUFFICES ASSUME NEW b \in Agents, NEW d \in Agents, NEW c \in Configs, Holds(b, d, c)'
             PROVE  /\ Holds(b, d, c)
                    /\ MayBeOld(b, d) => MayBeOld(b, d)'
  BY CoherentStep
<1>1. Holds(b, d, c)
  BY HoldsNothingNew
<1>2. MayBeOld(b, d) => MayBeOld(b, d)'
  BY StillOwed
<1>3. QED
  BY <1>1, <1>2

\* Going on to another call changes pc and nothing else that matters here.
LEMMA GotoFields ==
    ASSUME Typed, NEW p \in Procs, NEW step, Goto(p, step)
    PROVE  /\ req'[p].pc = step
           /\ req'[p].op = req[p].op
           /\ req'[p].agent = req[p].agent
           /\ req'[p].todo = req[p].todo
           /\ req'[p].dep = req[p].dep
           /\ req'[p].snap = req[p].snap
BY Fields DEF Goto, Request, Typed, TypeOK

\* A request that has returned is idle.
LEMMA ReturnFields ==
    ASSUME Typed, NEW p \in Procs, Return(p)
    PROVE  req'[p] = Idle /\ req'[p].pc = "idle"
BY DEF Return, Idle, Typed, TypeOK

\* A request whose step is not one of these owes nothing.
LEMMA OwesWhen ==
    ASSUME NEW p \in Procs, NEW b, NEW d, Owes(p, b, d)
    PROVE  /\ \/ ChangedYaml(p)
              \/ req[p].pc \in {"invalidate", "list", "scan", "dependent"}
           /\ req[p].agent \in {b, d}
BY DEF Owes, WillInvalidate, WillScan

\* A request that raises leaves what it owed to unannounced.
LEMMA RaiseCoherent ==
    ASSUME Typed, Coherent, NEW p \in Procs, \A q \in Procs \ {p} : req'[q] = req[q], Raise(p),
           req[p].pc \notin {"invalidate", "list", "scan", "dependent"},
           yaml' = yaml, runners' = runners
    PROVE  Coherent'
<1>1. req'[p].pc \notin BuildSteps
  BY ReturnFields DEF Raise, BuildSteps
<1>2. unannounced \subseteq unannounced'
  BY DEF Raise
<1>3. ASSUME NEW b \in Agents, NEW d \in Agents, Owes(p, b, d)
      PROVE  b \in unannounced' \/ d \in unannounced'
  BY <1>3, OwesWhen DEF Raise
<1>4. QED
  BY <1>1, <1>2, <1>3, Quiet

\* A request that returns without having changed a document owes nothing.
LEMMA ReturnCoherent ==
    ASSUME Typed, Coherent, NEW p \in Procs, \A q \in Procs \ {p} : req'[q] = req[q], Return(p),
           ~ChangedYaml(p),
           req[p].pc \notin {"invalidate", "list", "scan", "dependent"},
           yaml' = yaml, runners' = runners, unannounced' = unannounced
    PROVE  Coherent'
<1>1. req'[p].pc \notin BuildSteps
  BY ReturnFields DEF BuildSteps
<1>2. ASSUME NEW b \in Agents, NEW d \in Agents
      PROVE  ~Owes(p, b, d)
  BY OwesWhen
<1>3. QED
  BY <1>1, <1>2, Quiet

\* A request that goes on from one call before its invalidation to another.
LEMMA GotoCoherent ==
    ASSUME Typed, Coherent, NEW p \in Procs, \A q \in Procs \ {p} : req'[q] = req[q],
           NEW step, Goto(p, step), step \notin BuildSteps,
           req[p].pc \notin {"invalidate", "list", "scan", "dependent"},
           ChangedYaml(p) => ChangedYaml(p)' \/ step = "invalidate",
           yaml' = yaml, runners' = runners, unannounced' = unannounced
    PROVE  Coherent'
<1>1. req'[p].pc = step /\ req'[p].agent = req[p].agent
  BY GotoFields
<1>2. ASSUME NEW b \in Agents, NEW d \in Agents, Owes(p, b, d)
      PROVE  Owes(p, b, d)'
  BY <1>1, <1>2 DEF Owes, WillInvalidate, WillScan
<1>3. QED
  BY <1>1, <1>2, Quiet

-----------------------------------------------------------------------------
(* Coherence of the cache, step by step *)

\* A request that starts has changed nothing.
LEMMA StartCoherent ==
    ASSUME Typed, Coherent, NEW p \in Procs, \A q \in Procs \ {p} : req'[q] = req[q],
           Starts(p)
    PROVE  Coherent'
<1>1. req[p].pc = "idle"
  BY DEF Starts, StartCreate, StartUpdate, StartDelete, StartGetRunner
<1>2. ASSUME NEW b \in Agents, NEW d \in Agents
      PROVE  ~Owes(p, b, d)
  BY <1>1, OwesWhen DEF ChangedYaml
<1>3. req'[p].pc \notin BuildSteps
  <2>1. CASE StartCreate(p)
    <3>1. PICK u \in Uploads :
            req' = [req EXCEPT ![p] = [Idle EXCEPT !.pc = AfterRefs("create", u[2], 1),
                                                   !.op = "create",
                                                   !.agent = u[1], !.conf = u[2]]]
      BY <2>1 DEF StartCreate
    <3>2. req'[p].pc = AfterRefs("create", u[2], 1)
      BY <3>1 DEF Idle, Typed, TypeOK
    <3>3. QED
      BY <3>2 DEF AfterRefs, BuildSteps
  <2>2. CASE StartUpdate(p)
    BY <2>2 DEF StartUpdate, Idle, BuildSteps, Typed, TypeOK
  <2>3. CASE StartDelete(p)
    BY <2>3 DEF StartDelete, Idle, BuildSteps, Typed, TypeOK
  <2>4. CASE StartGetRunner(p)
    BY <2>4 DEF StartGetRunner, Idle, BuildSteps, Typed, TypeOK
  <2>5. QED
    BY <2>1, <2>2, <2>3, <2>4 DEF Starts
<1>4. yaml' = yaml /\ runners' = runners /\ unannounced' = unannounced
  BY DEF Starts, StartCreate, StartUpdate, StartDelete, StartGetRunner
<1>5. QED
  BY <1>2, <1>3, <1>4, Quiet

\* The calls of the use cases before store.put and store.delete.
LEMMA ChecksCoherent ==
    ASSUME Typed, Coherent, NEW p \in Procs, \A q \in Procs \ {p} : req'[q] = req[q],
           RejectRef(p) \/ AcceptRef(p) \/ CheckExists(p) \/ GetRow(p) \/ StatYaml(p)
    PROVE  Coherent'
<1>1. /\ req[p].pc \in {"refs", "exists", "get", "stat"}
      /\ yaml' = yaml /\ runners' = runners /\ unannounced' = unannounced
  BY DEF RejectRef, AcceptRef, CheckExists, GetRow, StatYaml
<1>2. ASSUME NEW b \in Agents, NEW d \in Agents
      PROVE  ~Owes(p, b, d)
  BY <1>1, OwesWhen DEF ChangedYaml
<1>3. req'[p].pc \notin BuildSteps
  <2>1. CASE RejectRef(p)
    BY <2>1, ReturnFields DEF RejectRef, BuildSteps
  <2>2. CASE AcceptRef(p)
    <3>1. req'[p].pc = AfterRefs(req[p].op, req[p].conf, req[p].pos + 1)
      BY <2>2, Fields DEF AcceptRef, Request, Typed, TypeOK
    <3>2. QED
      BY <3>1 DEF AfterRefs, BuildSteps
  <2>3. CASE CheckExists(p)
    BY <2>3, ReturnFields, GotoFields DEF CheckExists, BuildSteps
  <2>4. CASE GetRow(p)
    BY <2>4, ReturnFields, GotoFields DEF GetRow, AfterRefs, BuildSteps
  <2>5. CASE StatYaml(p)
    BY <2>5, ReturnFields, GotoFields DEF StatYaml, BuildSteps
  <2>6. QED
    BY <2>1, <2>2, <2>3, <2>4, <2>5
<1>4. QED
  BY <1>1, <1>2, <1>3, Quiet

\* The calls of the use cases on the row.
LEMMA RowCoherent ==
    ASSUME Typed, Coherent, NEW p \in Procs, \A q \in Procs \ {p} : req'[q] = req[q],
           Save(p) \/ Commit(p) \/ CommitRaises(p) \/ SelectRow(p) \/ DeleteRow(p)
    PROVE  Coherent'
<1>1. CASE Save(p)
  <2>1. PICK step \in {"insert", "modify"} : Goto(p, step)
    BY <1>1 DEF Save
  <2>2. ChangedYaml(p) => ChangedYaml(p)'
    BY <2>1, <1>1, GotoFields DEF Save, ChangedYaml
  <2>3. QED
    BY <1>1, <2>1, <2>2, GotoCoherent DEF Save, BuildSteps
<1>2. CASE Commit(p) /\ req[p].op = "create"
  BY <1>2, ReturnCoherent DEF Commit, ChangedYaml
<1>3. CASE Commit(p) /\ req[p].op # "create"
  BY <1>3, GotoCoherent DEF Commit, BuildSteps
<1>4. CASE CommitRaises(p)
  BY <1>4, RaiseCoherent DEF CommitRaises
<1>5. CASE SelectRow(p) /\ Raise(p)
  BY <1>5, RaiseCoherent DEF SelectRow
<1>6. CASE SelectRow(p) /\ Goto(p, "rowdel") /\ UNCHANGED unannounced
  <2>1. ChangedYaml(p) => ChangedYaml(p)'
    BY <1>6, GotoFields DEF SelectRow, ChangedYaml
  <2>2. QED
    BY <1>6, <2>1, GotoCoherent DEF SelectRow, BuildSteps
<1>7. CASE DeleteRow(p)
  BY <1>7, GotoCoherent DEF DeleteRow, BuildSteps
<1>8. QED
  BY <1>1, <1>2, <1>3, <1>4, <1>5, <1>6, <1>7 DEF SelectRow

\* A document is replaced: by an update, which will invalidate its agent and
\* scan for dependents, or by a create, which will not and is recorded.
LEMMA PutCoherent ==
    ASSUME Typed, Coherent, NEW p \in Procs, \A q \in Procs \ {p} : req'[q] = req[q],
           Put(p)
    PROVE  Coherent'
<1> DEFINE a == req[p].agent
<1>1. /\ req'[p].pc = "save" /\ req'[p].op = req[p].op /\ req'[p].agent = a
      /\ runners' = runners /\ unannounced \subseteq unannounced'
  BY GotoFields DEF Put
<1>2. a \in Agents /\ req[p].op \in {"create", "update"} /\ yaml \in [Agents -> Configs \cup {None}]
  BY Fields DEF Put, RequestOK, Typed, TypeOK
<1>3. \A d \in Agents : d # a => yaml'[d] = yaml[d]
  BY <1>2 DEF Put
<1> SUFFICES ASSUME NEW b \in Agents, NEW d \in Agents, NEW c \in Configs, Holds(b, d, c)'
             PROVE  /\ Holds(b, d, c)
                    /\ yaml[d] = c => yaml'[d] = c \/ MayBeOld(b, d)'
                    /\ MayBeOld(b, d) => MayBeOld(b, d)'
  BY CoherentStep
<1>4. Holds(b, d, c)
  BY <1>1, HoldsNothingNew DEF BuildSteps
<1>5. MayBeOld(b, d) => MayBeOld(b, d)'
  <2>1. ~Owes(p, b, d)
    BY OwesWhen DEF Put, ChangedYaml
  <2>2. QED
    BY <1>1, <2>1, StillOwed
<1>6. ASSUME yaml[d] = c, d = a PROVE MayBeOld(b, d)'
  <2>1. CASE req[p].op = "create"
    <3>1. yaml[a] # None
      BY <1>6, ConfigsAssumption
    <3>2. QED
      BY <1>6, <2>1, <3>1 DEF Put, MayBeOld
  <2>2. CASE req[p].op = "update"
    <3>1. WillInvalidate(p, b)' \/ WillScan(p, b, d)'
      BY <1>1, <1>6, <2>2 DEF WillInvalidate, WillScan, ChangedYaml
    <3>2. QED
      BY <3>1 DEF MayBeOld
  <2>3. QED
    BY <1>2, <2>1, <2>2
<1>7. QED
  BY <1>3, <1>4, <1>5, <1>6

\* A document is deleted: its agent will be invalidated.
LEMMA RemoveYamlCoherent ==
    ASSUME Typed, Coherent, NEW p \in Procs, \A q \in Procs \ {p} : req'[q] = req[q],
           RemoveYaml(p)
    PROVE  Coherent'
<1> DEFINE a == req[p].agent
<1>1. /\ req'[p].pc = "rowget" /\ req'[p].op = "delete" /\ req'[p].agent = a
      /\ runners' = runners /\ unannounced' = unannounced
  BY GotoFields, Fields DEF RemoveYaml, RequestOK
<1>2. a \in Agents /\ yaml \in [Agents -> Configs \cup {None}]
  BY Fields DEF RemoveYaml, RequestOK, Typed, TypeOK
<1>3. \A d \in Agents : d # a => yaml'[d] = yaml[d]
  BY <1>2 DEF RemoveYaml
<1> SUFFICES ASSUME NEW b \in Agents, NEW d \in Agents, NEW c \in Configs, Holds(b, d, c)'
             PROVE  /\ Holds(b, d, c)
                    /\ yaml[d] = c => yaml'[d] = c \/ MayBeOld(b, d)'
                    /\ MayBeOld(b, d) => MayBeOld(b, d)'
  BY CoherentStep
<1>4. Holds(b, d, c)
  BY <1>1, HoldsNothingNew DEF BuildSteps
<1>5. MayBeOld(b, d) => MayBeOld(b, d)'
  <2>1. ~Owes(p, b, d)
    BY OwesWhen DEF RemoveYaml, ChangedYaml
  <2>2. QED
    BY <1>1, <2>1, StillOwed
<1>6. ASSUME d = a PROVE MayBeOld(b, d)'
  <2>1. WillInvalidate(p, b)' \/ WillScan(p, b, d)'
    BY <1>1, <1>6 DEF WillInvalidate, WillScan, ChangedYaml
  <2>2. QED
    BY <2>1 DEF MayBeOld
<1>7. QED
  BY <1>3, <1>4, <1>5, <1>6

\* The lock is free, so nobody builds, and the runner of b goes away: what is
\* owed to b no longer matters.
LEMMA DropCoherent ==
    ASSUME Typed, Coherent, LockHeldByBuilder, lock = None,
           NEW p \in Procs, \A q \in Procs \ {p} : req'[q] = req[q],
           NEW a \in Agents, runners' = [runners EXCEPT ![a] = NoRunner],
           yaml' = yaml, unannounced' = unannounced, req'[p].pc \notin BuildSteps,
           \A b, d \in Agents : b # a /\ Owes(p, b, d) => Owes(p, b, d)'
    PROVE  Coherent'
<1> SUFFICES ASSUME NEW b \in Agents, NEW d \in Agents, NEW c \in Configs, Holds(b, d, c)'
             PROVE  /\ Holds(b, d, c)
                    /\ MayBeOld(b, d) => MayBeOld(b, d)'
  BY CoherentStep
<1>1. \A e \in Agents : runners'[e] \subseteq runners[e]
  BY DEF Typed, TypeOK, NoRunner
<1>2. Holds(b, d, c)
  BY <1>1, HoldsNothingNew
<1>3. b # a
  <2>1. \A q \in Procs : req[q].pc \notin BuildSteps
    BY ConfigsAssumption DEF LockHeldByBuilder
  <2>2. \A q \in Procs : req'[q].pc \notin BuildSteps
    BY <2>1
  <2>3. runners'[a] = {}
    BY DEF Typed, TypeOK, NoRunner
  <2>4. QED
    BY <2>2, <2>3 DEF Holds
<1>4. MayBeOld(b, d) => MayBeOld(b, d)'
  BY <1>3, StillOwed
<1>5. QED
  BY <1>2, <1>4

\* registry.invalidate of the agent itself and of a dependent.
LEMMA InvalidateCoherent ==
    ASSUME Typed, Coherent, LockHeldByBuilder,
           NEW p \in Procs, \A q \in Procs \ {p} : req'[q] = req[q],
           Invalidate(p) \/ InvalidateDependent(p)
    PROVE  Coherent'
<1>1. CASE Invalidate(p)
  <2>1. req'[p].pc = "list" /\ req'[p].agent = req[p].agent
    BY <1>1, GotoFields DEF Invalidate
  <2>2. req[p].agent \in Agents
    BY <1>1, Fields DEF Invalidate, RequestOK
  <2>3. ASSUME NEW b \in Agents, NEW d \in Agents, b # req[p].agent, Owes(p, b, d)
        PROVE  Owes(p, b, d)'
    BY <2>1, <2>3 DEF Owes, WillInvalidate, WillScan
  <2>4. req'[p].pc \notin BuildSteps
    BY <2>1 DEF BuildSteps
  <2>5. QED
    BY <1>1, <2>2, <2>3, <2>4, DropCoherent DEF Invalidate
<1>2. CASE InvalidateDependent(p)
  <2>1. /\ req[p].pc = "dependent"
        /\ req'[p].pc = "scan" /\ req'[p].agent = req[p].agent /\ req'[p].todo = req[p].todo
    BY <1>2, Fields DEF InvalidateDependent, Request, Typed, TypeOK
  <2>2. req[p].dep \in Agents
    BY <2>1, Fields DEF RequestOK
  <2>3. ASSUME NEW b \in Agents, NEW d \in Agents, b # req[p].dep, Owes(p, b, d)
        PROVE  Owes(p, b, d)'
    <3>1. ~ChangedYaml(p)
      BY <2>1 DEF ChangedYaml
    <3>2. QED
      BY <2>1, <2>3, <3>1 DEF Owes, WillInvalidate, WillScan
  <2>4. req'[p].pc \notin BuildSteps
    BY <2>1 DEF BuildSteps
  <2>5. QED
    BY <1>2, <2>2, <2>3, <2>4, DropCoherent DEF InvalidateDependent
<1>3. QED
  BY <1>1, <1>2

\* The scan gives up a name whose stored document does not reference its agent.
LEMMA ScanCoherent ==
    ASSUME Typed, Coherent, RunnersBuilt,
           NEW p \in Procs, \A q \in Procs \ {p} : req'[q] = req[q],
           req[p].pc \in {"list", "scan"}, req'[p].agent = req[p].agent,
           req'[p].pc \notin BuildSteps,
           yaml' = yaml, runners' = runners, unannounced' = unannounced,
           \A b \in Agents :
              WillScan(p, b, req[p].agent) =>
                 \/ WillScan(p, b, req[p].agent)'
                 \/ yaml[b] = None \/ req[p].agent \notin RefSet(yaml[b])
    PROVE  Coherent'
<1> SUFFICES ASSUME NEW b \in Agents, NEW d \in Agents, NEW c \in Configs, Holds(b, d, c)'
             PROVE  /\ Holds(b, d, c)
                    /\ MayBeOld(b, d) => MayBeOld(b, d)'
  BY CoherentStep
<1>1. Holds(b, d, c)
  BY HoldsNothingNew
<1>2. Owes(p, b, d) => WillScan(p, b, d)
  BY DEF Owes, WillInvalidate, ChangedYaml
<1>3. CASE WillScan(p, b, d) /\ ~WillScan(p, b, d)'
  <2>1. d = req[p].agent /\ b # d
    BY <1>3 DEF WillScan
  <2>2. yaml[b] = None \/ d \notin RefSet(yaml[b])
    BY <1>3, <2>1
  <2>3. b \in unannounced \/ \E q \in Procs : WillInvalidate(q, b)
    BY <1>1, <2>1, <2>2, OwnChangeCovers
  <2>4. ASSUME NEW q \in Procs, WillInvalidate(q, b)
        PROVE  WillInvalidate(q, b)'
    <3>1. q # p
      BY <2>1, <2>4 DEF WillInvalidate
    <3>2. QED
      BY <2>4, <3>1 DEF WillInvalidate, ChangedYaml
  <2>5. QED
    BY <1>1, <2>3, <2>4 DEF MayBeOld
<1>4. CASE ~(WillScan(p, b, d) /\ ~WillScan(p, b, d)')
  <2>1. Owes(p, b, d) => Owes(p, b, d)'
    BY <1>2, <1>4 DEF Owes
  <2>2. QED
    BY <1>1, <2>1, StillOwed
<1>5. QED
  BY <1>3, <1>4

\* list_all: a name without an object has lost its document.
LEMMA ListYamlsCoherent ==
    ASSUME Typed, Coherent, RunnersBuilt,
           NEW p \in Procs, \A q \in Procs \ {p} : req'[q] = req[q], ListYamls(p)
    PROVE  Coherent'
<1>1. /\ req'[p].pc = "scan" /\ req'[p].agent = req[p].agent
      /\ req'[p].todo = {a \in Agents : yaml[a] # None} \ {req[p].agent}
  BY Fields DEF ListYamls, Request, Typed, TypeOK
<1>2. ASSUME NEW b \in Agents, WillScan(p, b, req[p].agent)
      PROVE  WillScan(p, b, req[p].agent)' \/ yaml[b] = None
  BY <1>1, <1>2 DEF WillScan
<1>3. req'[p].pc \notin BuildSteps
  BY <1>1 DEF BuildSteps
<1>4. QED
  BY <1>1, <1>2, <1>3, ScanCoherent DEF ListYamls

\* One name of the scan.
LEMMA ScanYamlCoherent ==
    ASSUME Typed, Coherent, RunnersBuilt,
           NEW p \in Procs, \A q \in Procs \ {p} : req'[q] = req[q], ScanYaml(p)
    PROVE  Coherent'
<1>1. PICK b \in req[p].todo :
         IF yaml[b] # None /\ req[p].agent \in RefSet(yaml[b])
         THEN req' = [req EXCEPT ![p].pc = "dependent", ![p].dep = b, ![p].todo = @ \ {b}]
         ELSE req' = [req EXCEPT ![p].todo = @ \ {b}]
  BY DEF ScanYaml
<1>2. /\ req[p].pc = "scan" /\ req'[p].agent = req[p].agent
      /\ req'[p].todo = req[p].todo \ {b}
      /\ \/ req'[p].pc = "dependent" /\ req'[p].dep = b
         \/ req'[p].pc = "scan" /\ (yaml[b] = None \/ req[p].agent \notin RefSet(yaml[b]))
  BY <1>1, Fields DEF ScanYaml, Request, Typed, TypeOK
<1>3. ASSUME NEW e \in Agents, WillScan(p, e, req[p].agent)
      PROVE  \/ WillScan(p, e, req[p].agent)'
             \/ yaml[e] = None \/ req[p].agent \notin RefSet(yaml[e])
  <2>1. e \in req[p].todo /\ e # req[p].agent
    BY <1>2, <1>3 DEF WillScan, ChangedYaml
  <2>2. QED
    BY <1>2, <2>1 DEF WillScan
<1>4. req'[p].pc \notin BuildSteps
  BY <1>2 DEF BuildSteps
<1>5. QED
  BY <1>2, <1>3, <1>4, ScanCoherent DEF ScanYaml

\* The scan ends, or it cannot go on and says so in unannounced.
LEMMA ScanEndsCoherent ==
    ASSUME Typed, Coherent, NEW p \in Procs, \A q \in Procs \ {p} : req'[q] = req[q],
           ScanDone(p) \/ ListRaises(p) \/ ScanRaises(p)
    PROVE  Coherent'
<1>1. CASE ScanDone(p)
  <2>1. ASSUME NEW b \in Agents, NEW d \in Agents PROVE ~Owes(p, b, d)
    BY <1>1 DEF ScanDone, Owes, WillInvalidate, WillScan, ChangedYaml
  <2>2. QED
    BY <1>1, <2>1, ReturnFields, Quiet DEF ScanDone, BuildSteps
<1>2. CASE ListRaises(p)
  <2>1. ASSUME NEW b \in Agents, NEW d \in Agents, Owes(p, b, d)
        PROVE  b \in unannounced' \/ d \in unannounced'
    BY <1>2, <2>1, OwesWhen DEF ListRaises
  <2>2. unannounced \subseteq unannounced' /\ req'[p].pc \notin BuildSteps
    BY <1>2, ReturnFields DEF ListRaises, BuildSteps
  <2>3. QED
    BY <1>2, <2>1, <2>2, Quiet DEF ListRaises
<1>3. CASE ScanRaises(p)
  <2>1. ASSUME NEW b \in Agents, NEW d \in Agents, Owes(p, b, d)
        PROVE  b \in unannounced' \/ d \in unannounced'
    BY <1>3, <2>1, OwesWhen DEF ScanRaises
  <2>2. unannounced \subseteq unannounced' /\ req'[p].pc \notin BuildSteps
    BY <1>3, Fields DEF ScanRaises, BuildSteps, Request, Typed, TypeOK
  <2>3. QED
    BY <1>3, <2>1, <2>2, Quiet DEF ScanRaises
<1>4. QED
  BY <1>1, <1>2, <1>3

\* A step of get_runner owes nothing before or after.
LEMMA BuilderCoherent ==
    ASSUME Typed, Coherent, NEW p \in Procs, \A q \in Procs \ {p} : req'[q] = req[q],
           req[p].pc \in {"lock"} \cup BuildSteps,
           yaml' = yaml, unannounced' = unannounced,
           \A b, d \in Agents : \A c \in Configs :
              Holds(b, d, c)' => Holds(b, d, c) \/ yaml[d] = c
    PROVE  Coherent'
<1>1. ASSUME NEW b \in Agents, NEW d \in Agents PROVE ~Owes(p, b, d)
  BY OwesWhen DEF BuildSteps, ChangedYaml
<1>2. \A b, d \in Agents : MayBeOld(b, d) => MayBeOld(b, d)'
  BY <1>1, StillOwed
<1>3. QED
  BY <1>2, CoherentStep

\* The steps of get_runner: what is read is what is stored.
LEMMA BuildCoherent ==
    ASSUME Typed, Coherent, NEW p \in Procs, \A q \in Procs \ {p} : req'[q] = req[q],
           AcquireLock(p) \/ ReadOwnYaml(p) \/ ReadReferencedYaml(p) \/ CacheRunner(p)
           \/ AbortBuild(p)
    PROVE  Coherent'
<1>1. /\ req[p].pc \in {"lock"} \cup BuildSteps
      /\ yaml' = yaml /\ unannounced' = unannounced
  BY DEF AcquireLock, ReadOwnYaml, ReadReferencedYaml, CacheRunner, AbortBuild, BuildSteps
<1> SUFFICES ASSUME NEW b \in Agents, NEW d \in Agents, NEW c \in Configs, Holds(b, d, c)'
             PROVE  Holds(b, d, c) \/ yaml[d] = c
  BY <1>1, BuilderCoherent
<1>2. CASE Return(p) /\ runners' = runners
  BY <1>2, ReturnFields, HoldsNothingNew DEF BuildSteps
<1>3. CASE AcquireLock(p) /\ Goto(p, "own")
  <2>1. req[p].snap = {}
    BY <1>3, Fields DEF AcquireLock, RequestOK
  <2>2. req'[p].snap = {} /\ runners' = runners
    BY <1>3, <2>1, GotoFields DEF AcquireLock
  <2>3. QED
    BY <2>2, HoldsNothingNew
<1>4. CASE ReadOwnYaml(p) /\ ~Return(p)
  <2>1. req'[p].snap = {<<req[p].agent, yaml[req[p].agent]>>} /\ runners' = runners
    BY <1>4, Fields DEF ReadOwnYaml, FailBuild, Request, Typed, TypeOK
  <2>2. CASE <<d, c>> \in req'[p].snap
    BY <2>1, <2>2
  <2>3. CASE <<d, c>> \notin req'[p].snap
    BY <2>1, <2>3 DEF Holds
  <2>4. QED
    BY <2>2, <2>3
<1>5. CASE ReadReferencedYaml(p) /\ ~Return(p)
  <2> DEFINE ref == Refs[req[p].conf][req[p].pos]
  <2>1. /\ req'[p].snap = req[p].snap \cup {<<ref, yaml[ref]>>} /\ runners' = runners
        /\ req'[p].agent = req[p].agent /\ req'[p].pc = req[p].pc
    <3>1. req' = [req EXCEPT ![p] = [req[p] EXCEPT !.pos = @ + 1,
                                                   !.snap = @ \cup {<<ref, yaml[ref]>>}]]
      BY <1>5 DEF ReadReferencedYaml, FailBuild
    <3>2. req'[p] = [req[p] EXCEPT !.pos = @ + 1, !.snap = @ \cup {<<ref, yaml[ref]>>}]
      BY <3>1 DEF Typed, TypeOK
    <3>3. runners' = runners
      BY <1>5 DEF ReadReferencedYaml
    <3> HIDE DEF ref
    <3>4. QED
      BY <3>2, <3>3, Fields DEF Request
  <2>2. CASE <<d, c>> = <<ref, yaml[ref]>>
    BY <2>2
  <2>3. CASE <<d, c>> # <<ref, yaml[ref]>>
    BY <2>1, <2>3 DEF Holds
  <2>4. QED
    BY <2>2, <2>3
<1>6. CASE CacheRunner(p)
  <2>1. req'[p].pc \notin BuildSteps
    BY <1>6, ReturnFields DEF CacheRunner, BuildSteps
  <2>2. CASE <<d, c>> \in runners'[b]
    <3>1. <<d, c>> \in runners[b] \/ (b = req[p].agent /\ <<d, c>> \in req[p].snap)
      BY <1>6, <2>2 DEF CacheRunner, Typed, TypeOK
    <3>2. QED
      BY <1>6, <3>1 DEF Holds, CacheRunner, BuildSteps
  <2>3. CASE <<d, c>> \notin runners'[b]
    BY <2>1, <2>3 DEF Holds
  <2>4. QED
    BY <2>2, <2>3
<1>7. QED
  BY <1>2, <1>3, <1>4, <1>5, <1>6
     DEF AcquireLock, ReadOwnYaml, ReadReferencedYaml, AbortBuild, FailBuild

\* A call of the use cases raises before or after its effect.
LEMMA FaultCoherent ==
    ASSUME Typed, Coherent, NEW p \in Procs, \A q \in Procs \ {p} : req'[q] = req[q],
           CallRaises(p) \/ AckLost(p)
    PROVE  Coherent'
<1>1. CASE CallRaises(p)
  BY <1>1, RaiseCoherent DEF CallRaises
<1>2. CASE AckLost(p)
  BY <1>2, RaiseCoherent DEF AckLost
<1>3. QED
  BY <1>1, <1>2

\* A restart empties the cache.
LEMMA RestartCoherent == Typed /\ Restart => Coherent'
<1> SUFFICES ASSUME Typed, Restart PROVE Coherent'
  OBVIOUS
<1>1. ASSUME NEW b \in Agents, NEW d \in Agents, NEW c \in Configs PROVE ~Holds(b, d, c)'
  BY DEF Holds, Restart, NoRunner, Idle, BuildSteps
<1>2. QED
  BY <1>1 DEF Coherent

-----------------------------------------------------------------------------
(* The inductive invariant *)

\* What one step of a request does to the cache.
LEMMA CacheMoves ==
    ASSUME Typed, NEW p \in Procs, Acts(p)
    PROVE  \/ \A b \in Agents : runners'[b] \in {runners[b], NoRunner}
           \/ /\ CacheRunner(p)
              /\ \A b \in Agents : b # req[p].agent => runners'[b] = runners[b]
<1>1. CASE Starts(p)
  BY <1>1 DEF Starts, StartCreate, StartUpdate, StartDelete, StartGetRunner
<1>2. CASE TakeLock(p)
  BY <1>2 DEF TakeLock, Invalidate, InvalidateDependent, AcquireLock, Typed, TypeOK
<1>3. CASE CacheRunner(p)
  BY <1>3 DEF CacheRunner, Typed, TypeOK
<1>4. CASE Continue(p) /\ ~CacheRunner(p)
  <2>1. runners' = runners
    BY <1>4 DEF Continue, RejectRef, AcceptRef, CheckExists, Put, Save, Commit, CommitRaises,
          GetRow, StatYaml, RemoveYaml, SelectRow, DeleteRow, ListYamls, ScanYaml, ScanDone,
          ReadOwnYaml, ReadReferencedYaml, AbortBuild, CallRaises, AckLost, ListRaises,
          ScanRaises
  <2>2. QED
    BY <2>1
<1>5. QED
  BY <1>1, <1>2, <1>3, <1>4 DEF Acts

\* A runner enters the cache with everything that its build has read.
LEMMA RunnersBuiltNext ==
    Typed /\ RunnersBuilt /\ [Next]_vars => RunnersBuilt'
<1> SUFFICES ASSUME Typed, RunnersBuilt, [Next]_vars PROVE RunnersBuilt'
  OBVIOUS
<1>1. ASSUME \A b \in Agents : runners'[b] \in {runners[b], NoRunner}
      PROVE  RunnersBuilt'
  BY <1>1 DEF RunnersBuilt, BuiltFrom
<1>2. ASSUME NEW p \in Procs, CacheRunner(p)
      PROVE  RunnersBuilt'
  <2>1. BuiltFrom(req[p].agent, req[p].snap)
    BY <1>2, Fields DEF CacheRunner, RequestOK, BuiltFrom
  <2>2. \A b \in Agents : \/ runners'[b] = runners[b]
                          \/ b = req[p].agent /\ runners'[b] = req[p].snap
    BY <1>2 DEF CacheRunner, Typed, TypeOK
  <2>3. QED
    BY <2>1, <2>2 DEF RunnersBuilt, BuiltFrom
<1>3. ASSUME NEW p \in Procs, Acts(p)
      PROVE  RunnersBuilt'
  BY <1>1, <1>2, <1>3, CacheMoves
<1>4. CASE Restart \/ UNCHANGED vars
  BY <1>1, <1>4 DEF Restart, vars
<1>5. QED
  BY <1>3, <1>4, NextActs

\* Every step keeps the cache coherent.
LEMMA CoherentNext ==
    Typed /\ LockHeldByBuilder /\ RunnersBuilt /\ Coherent /\ [Next]_vars => Coherent'
<1> SUFFICES ASSUME Typed, LockHeldByBuilder, RunnersBuilt, Coherent, [Next]_vars
             PROVE  Coherent'
  OBVIOUS
<1>1. ASSUME NEW p \in Procs, Starts(p)
      PROVE  Coherent'
  BY <1>1, OthersWait, StartCoherent DEF Acts
<1>2. ASSUME NEW p \in Procs, TakeLock(p)
      PROVE  Coherent'
  BY <1>2, OthersWait, InvalidateCoherent, BuildCoherent DEF Acts, TakeLock
<1>3. ASSUME NEW p \in Procs, Continue(p)
      PROVE  Coherent'
  BY <1>3, OthersWait, ChecksCoherent, RowCoherent, PutCoherent, RemoveYamlCoherent,
     ListYamlsCoherent, ScanYamlCoherent, ScanEndsCoherent, BuildCoherent, FaultCoherent
     DEF Acts, Continue
<1>4. CASE Restart
  BY <1>4, RestartCoherent
<1>5. CASE UNCHANGED vars
  <2>1. Coherent' <=> Coherent
    BY <1>5 DEF vars, Coherent, Holds, MayBeOld, WillInvalidate, WillScan, ChangedYaml
  <2>2. QED
    BY <2>1
<1>6. QED
  BY <1>1, <1>2, <1>3, <1>4, <1>5, NextActs DEF Acts

\* Inv holds at the start: nothing is cached.
LEMMA InvInit == Init => Inv
<1> SUFFICES ASSUME Init PROVE Inv
  OBVIOUS
<1>1. Typed /\ LockHeldByBuilder
  BY TypedInit, LockInit
<1>2. \A b \in Agents : runners[b] = NoRunner
  BY DEF Init
<1>3. CacheCoherence
  BY <1>2 DEF Init, CacheCoherence, UpToDate, NoRunner, Idle, BuildSteps
<1>4. QED
  BY <1>1, <1>2, <1>3 DEF Inv, Typed

\* Inv is inductive.
LEMMA InvNext == Inv /\ [Next]_vars => Inv'
<1> SUFFICES ASSUME Inv, [Next]_vars PROVE Inv'
  OBVIOUS
<1>1. Typed /\ LockHeldByBuilder /\ RunnersBuilt /\ Coherent
  BY CoherentIsCacheCoherence DEF Inv, Typed, RunnersBuilt
<1>2. Typed' /\ LockHeldByBuilder' /\ RunnersBuilt' /\ Coherent'
  BY <1>1, TypedNext, LockNext, RunnersBuiltNext, CoherentNext
<1>3. Typed' => (Coherent' <=> CacheCoherence')
  BY CoherentIsCacheCoherence, PTL
<1>4. QED
  BY <1>2, <1>3 DEF Inv, Typed, RunnersBuilt

\* CacheCoherent: for any number of agents, documents, references and
\* requests, with failures and restarts: a cached runner, or one being built,
\* that holds a document which is no longer stored is about to be dropped by
\* the update or deletion that replaced it, unless a request ended without its
\* invalidations, or a create overwrote an object, and that is recorded.
THEOREM CacheCoherent == Spec => []CacheCoherence
<1>1. Inv => CacheCoherence
  BY DEF Inv
<1>2. QED
  BY <1>1, InvInit, InvNext, PTL DEF Spec

-----------------------------------------------------------------------------
(* One runner at a time *)

\* The build of an agent goes on only while the agent has no cached runner:
\* this is what the second look at the cache, under the lock, is for.
BuildsMissing ==
    \A p \in Procs : req[p].pc \in BuildSteps => runners[req[p].agent] = NoRunner

\* A request that builds after its step was building the same agent's runner
\* before it, or has just found that there is none.
LEMMA BuildsOn ==
    ASSUME Typed, NEW p \in Procs, Acts(p),
           req'[p].pc \in BuildSteps
    PROVE  /\ req'[p].agent = req[p].agent
           /\ req[p].pc \in BuildSteps \/ runners[req[p].agent] = NoRunner
           /\ runners' = runners
<1>1. CASE AcquireLock(p)
  BY <1>1, GotoFields, ReturnFields DEF AcquireLock, BuildSteps
<1>2. CASE ReadOwnYaml(p)
  <2>1. ~Return(p)
    BY ReturnFields DEF BuildSteps
  <2>2. QED
    BY <1>2, <2>1, Fields DEF ReadOwnYaml, FailBuild, BuildSteps, Request, Typed, TypeOK
<1>3. CASE ReadReferencedYaml(p)
  <2> DEFINE ref == Refs[req[p].conf][req[p].pos]
  <2>1. ~Return(p)
    BY ReturnFields DEF BuildSteps
  <2>2. req'[p] = [req[p] EXCEPT !.pos = @ + 1, !.snap = @ \cup {<<ref, yaml[ref]>>}]
    BY <1>3, <2>1 DEF ReadReferencedYaml, FailBuild, Typed, TypeOK
  <2>3. req[p].pc \in BuildSteps /\ runners' = runners
    BY <1>3 DEF ReadReferencedYaml, BuildSteps
  <2> HIDE DEF ref
  <2>4. QED
    BY <2>2, <2>3, Fields DEF Request
<1>4. CASE CacheRunner(p) \/ AbortBuild(p)
  BY <1>4, ReturnFields DEF CacheRunner, AbortBuild, FailBuild, BuildSteps
<1>5. CASE /\ ~(AcquireLock(p) \/ ReadOwnYaml(p) \/ ReadReferencedYaml(p))
           /\ ~(CacheRunner(p) \/ AbortBuild(p))
  <2>1. req[p].pc \notin BuildSteps /\ lock' = lock
    <3>1. CASE Starts(p)
      BY <3>1 DEF Starts, StartCreate, StartUpdate, StartDelete, StartGetRunner, BuildSteps
    <3>2. CASE TakeLock(p)
      BY <1>5, <3>2 DEF TakeLock, Invalidate, InvalidateDependent, BuildSteps
    <3>3. CASE Continue(p)
      BY <1>5, <3>3 DEF Continue, BuildSteps, AdminSteps, RejectRef, AcceptRef, CheckExists,
         Put, Save, Commit, CommitRaises, GetRow, StatYaml, RemoveYaml, SelectRow, DeleteRow,
         ListYamls, ScanYaml, ScanDone, CallRaises, AckLost, ListRaises, ScanRaises
    <3>4. QED
      BY <3>1, <3>2, <3>3 DEF Acts
  <2>2. lock = None /\ lock' = p
    BY <2>1, LockMoves
  <2>3. QED
    BY <2>1, <2>2, ConfigsAssumption
<1>6. QED
  BY <1>1, <1>2, <1>3, <1>4, <1>5

\* Every step keeps the builds to agents without a runner.
LEMMA BuildsMissingNext ==
    Typed /\ LockHeldByBuilder /\ BuildsMissing /\ [Next]_vars => BuildsMissing'
<1> SUFFICES ASSUME Typed, LockHeldByBuilder, BuildsMissing, [Next]_vars
             PROVE  BuildsMissing'
  OBVIOUS
<1>1. ASSUME NEW p \in Procs, Acts(p)
      PROVE  BuildsMissing'
  <2> SUFFICES ASSUME NEW q \in Procs, req'[q].pc \in BuildSteps
               PROVE  runners'[req'[q].agent] = NoRunner
    BY DEF BuildsMissing
  <2>1. CASE q = p
    BY <1>1, <2>1, BuildsOn DEF BuildsMissing
  <2>2. CASE q # p
    <3>1. req'[q] = req[q] /\ req[q].agent \in Agents
      BY <1>1, <2>2, OthersWait, Fields DEF RequestOK, BuildSteps
    <3>2. runners[req[q].agent] = NoRunner
      BY <3>1 DEF BuildsMissing
    <3>3. ~CacheRunner(p)
      BY <2>2, <3>1 DEF LockHeldByBuilder, CacheRunner, BuildSteps
    <3>4. QED
      BY <1>1, <3>1, <3>2, <3>3, CacheMoves
  <2>3. QED
    BY <2>1, <2>2
<1>2. CASE Restart
  BY <1>2 DEF Restart, BuildsMissing, Idle, BuildSteps
<1>3. CASE UNCHANGED vars
  BY <1>3 DEF vars, BuildsMissing
<1>4. QED
  BY <1>1, <1>2, <1>3, NextActs

\* RunnerKept: whatever the agents, documents and requests, the runner that
\* one request has put in the cache is never replaced by that of another: it
\* leaves the cache only by being dropped.
THEOREM RunnerKept == Spec => RunnerNotReplaced
<1> DEFINE J == Typed /\ LockHeldByBuilder /\ BuildsMissing
<1>1. Init => J
  BY TypedInit, LockInit DEF Init, BuildsMissing, Idle, BuildSteps
<1>2. J /\ [Next]_vars => J'
  BY TypedNext, LockNext, BuildsMissingNext
<1>3. J /\ [Next]_vars =>
        [\A a \in Agents : runners[a] # NoRunner => runners'[a] \in {runners[a], NoRunner}]_vars
  <2> SUFFICES ASSUME J, Next, NEW a \in Agents, runners[a] # NoRunner
               PROVE  runners'[a] \in {runners[a], NoRunner}
    BY DEF vars
  <2>1. ASSUME NEW p \in Procs, Acts(p)
        PROVE  runners'[a] \in {runners[a], NoRunner}
    <3>1. CacheRunner(p) => runners[req[p].agent] = NoRunner
      BY DEF BuildsMissing, CacheRunner, BuildSteps
    <3>2. QED
      BY <2>1, <3>1, CacheMoves
  <2>2. CASE Restart
    BY <2>2 DEF Restart
  <2>3. QED
    BY <2>1, <2>2, NextActs DEF vars
<1>4. QED
  BY <1>1, <1>2, <1>3, PTL DEF Spec, RunnerNotReplaced

-----------------------------------------------------------------------------
(* Row and document, for requests that take turns on a name *)

\* No two administrators are at work on the same agent.
TakeTurns ==
    \A p, q \in Admins : p # q /\ req[p].pc # "idle" => req[p].agent # req[q].agent

\* The calls between the write of one store and the write of the other.
HalfWay == {"save", "insert", "modify", "rowget", "rowdel"}

\* What the request p knows of the row and the document of its agent.
Agrees(p) ==
    LET r == req[p]
        a == r.agent
    IN  /\ r.pc = "idle" => a = None
        /\ r.pc \notin HalfWay \cup {"idle"} => row[a] = yaml[a]
        /\ r.pc \in {"save", "insert", "modify"} => yaml[a] = r.conf
        /\ r.pc = "insert" => row[a] = None
        /\ r.pc \in {"modify", "stat", "remove", "rowget", "rowdel"} => row[a] # None
        /\ r.pc \in {"rowget", "rowdel"} => yaml[a] = None

UsersOnlyBuild == \A p \in Users : req[p].pc \in {"idle", "lock"} \cup BuildSteps

RowInv ==
    /\ Typed
    /\ UsersOnlyBuild
    /\ \A p \in Admins : Agrees(p)
    /\ RowDescribesYaml

\* A step of p touches the row and the document of its own agent only.
LEMMA OwnAgentOnly ==
    ASSUME Typed, NEW p \in Procs, Acts(p), NEW a \in Agents, a # req[p].agent
    PROVE  row'[a] = row[a] /\ yaml'[a] = yaml[a]
<1>1. CASE Starts(p) \/ TakeLock(p)
  BY <1>1, Zenon DEF Starts, StartCreate, StartUpdate, StartDelete, StartGetRunner, TakeLock,
     Invalidate, InvalidateDependent, AcquireLock
<1>2. CASE \/ RejectRef(p) \/ AcceptRef(p) \/ CheckExists(p) \/ Save(p) \/ CommitRaises(p)
           \/ GetRow(p) \/ StatYaml(p) \/ SelectRow(p) \/ ListYamls(p) \/ ScanYaml(p)
           \/ ScanDone(p)
  BY <1>2, Zenon DEF RejectRef, AcceptRef, CheckExists, Save, CommitRaises, GetRow, StatYaml,
     SelectRow, ListYamls, ScanYaml, ScanDone
<1>3. CASE \/ ReadOwnYaml(p) \/ ReadReferencedYaml(p) \/ CacheRunner(p) \/ AbortBuild(p)
           \/ CallRaises(p) \/ ListRaises(p) \/ ScanRaises(p)
  BY <1>3, Zenon DEF ReadOwnYaml, ReadReferencedYaml, CacheRunner, AbortBuild, CallRaises,
     ListRaises, ScanRaises
<1>4. CASE Put(p) \/ RemoveYaml(p) \/ DeleteRow(p)
  BY <1>4 DEF Put, RemoveYaml, DeleteRow, Typed, TypeOK
<1>5. CASE Commit(p) \/ AckLost(p)
  BY <1>5 DEF Commit, AckLost, WriteRow, Typed, TypeOK
<1>6. QED
  BY <1>1, <1>2, <1>3, <1>4, <1>5 DEF Acts, Continue

\* A request begins idle, on an agent, and before any write.
LEMMA StartsAgree ==
    ASSUME Typed, NEW p \in Procs, Starts(p)
    PROVE  /\ req[p].pc = "idle" /\ row' = row /\ yaml' = yaml
           /\ req'[p].agent \in Agents
           /\ req'[p].pc \in {"refs", "exists", "put", "get", "lock"}
<1>0. req \in [Procs -> Request] /\ \A u \in Uploads : u[1] \in Agents /\ u[2] \in Configs
  BY ConfigsAssumption DEF Typed, TypeOK
<1>1. CASE StartCreate(p)
  <2>1. PICK u \in Uploads :
          req' = [req EXCEPT ![p] = [Idle EXCEPT !.pc = AfterRefs("create", u[2], 1),
                                                 !.op = "create",
                                                 !.agent = u[1], !.conf = u[2]]]
    BY <1>1, Zenon DEF StartCreate
  <2>2. req'[p].pc = AfterRefs("create", u[2], 1) /\ req'[p].agent = u[1]
    BY <1>0, <2>1 DEF Idle
  <2>3. QED
    BY <1>0, <1>1, <2>2 DEF StartCreate, AfterRefs
<1>2. CASE StartUpdate(p)
  <2>1. PICK u \in Uploads :
          req' = [req EXCEPT ![p] = [Idle EXCEPT !.pc = "get", !.op = "update",
                                                 !.agent = u[1], !.conf = u[2]]]
    BY <1>2, Zenon DEF StartUpdate
  <2>2. req'[p].pc = "get" /\ req'[p].agent = u[1]
    BY <1>0, <2>1 DEF Idle
  <2>3. QED
    BY <1>0, <1>2, <2>2 DEF StartUpdate
<1>3. CASE StartDelete(p)
  <2>1. PICK a \in Agents :
          req' = [req EXCEPT ![p] = [Idle EXCEPT !.pc = "get", !.op = "delete", !.agent = a]]
    BY <1>3, Zenon DEF StartDelete
  <2>2. req'[p].pc = "get" /\ req'[p].agent = a
    BY <1>0, <2>1 DEF Idle
  <2>3. QED
    BY <1>3, <2>2 DEF StartDelete
<1>4. CASE StartGetRunner(p)
  <2>1. PICK a \in Threads :
          req' = [req EXCEPT ![p] = [Idle EXCEPT !.pc = "lock", !.op = "run", !.agent = a]]
    BY <1>4, Zenon DEF StartGetRunner
  <2>2. req'[p].pc = "lock" /\ req'[p].agent = a
    BY <1>0, <2>1 DEF Idle
  <2>3. QED
    BY <1>4, <2>2, ConfigsAssumption DEF StartGetRunner
<1>5. QED
  BY <1>1, <1>2, <1>3, <1>4 DEF Starts

\* What a step of p that is not its first leaves of Agrees(p).
Settles(p) ==
    \/ req'[p].agent = req[p].agent /\ Agrees(p)'
    \/ req'[p] = Idle /\ row'[req[p].agent] = yaml'[req[p].agent]

\* A step that touches neither store and goes on among such calls, or returns.
LEMMA ReadsAgree ==
    ASSUME Typed, NEW p \in Procs, Agrees(p), req[p].pc \notin HalfWay \cup {"idle"},
           row' = row, yaml' = yaml,
           \/ req'[p] = Idle
           \/ /\ req'[p].agent = req[p].agent
              /\ req'[p].pc \notin HalfWay \cup {"idle"}
              /\ req'[p].pc \in {"stat", "remove"} => row[req[p].agent] # None
    PROVE  Settles(p)
BY DEF Agrees, Settles, HalfWay

LEMMA ChecksAgree ==
    ASSUME Typed, NEW p \in Procs, Agrees(p),
           \/ RejectRef(p) \/ AcceptRef(p) \/ CheckExists(p) \/ GetRow(p) \/ StatYaml(p)
    PROVE  Settles(p)
<1>1. CASE RejectRef(p)
  BY <1>1, ReturnFields, ReadsAgree DEF RejectRef, HalfWay
<1>2. CASE AcceptRef(p)
  <2>1. /\ req'[p].agent = req[p].agent
        /\ req'[p].pc = AfterRefs(req[p].op, req[p].conf, req[p].pos + 1)
    BY <1>2, Fields DEF AcceptRef, Request, Typed, TypeOK
  <2>2. QED
    <3>1. req'[p].pc \in {"refs", "exists", "put"}
      BY <2>1 DEF AfterRefs
    <3>2. req[p].pc = "refs" /\ row' = row /\ yaml' = yaml
      BY <1>2 DEF AcceptRef
    <3>3. QED
      BY <2>1, <3>1, <3>2, ReadsAgree DEF HalfWay
<1>3. CASE CheckExists(p)
  BY <1>3, ReturnFields, GotoFields, ReadsAgree DEF CheckExists, HalfWay
<1>4. CASE GetRow(p)
  <2>1. CASE row[req[p].agent] = None
    BY <1>4, <2>1, ReturnFields, ReadsAgree DEF GetRow, HalfWay
  <2>2. CASE row[req[p].agent] # None
    <3> DEFINE step == IF req[p].op = "delete" THEN "stat" ELSE AfterRefs("update", req[p].conf, 1)
    <3>1. step \in {"stat", "refs", "put"}
      BY DEF AfterRefs
    <3>2. req'[p].pc = step /\ req'[p].agent = req[p].agent
      BY <1>4, <2>2, GotoFields DEF GetRow
    <3>3. QED
      BY <1>4, <2>2, <3>1, <3>2, ReadsAgree DEF GetRow, HalfWay
  <2>3. QED
    BY <2>1, <2>2
<1>5. CASE StatYaml(p)
  BY <1>5, ReturnFields, GotoFields, ReadsAgree DEF StatYaml, HalfWay, Agrees
<1>6. QED
  BY <1>1, <1>2, <1>3, <1>4, <1>5

LEMMA WritesAgree ==
    ASSUME Typed, NEW p \in Procs, Agrees(p),
           \/ Put(p) \/ Save(p) \/ Commit(p) \/ CommitRaises(p)
           \/ RemoveYaml(p) \/ SelectRow(p) \/ DeleteRow(p)
    PROVE  Settles(p)
<1> USE Fields, GotoFields, ReturnFields DEF Settles, Agrees, HalfWay
<1>0. /\ row \in [Agents -> Configs \cup {None}] /\ yaml \in [Agents -> Configs \cup {None}]
      /\ req[p].pc # "idle" => req[p].agent \in Agents
      /\ req[p].pc \in {"put", "insert", "modify"} => req[p].conf \in Configs
  BY DEF Typed, TypeOK, RequestOK
<1>a. None \notin Configs
  BY ConfigsAssumption
<1>b. Goto(p, req'[p].pc) => req'[p].conf = req[p].conf
  BY DEF Goto, Typed, TypeOK, Request
<1>1. CASE Put(p)
  <2>1. req'[p].pc = "save" /\ req'[p].agent = req[p].agent /\ req'[p].conf = req[p].conf
    BY <1>1, <1>b DEF Put
  <2>2. yaml'[req[p].agent] = req[p].conf
    BY <1>0, <1>1 DEF Put
  <2>3. QED
    BY <2>1, <2>2
<1>2. CASE Save(p)
  <2>1. req'[p].agent = req[p].agent /\ req'[p].conf = req[p].conf /\ row' = row /\ yaml' = yaml
        /\ req'[p].pc = (IF row[req[p].agent] = None THEN "insert" ELSE "modify")
    BY <1>2, <1>b DEF Save
  <2>2. yaml[req[p].agent] = req[p].conf
    BY <1>2 DEF Save
  <2>3. QED
    BY <2>1, <2>2
<1>3. CASE Commit(p)
  <2>1. row'[req[p].agent] = req[p].conf /\ yaml' = yaml /\ yaml[req[p].agent] = req[p].conf
    BY <1>0, <1>3 DEF Commit, WriteRow
  <2>2. \/ req'[p] = Idle
        \/ req'[p].pc = "invalidate" /\ req'[p].agent = req[p].agent
    BY <1>3 DEF Commit
  <2>3. QED
    BY <2>1, <2>2
<1>4. CASE CommitRaises(p)
  BY <1>4 DEF CommitRaises, CommitConflicts
<1>5. CASE RemoveYaml(p)
  <2>1. yaml'[req[p].agent] = None /\ row' = row /\ row[req[p].agent] # None
        /\ req'[p].pc = "rowget" /\ req'[p].agent = req[p].agent
    BY <1>0, <1>5 DEF RemoveYaml
  <2>2. QED
    BY <2>1
<1>6. CASE SelectRow(p)
  <2>1. yaml' = yaml /\ row' = row /\ row[req[p].agent] # None /\ yaml[req[p].agent] = None
        /\ req'[p].pc = "rowdel" /\ req'[p].agent = req[p].agent
    BY <1>0, <1>6 DEF SelectRow
  <2>2. QED
    BY <2>1
<1>7. CASE DeleteRow(p)
  <2>1. yaml' = yaml /\ row'[req[p].agent] = None /\ yaml[req[p].agent] = None
        /\ req'[p].pc = "invalidate" /\ req'[p].agent = req[p].agent
    BY <1>0, <1>7 DEF DeleteRow
  <2>2. QED
    BY <2>1
<1>8. QED
  BY <1>1, <1>2, <1>3, <1>4, <1>5, <1>6, <1>7

\* Every step but the start, the lock and those of a build is an administrator's.
LEMMA ContinuesWhere ==
    ASSUME NEW p \in Procs, Continue(p)
    PROVE  \/ req[p].pc \in AdminSteps
           \/ ReadOwnYaml(p) \/ ReadReferencedYaml(p) \/ CacheRunner(p) \/ AbortBuild(p)
<1> USE DEF AdminSteps
<1>1. CASE RejectRef(p) \/ CheckExists(p) \/ Put(p) \/ Save(p)
  BY <1>1 DEF RejectRef, CheckExists, Put, Save
<1>2. CASE AcceptRef(p)
  BY <1>2 DEF AcceptRef
<1>3. CASE Commit(p) \/ CommitRaises(p) \/ StatYaml(p)
  BY <1>3 DEF Commit, CommitRaises, StatYaml
<1>4. CASE GetRow(p)
  BY <1>4 DEF GetRow
<1>5. CASE RemoveYaml(p) \/ SelectRow(p) \/ DeleteRow(p) \/ ListYamls(p) \/ ScanDone(p)
  BY <1>5 DEF RemoveYaml, SelectRow, DeleteRow, ListYamls, ScanDone
<1>6. CASE ScanYaml(p)
  BY <1>6 DEF ScanYaml
<1>7. CASE CallRaises(p) \/ AckLost(p) \/ ListRaises(p) \/ ScanRaises(p)
  BY <1>7 DEF CallRaises, AckLost, ListRaises, ScanRaises
<1>8. QED
  BY <1>1, <1>2, <1>3, <1>4, <1>5, <1>6, <1>7 DEF Continue

\* A scan stays on the agent of its request.
LEMMA ScanYamlFields ==
    ASSUME Typed, NEW p \in Procs, ScanYaml(p)
    PROVE  req'[p].agent = req[p].agent /\ req'[p].pc \in {"scan", "dependent"}
<1>1. PICK b \in req[p].todo :
         \/ req' = [req EXCEPT ![p] = [req[p] EXCEPT !.pc = "dependent", !.dep = b,
                                                     !.todo = @ \ {b}]]
         \/ req' = [req EXCEPT ![p] = [req[p] EXCEPT !.todo = @ \ {b}]]
  BY DEF ScanYaml
<1>2. req[p].pc = "scan"
  BY DEF ScanYaml
<1>3. req[p] \in Request /\ req \in [Procs -> Request]
  BY DEF Typed, TypeOK
<1>4. QED
  BY <1>1, <1>2, <1>3, ZenonT(30) DEF Request

\* Invalidations, scans and builds leave the stores alone and stay on the agent.
LEMMA RestAgrees ==
    ASSUME Typed, NEW p \in Procs, Agrees(p),
           \/ TakeLock(p) \/ ListYamls(p) \/ ScanYaml(p) \/ ScanDone(p)
           \/ ReadOwnYaml(p) \/ ReadReferencedYaml(p) \/ CacheRunner(p) \/ AbortBuild(p)
    PROVE  Settles(p)
<1> USE Fields, GotoFields, ReturnFields
<1>1. row' = row /\ yaml' = yaml
  BY Zenon DEF TakeLock, Invalidate, InvalidateDependent, AcquireLock, ListYamls, ScanYaml,
     ScanDone, ReadOwnYaml, ReadReferencedYaml, CacheRunner, AbortBuild
<1>2. req[p].pc \in {"invalidate", "dependent", "lock", "list", "scan"} \cup BuildSteps
  <2>1. CASE TakeLock(p)
    BY <2>1 DEF TakeLock, Invalidate, InvalidateDependent, AcquireLock
  <2>2. CASE ListYamls(p) \/ ScanDone(p)
    BY <2>2 DEF ListYamls, ScanDone
  <2>3. CASE ScanYaml(p)
    BY <2>3, Zenon DEF ScanYaml
  <2>4. CASE ReadOwnYaml(p) \/ AbortBuild(p)
    BY <2>4 DEF ReadOwnYaml, AbortBuild, BuildSteps
  <2>5. CASE ReadReferencedYaml(p)
    BY <2>5, Zenon DEF ReadReferencedYaml, BuildSteps
  <2>6. CASE CacheRunner(p)
    BY <2>6 DEF CacheRunner, BuildSteps
  <2>7. QED
    BY <2>1, <2>2, <2>3, <2>4, <2>5, <2>6
<1>3. \/ req'[p] = Idle
      \/ /\ req'[p].agent = req[p].agent
         /\ req'[p].pc \in {"list", "scan", "dependent"} \cup BuildSteps
  <2>1. CASE Invalidate(p) \/ AcquireLock(p) \/ ScanDone(p)
    BY <2>1 DEF Invalidate, AcquireLock, ScanDone, BuildSteps, Typed, TypeOK, Request
  <2>2. CASE InvalidateDependent(p) \/ ListYamls(p)
    BY <2>2 DEF InvalidateDependent, ListYamls, Typed, TypeOK, Request
  <2>3. CASE ScanYaml(p)
    BY <2>3, ScanYamlFields
  <2>4. CASE ReadOwnYaml(p)
    <3>1. CASE FailBuild(p)
      BY <3>1 DEF FailBuild
    <3>2. CASE ~FailBuild(p)
      BY <2>4, <3>2 DEF ReadOwnYaml, BuildSteps, Typed, TypeOK, Request
    <3>3. QED
      BY <3>1, <3>2
  <2>5. CASE ReadReferencedYaml(p)
    <3>1. CASE FailBuild(p)
      BY <3>1 DEF FailBuild
    <3>2. CASE ~FailBuild(p)
      <4>1. PICK snap :
              req' = [req EXCEPT ![p].pos = req[p].pos + 1, ![p].snap = snap]
        BY <2>5, <3>2, Zenon DEF ReadReferencedYaml
      <4>2. req[p].pc = "build"
        BY <2>5 DEF ReadReferencedYaml
      <4>3. req'[p].agent = req[p].agent /\ req'[p].pc = req[p].pc
        BY <4>1 DEF Typed, TypeOK, Request
      <4>4. QED
        BY <4>2, <4>3 DEF BuildSteps
    <3>3. QED
      BY <3>1, <3>2
  <2>6. CASE CacheRunner(p) \/ AbortBuild(p)
    BY <2>6 DEF CacheRunner, AbortBuild, FailBuild
  <2>7. QED
    BY <2>1, <2>2, <2>3, <2>4, <2>5, <2>6 DEF TakeLock
<1>4. QED
  BY <1>1, <1>2, <1>3, ReadsAgree DEF HalfWay, BuildSteps

\* Without failures, a step that is not the first of its request.
LEMMA StepAgrees ==
    ASSUME Typed, ~Faults, NEW p \in Procs, Agrees(p), Acts(p), ~Starts(p)
    PROVE  Settles(p)
<1>1. TakeLock(p) \/ Continue(p)
  BY DEF Acts
<1>2. ~(CallRaises(p) \/ AckLost(p) \/ ListRaises(p) \/ ScanRaises(p))
  BY DEF CallRaises, AckLost, ListRaises, ScanRaises
<1>3. QED
  BY <1>1, <1>2, ChecksAgree, WritesAgree, RestAgrees DEF Continue

\* A user's request never leaves the calls of a build.
LEMMA UsersOnlyBuildNext ==
    Typed /\ UsersOnlyBuild /\ [Next]_vars => UsersOnlyBuild'
<1> SUFFICES ASSUME Typed, UsersOnlyBuild, [Next]_vars, NEW q \in Users
             PROVE  req'[q].pc \in {"idle", "lock"} \cup BuildSteps
  BY DEF UsersOnlyBuild
<1> USE DEF Procs
<1>0. q \in Procs /\ req[q].pc \in {"idle", "lock"} \cup BuildSteps
  BY DEF UsersOnlyBuild
<1>1. CASE UNCHANGED req
  BY <1>0, <1>1
<1>2. CASE Restart
  BY <1>2 DEF Restart, Idle
<1>3. ASSUME NEW p \in Procs, Acts(p), p # q
      PROVE  req'[q].pc \in {"idle", "lock"} \cup BuildSteps
  BY <1>0, <1>3, OthersWait
<1>4. CASE StartGetRunner(q)
  BY <1>0, <1>4 DEF StartGetRunner, Idle, Typed, TypeOK
<1>5. CASE TakeLock(q) \/ Continue(q)
  <2>1. \/ AcquireLock(q) \/ ReadOwnYaml(q) \/ ReadReferencedYaml(q) \/ CacheRunner(q)
        \/ AbortBuild(q)
    BY <1>0, <1>5, ContinuesWhere
    DEF TakeLock, BuildSteps, AdminSteps, Invalidate, InvalidateDependent
  <2> USE <1>0, GotoFields, ReturnFields, Fields DEF BuildSteps, FailBuild, Idle
  <2>2. CASE AcquireLock(q) \/ CacheRunner(q) \/ AbortBuild(q)
    BY <2>2 DEF AcquireLock, CacheRunner, AbortBuild
  <2>3. CASE ReadOwnYaml(q)
    BY <2>3 DEF ReadOwnYaml, Typed, TypeOK, Request
  <2>4. CASE ReadReferencedYaml(q)
    BY <2>4 DEF ReadReferencedYaml, Typed, TypeOK, Request
  <2>5. QED
    BY <2>1, <2>2, <2>3, <2>4
<1>6. QED
  <2>1. ASSUME NEW p \in Admins, Starts(p) PROVE p # q
    BY ConfigsAssumption
  <2>2. QED
    BY <1>1, <1>2, <1>3, <1>4, <1>5, <2>1 DEF Next, vars, Acts, Starts

LEMMA RowInvInit == Init => RowInv
BY TypedInit DEF Init, RowInv, UsersOnlyBuild, Agrees, Idle, RowDescribesYaml, Procs, HalfWay

\* One step, with no failures and with requests that take turns.
LEMMA RowInvNext ==
    ASSUME ~Faults, ~Restarts, RowInv, TakeTurns, TakeTurns', [Next]_vars
    PROVE  RowInv'
<1>0. Typed /\ Typed' /\ UsersOnlyBuild' /\ Admins \subseteq Procs
  BY TypedNext, UsersOnlyBuildNext DEF RowInv, Procs
<1>1. CASE UNCHANGED vars
  BY <1>0, <1>1 DEF vars, RowInv, Agrees, RowDescribesYaml
<1>2. ASSUME NEW p \in Procs, Acts(p), row' = row, yaml' = yaml, p \notin Admins
      PROVE  RowInv'
  <2>1. \A q \in Admins : req'[q] = req[q]
    BY <1>0, <1>2, OthersWait
  <2>2. QED
    BY <1>0, <1>2, <2>1 DEF RowInv, Agrees, RowDescribesYaml
<1>3. ASSUME NEW p \in Admins, Acts(p)
      PROVE  RowInv'
  <2>0. p \in Procs /\ Agrees(p)
    BY <1>0 DEF RowInv
  <2>1. \A q \in Admins \ {p} : req'[q] = req[q]
    BY <1>0, <1>3, OthersWait
  <2>2. \A a \in Agents : a # req[p].agent => row'[a] = row[a] /\ yaml'[a] = yaml[a]
    BY <1>0, <1>3, <2>0, OwnAgentOnly
  \* The others are idle or on another agent.
  <2>3. ASSUME NEW q \in Admins, q # p
        PROVE  Agrees(q)'
    <3>1. Agrees(q) /\ req'[q] = req[q]
      BY <2>1, <2>3 DEF RowInv
    <3>2. CASE req[q].pc = "idle"
      BY <3>1, <3>2 DEF Agrees, HalfWay
    <3>3. CASE req[q].pc # "idle"
      <4>1. req[q].agent \in Agents /\ req[q].agent # req[p].agent
        BY <1>0, <2>3, <3>3, Fields DEF TakeTurns, RequestOK
      <4>2. QED
        BY <2>2, <3>1, <4>1 DEF Agrees
    <3>4. QED
      BY <3>2, <3>3
  <2>4. CASE Starts(p)
    <3>1. /\ req[p].pc = "idle" /\ row' = row /\ yaml' = yaml /\ req'[p].agent \in Agents
          /\ req'[p].pc \in {"refs", "exists", "put", "get", "lock"}
      BY <1>0, <2>0, <2>4, StartsAgree
    <3>2. req[p].agent = None
      BY <2>0, <3>1 DEF Agrees
    <3>3. \A q \in Admins : req[q].agent # req'[p].agent
      BY <2>1, <3>1, <3>2, ConfigsAssumption DEF TakeTurns
    <3>4. Agrees(p)'
      BY <3>1, <3>3 DEF RowInv, RowDescribesYaml, Agrees, HalfWay
    <3>5. RowDescribesYaml'
      BY <2>1, <3>1, <3>2, ConfigsAssumption DEF RowInv, RowDescribesYaml
    <3>6. QED
      BY <1>0, <2>3, <3>4, <3>5 DEF RowInv
  <2>5. CASE ~Starts(p)
    <3>1. Settles(p)
      BY <1>0, <1>3, <2>0, <2>5, StepAgrees
    <3>2. Agrees(p)'
      BY <3>1 DEF Settles, Agrees, Idle, HalfWay
    <3>3. ASSUME NEW a \in Agents, \A q \in Admins : req'[q].agent # a
          PROVE  row'[a] = yaml'[a]
      <4>1. CASE a = req[p].agent
        BY <3>1, <3>3, <4>1 DEF Settles
      <4>2. CASE a # req[p].agent
        BY <2>1, <2>2, <3>3, <4>2 DEF RowInv, RowDescribesYaml
      <4>3. QED
        BY <4>1, <4>2
    <3>4. QED
      BY <1>0, <2>3, <3>2, <3>3 DEF RowInv, RowDescribesYaml
  <2>6. QED
    BY <2>4, <2>5
<1>4. ASSUME NEW p \in Users, Acts(p), p \notin Admins
      PROVE  RowInv'
  <2>0. p \in Procs /\ req[p].pc \in {"idle", "lock"} \cup BuildSteps
    BY <1>4 DEF RowInv, UsersOnlyBuild, Procs
  <2>1. row' = row /\ yaml' = yaml
    <3>1. CASE Starts(p)
      BY <1>0, <2>0, <3>1, StartsAgree
    <3>2. CASE TakeLock(p)
      BY <3>2 DEF TakeLock, Invalidate, InvalidateDependent, AcquireLock
    <3>3. CASE Continue(p)
      <4>1. ReadOwnYaml(p) \/ ReadReferencedYaml(p) \/ CacheRunner(p) \/ AbortBuild(p)
        BY <2>0, <3>3, ContinuesWhere DEF BuildSteps, AdminSteps
      <4>2. QED
        BY <4>1, Zenon DEF ReadOwnYaml, ReadReferencedYaml, CacheRunner, AbortBuild
    <3>4. QED
      BY <1>4, <3>1, <3>2, <3>3 DEF Acts
  <2>2. QED
    BY <1>2, <1>4, <2>0, <2>1
<1>5. QED
  <2>1. ~Restart
    BY DEF Restart
  <2>2. QED
    BY <1>1, <1>3, <1>4, <2>1, NextActs DEF Procs

\* RowAgreesForTurns: as long as no two administrators are at work on one
\* agent, and nothing fails, an agent that nobody is at work on has a row and
\* a document that agree, whatever is done to the other agents meanwhile.
THEOREM RowAgreesForTurns ==
    ASSUME ~Faults, ~Restarts
    PROVE  Spec /\ []TakeTurns => []RowDescribesYaml
<1>1. RowInv /\ TakeTurns /\ TakeTurns' /\ [Next]_vars => RowInv'
  BY RowInvNext
<1>2. RowInv => RowDescribesYaml
  BY DEF RowInv
<1>3. QED
  BY RowInvInit, <1>1, <1>2, PTL DEF Spec

\* A single administrator takes turns with nobody.
THEOREM RowAgreesForOne ==
    ASSUME ~Faults, ~Restarts, NEW admin, Admins = {admin}
    PROVE  Spec => []RowDescribesYaml
<1>1. TakeTurns
  BY DEF TakeTurns
<1>2. QED
  BY <1>1, RowAgreesForTurns, PTL

=============================================================================
