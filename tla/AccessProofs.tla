---------------------------- MODULE AccessProofs ----------------------------
(***************************************************************************)
(* Proofs about Access for any callers, tokens, keys and deployments.      *)
(* The first lemmas are about one record of auth; every action replaces    *)
(* the record of one request, with Goes.                                   *)
(***************************************************************************)
EXTENDS Access, TLAPS

Running == {"idle", "handler", "revoke"} \cup AuthSteps

\* What AccessTypeOK says of one record besides its type.
CallOK(c) ==
    /\ c.pc \in {"find", "touch"} => c.token = Nil /\ c.key # Nil
    /\ c.pc \in {"lock", "fetch", "reply"} => c.token # Nil
    /\ c.pc = "revoke" => c.target # Nil

-----------------------------------------------------------------------------
(* One record *)

\* The fields of a record of type Call.
LEMMA CallFields ==
    ASSUME NEW c \in Call
    PROVE  /\ c.pc \in Running
           /\ c.token \in Tokens \cup {Nil}
           /\ c.key \in ApiKeys \cup {MasterKey, Nil}
           /\ c.arrived \in {"unknown", "active", "revoked"}
           /\ c.user \in Principals \cup {Nil}
           /\ c.rejected \in BOOLEAN
           /\ c.target \in ApiKeys \cup {Nil}
           /\ c.doc \in Seq(Kids)
           /\ c.since \in Nat
BY DEF Call, Running

LEMMA NoCallType == NoCall \in Call /\ CallOK(NoCall)
BY DEF NoCall, Call, CallOK, AuthSteps

\* A step that only moves on.
LEMMA MovedType ==
    ASSUME NEW c \in Call, NEW step \in Running
    PROVE  [c EXCEPT !.pc = step] \in Call
BY DEF Call, Running

\* An authentication that has ended, one way or the other.
LEMMA EndedType ==
    ASSUME NEW c \in Call, NEW step \in Running, NEW u \in Principals \cup {Nil},
           NEW b \in BOOLEAN
    PROVE  /\ [c EXCEPT !.pc = step, !.user = u, !.doc = <<>>, !.since = 0] \in Call
           /\ [c EXCEPT !.pc = step, !.rejected = b, !.doc = <<>>, !.since = 0] \in Call
<1>1. <<>> \in Seq(Kids) /\ 0 \in Nat
  OBVIOUS
<1> QED
  BY <1>1 DEF Call, Running

\* Where Goes leaves the requests.
LEMMA GoesOK ==
    ASSUME auth \in [Callers -> Call], NEW p \in Callers, NEW c \in Call, Goes(p, c)
    PROVE  /\ auth' \in [Callers -> Call]
           /\ auth'[p] = c
           /\ \A q \in Callers \ {p} : auth'[q] = auth[q]
BY DEF Goes

LEMMA GoesType ==
    ASSUME AccessTypeOK, NEW p \in Callers, NEW c \in Call, CallOK(c), Goes(p, c)
    PROVE  auth' \in [Callers -> Call] /\ \A q \in Callers : CallOK(auth'[q])
<1>1. \A q \in Callers : CallOK(auth[q])
  BY DEF AccessTypeOK, CallOK
<1> QED
  BY <1>1, GoesOK DEF AccessTypeOK

LEMMA RefuseType ==
    ASSUME AccessTypeOK, NEW p \in Callers, Refuse(p)
    PROVE  auth' \in [Callers -> Call] /\ \A q \in Callers : CallOK(auth'[q])
<1> DEFINE step == IF p \in Sockets THEN "route" ELSE "refused"
           b == p \in Sockets
           c == [auth[p] EXCEPT !.pc = step, !.rejected = b, !.doc = <<>>, !.since = 0]
<1>1. auth[p] \in Call
  BY DEF AccessTypeOK
<1>2. step \in Running
  BY DEF Running, AuthSteps
<1>3. b \in BOOLEAN
  OBVIOUS
<1>4. Goes(p, c)
  BY DEF Refuse
<1>5. step \in {"route", "refused"}
  OBVIOUS
<1> HIDE DEF step, b
<1>6. c \in Call
  BY <1>1, <1>2, <1>3, EndedType
<1>7. c.pc = step
  BY <1>1 DEF Call
<1>8. CallOK(c)
  BY <1>5, <1>7 DEF CallOK
<1> HIDE DEF c
<1> QED
  BY <1>4, <1>6, <1>8, GoesType

LEMMA DecideType ==
    ASSUME AccessTypeOK, NEW p \in Callers, NEW doc, auth[p].token # Nil, Decide(p, doc)
    PROVE  auth' \in [Callers -> Call] /\ \A q \in Callers : CallOK(auth'[q])
<1>1. auth[p] \in Call
  BY DEF AccessTypeOK
<1>2. auth[p].token \in Tokens
  BY <1>1, CallFields
<1>3. auth[p].token.user \in Principals \cup {Nil}
  BY <1>2, AccessAssumption
<1>4. CASE Authenticated(p, auth[p].token.user)
  <2> DEFINE c == [auth[p] EXCEPT !.pc = "handler", !.user = auth[p].token.user,
                                  !.doc = <<>>, !.since = 0]
  <2>1. c \in Call
    BY <1>1, <1>3, EndedType DEF Running
  <2>2. c.pc = "handler"
    BY <1>1 DEF Call
  <2> QED
    BY <1>4, <2>1, <2>2, GoesType DEF Authenticated, CallOK
<1>5. CASE Refuse(p)
  BY <1>5, RefuseType
<1> QED
  BY <1>4, <1>5 DEF Decide

-----------------------------------------------------------------------------
(* Types *)

LEMMA TypeInit == AccessInit => AccessTypeOK
<1> SUFFICES ASSUME AccessInit PROVE AccessTypeOK
  OBVIOUS
<1>1. \A p \in Callers : auth[p] = NoCall
  BY DEF AccessInit
<1>2. auth \in [Callers -> Call]
  BY NoCallType DEF AccessInit
<1>3. \A p \in Callers : CallOK(auth[p])
  BY <1>1, NoCallType
<1>4. kids \in Seq(Kids)
  BY AccessAssumption DEF AccessInit
<1>5. keys \in [ApiKeys -> KeyRow]
  BY DEF AccessInit, NoRow, KeyRow
<1> QED
  BY <1>2, <1>3, <1>4, <1>5 DEF AccessInit, AccessTypeOK, CallOK

\* The type of what a step does to one record and to nothing else.
LEMMA OneGoesType ==
    ASSUME AccessTypeOK, auth' \in [Callers -> Call], \A q \in Callers : CallOK(auth'[q]),
           UNCHANGED <<deployment, keys, kids, retired, jwks, jwksLock, now>>
    PROVE  AccessTypeOK'
BY DEF AccessTypeOK, CallOK

LEMMA HangType ==
    ASSUME AccessTypeOK, NEW p \in Callers, Hang(p)
    PROVE  auth' \in [Callers -> Call] /\ \A q \in Callers : CallOK(auth'[q])
BY NoCallType, GoesType DEF Hang

LEMMA ProceedType ==
    ASSUME AccessTypeOK, NEW p \in Callers, NEW step \in Running, Proceed(p, step),
           step \in {"find", "touch"} => auth[p].token = Nil /\ auth[p].key # Nil,
           step \in {"lock", "fetch", "reply"} => auth[p].token # Nil,
           step = "revoke" => auth[p].target # Nil
    PROVE  auth' \in [Callers -> Call] /\ \A q \in Callers : CallOK(auth'[q])
<1> DEFINE c == [auth[p] EXCEPT !.pc = step]
<1>1. auth[p] \in Call
  BY DEF AccessTypeOK
<1>2. c \in Call
  BY <1>1, MovedType
<1>3. c.pc = step /\ c.token = auth[p].token /\ c.key = auth[p].key /\ c.target = auth[p].target
  BY <1>1 DEF Call
<1>4. CallOK(c)
  BY <1>3 DEF CallOK
<1>5. Goes(p, c)
  BY DEF Proceed
<1> HIDE DEF c
<1> QED
  BY <1>2, <1>4, <1>5, GoesType

LEMMA AuthenticatedType ==
    ASSUME AccessTypeOK, NEW p \in Callers, NEW u \in Principals \cup {Nil}, Authenticated(p, u)
    PROVE  auth' \in [Callers -> Call] /\ \A q \in Callers : CallOK(auth'[q])
<1> DEFINE c == [auth[p] EXCEPT !.pc = "handler", !.user = u, !.doc = <<>>, !.since = 0]
<1>1. auth[p] \in Call
  BY DEF AccessTypeOK
<1>2. c \in Call
  BY <1>1, EndedType DEF Running
<1>3. c.pc = "handler"
  BY <1>1 DEF Call
<1>4. CallOK(c)
  BY <1>3 DEF CallOK
<1>5. Goes(p, c)
  BY DEF Authenticated
<1> HIDE DEF c
<1> QED
  BY <1>2, <1>4, <1>5, GoesType

LEMMA TypeStep == AccessTypeOK /\ [AccessNext]_accessVars => AccessTypeOK'
<1> SUFFICES ASSUME AccessTypeOK, [AccessNext]_accessVars
             PROVE  AccessTypeOK'
  OBVIOUS
<1>1. CASE UNCHANGED accessVars
  BY <1>1 DEF AccessTypeOK, accessVars
<1>2. CASE Tick
  BY <1>2 DEF AccessTypeOK, Tick
<1>3. CASE Rotate
  BY <1>3, AccessAssumption DEF AccessTypeOK, Rotate
<1>4. ASSUME NEW p \in Callers, Arrive(p) PROVE AccessTypeOK'
  <2>1. PICK c \in Credentials :
          Goes(p, [NoCall EXCEPT !.pc = IF deployment.wired THEN "verify" ELSE "route",
                                 !.token = c[1], !.key = c[2],
                                 !.arrived = IF c[1] = Nil THEN KeyState(c[2]) ELSE "unknown"])
    BY <1>4 DEF Arrive
  <2> DEFINE step == IF deployment.wired THEN "verify" ELSE "route"
             state == IF c[1] = Nil THEN KeyState(c[2]) ELSE "unknown"
             n == [NoCall EXCEPT !.pc = step, !.token = c[1], !.key = c[2], !.arrived = state]
  <2>2. c[1] \in Tokens \cup {Nil} /\ c[2] \in ApiKeys \cup {MasterKey, Nil}
    BY AccessAssumption
  <2>3. step \in {"verify", "route"} /\ state \in {"unknown", "active", "revoked"}
    BY DEF KeyState
  <2>4. Goes(p, n)
    BY <2>1
  <2> HIDE DEF step, state
  <2>5. n \in Call
    BY <2>2, <2>3, NoCallType DEF Call, AuthSteps
  <2>6. n.pc = step
    BY NoCallType DEF Call
  <2>7. CallOK(n)
    BY <2>3, <2>6 DEF CallOK
  <2> HIDE DEF n
  <2> QED
    BY <1>4, <2>4, <2>5, <2>7, GoesType, OneGoesType DEF Arrive
<1>5. ASSUME NEW p \in Callers, Serve(p) PROVE AccessTypeOK'
  <2> DEFINE AuthOK == auth' \in [Callers -> Call] /\ \A q \in Callers : CallOK(auth'[q])
  <2>a. auth[p] \in Call /\ CallOK(auth[p])
    BY DEF AccessTypeOK, CallOK
  <2>1. CASE TokenFromCache(p)
    BY <2>1, DecideType, OneGoesType DEF TokenFromCache
  <2>2. CASE CacheMiss(p)
    BY <2>2, ProceedType, OneGoesType DEF CacheMiss, Running, AuthSteps
  <2>3. CASE Recheck(p)
    BY <2>a, <2>3, DecideType, OneGoesType DEF Recheck, CallOK
  <2>4. CASE BeginFetch(p)
    <3> DEFINE n == [auth[p] EXCEPT !.pc = "fetch", !.since = now]
    <3>1. n \in Call
      BY <2>a DEF AccessTypeOK, Call, AuthSteps
    <3>2. n.pc = "fetch" /\ n.token = auth[p].token
      BY <2>a DEF Call
    <3>3. CallOK(n)
      BY <2>a, <2>4, <3>2 DEF CallOK, BeginFetch
    <3>4. Goes(p, n)
      BY <2>4 DEF BeginFetch
    <3> HIDE DEF n
    <3>5. AuthOK
      BY <3>1, <3>3, <3>4, GoesType
    <3> QED
      BY <2>4, <3>5 DEF BeginFetch, AccessTypeOK, CallOK
  <2>5. CASE JwksAnswered(p)
    <3> DEFINE n == [auth[p] EXCEPT !.pc = "reply", !.doc = kids]
    <3>1. n \in Call
      BY <2>a DEF AccessTypeOK, Call, AuthSteps
    <3>2. n.pc = "reply" /\ n.token = auth[p].token
      BY <2>a DEF Call
    <3>3. CallOK(n)
      BY <2>a, <2>5, <3>2 DEF CallOK, JwksAnswered
    <3>4. Goes(p, n)
      BY <2>5 DEF JwksAnswered
    <3> HIDE DEF n
    <3> QED
      BY <2>5, <3>1, <3>3, <3>4, GoesType, OneGoesType DEF JwksAnswered
  <2>6. CASE StoreJwks(p)
    <3>1. AuthOK
      BY <2>a, <2>6, DecideType DEF StoreJwks, CallOK
    <3>2. jwks' \in [doc : Seq(Kids), at : Nat]
      BY <2>a, <2>6, CallFields DEF StoreJwks, AccessTypeOK
    <3> QED
      BY <2>6, <3>1, <3>2 DEF StoreJwks, AccessTypeOK, CallOK
  <2>7. CASE FetchFails(p)
    <3>1. AuthOK
      BY <2>7, RefuseType DEF FetchFails
    <3> QED
      BY <2>7, <3>1 DEF FetchFails, AccessTypeOK, CallOK
  <2>8. CASE WithoutToken(p)
    BY <2>8, ProceedType, RefuseType, OneGoesType DEF WithoutToken, Running, AuthSteps
  <2>9. CASE FindKey(p)
    <3>1. CASE Found(auth[p].key)
      <4> DEFINE u == keys[auth[p].key].owner
                 n == [auth[p] EXCEPT !.pc = "touch", !.user = u]
      <4>1. u \in Principals \cup {Nil}
        BY <3>1 DEF Found, AccessTypeOK, KeyRow
      <4>2. Goes(p, n)
        BY <2>9, <3>1 DEF FindKey
      <4> HIDE DEF u
      <4>3. n \in Call
        BY <2>a, <4>1 DEF Call, AuthSteps
      <4>4. n.pc = "touch" /\ n.token = auth[p].token /\ n.key = auth[p].key
        BY <2>a DEF Call
      <4>5. CallOK(n)
        BY <2>a, <2>9, <4>4 DEF CallOK, FindKey
      <4> HIDE DEF n
      <4> QED
        BY <2>9, <4>2, <4>3, <4>5, GoesType, OneGoesType DEF FindKey
    <3>2. CASE Refuse(p)
      BY <2>9, <3>2, RefuseType, OneGoesType DEF FindKey
    <3> QED
      BY <2>9, <3>1, <3>2 DEF FindKey
  <2>10. CASE TouchKey(p)
    <3>1. AuthOK
      BY <2>a, <2>10, CallFields, AuthenticatedType DEF TouchKey
    <3>2. keys' = keys
      BY <2>10 DEF TouchKey, Touched, AccessTypeOK
    <3> QED
      BY <2>10, <3>1, <3>2, OneGoesType DEF TouchKey
  <2>11. CASE StatementFails(p)
    BY <2>11, HangType, OneGoesType DEF StatementFails
  <2>12. CASE Leave(p)
    BY <2>12, HangType, OneGoesType DEF Leave
  <2>13. CASE MasterKeyHandshake(p)
    BY <2>13, HangType, AuthenticatedType, OneGoesType DEF MasterKeyHandshake
  <2>14. CASE Finish(p)
    BY <2>14, HangType, OneGoesType DEF Finish
  <2>15. CASE CreateKey(p)
    <3>1. AuthOK
      BY <2>15, HangType DEF CreateKey
    <3>2. auth[p].user \in Principals \cup {Nil}
      BY <2>a, CallFields
    <3>3. keys' \in [ApiKeys -> KeyRow]
      BY <2>15, <3>2 DEF CreateKey, AccessTypeOK, KeyRow
    <3> QED
      BY <2>15, <3>1, <3>3 DEF CreateKey, AccessTypeOK, CallOK
  <2>16. CASE SelectToRevoke(p)
    <3>1. PICK k \in ApiKeys :
            IF keys[k].owner = auth[p].user /\ ~keys[k].revoked
              THEN Goes(p, [auth[p] EXCEPT !.pc = "revoke", !.target = k])
              ELSE Hang(p)
      BY <2>16 DEF SelectToRevoke
    <3> DEFINE n == [auth[p] EXCEPT !.pc = "revoke", !.target = k]
    <3>2. n \in Call
      BY <2>a DEF Call
    <3>3. n.pc = "revoke" /\ n.target = k /\ k # Nil
      BY <2>a, AccessAssumption DEF Call
    <3>4. CallOK(n)
      BY <3>3 DEF CallOK
    <3>5. Goes(p, n) \/ Hang(p)
      BY <3>1
    <3> HIDE DEF n
    <3> QED
      BY <2>16, <3>2, <3>4, <3>5, HangType, GoesType, OneGoesType DEF SelectToRevoke
  <2>17. CASE Revoke(p)
    <3>1. AuthOK
      BY <2>17, HangType DEF Revoke
    <3>2. keys' \in [ApiKeys -> KeyRow]
      BY <2>17 DEF Revoke, AccessTypeOK, KeyRow
    <3> QED
      BY <2>17, <3>1, <3>2 DEF Revoke, AccessTypeOK, CallOK
  <2> QED
    BY <1>5, <2>1, <2>2, <2>3, <2>4, <2>5, <2>6, <2>7, <2>8, <2>9, <2>10, <2>11,
       <2>12, <2>13, <2>14, <2>15, <2>16, <2>17 DEF Serve
<1> QED
  BY <1>1, <1>2, <1>3, <1>4, <1>5 DEF AccessNext

\* For every instance: the types, and what a step of a request relies on.
THEOREM AccessTypeCorrect == AccessSpec => []AccessTypeOK
<1> QED
  BY TypeInit, TypeStep, PTL DEF AccessSpec

-----------------------------------------------------------------------------
(* What a step of a request does to its record *)

\* The credentials of a request stay; its step is one of a set.
SameRequest(c, n) ==
    n.token = c.token /\ n.key = c.key /\ n.arrived = c.arrived

OthersStay(p) == \A q \in Callers \ {p} : auth'[q] = auth[q]

LEMMA Hung ==
    ASSUME AccessTypeOK, NEW p \in Callers, Hang(p)
    PROVE  auth'[p] = NoCall /\ auth'[p].pc = "idle" /\ OthersStay(p)
BY DEF Hang, Goes, AccessTypeOK, NoCall, OthersStay

LEMMA Arrived ==
    ASSUME AccessTypeOK, NEW p \in Callers, Arrive(p)
    PROVE  auth'[p].pc \in {"verify", "route"} /\ OthersStay(p)
BY NoCallType DEF Arrive, Goes, AccessTypeOK, Call, OthersStay

LEMMA Proceeded ==
    ASSUME AccessTypeOK, NEW p \in Callers, NEW step, Proceed(p, step)
    PROVE  /\ auth'[p].pc = step
           /\ SameRequest(auth[p], auth'[p])
           /\ auth'[p].user = auth[p].user
           /\ auth'[p].rejected = auth[p].rejected
           /\ OthersStay(p)
<1>1. auth[p] \in Call
  BY DEF AccessTypeOK
<1>2. auth'[p] = [auth[p] EXCEPT !.pc = step] /\ OthersStay(p)
  BY DEF Proceed, Goes, AccessTypeOK, OthersStay
<1> QED
  BY <1>1, <1>2 DEF Call, SameRequest

LEMMA LetIn ==
    ASSUME AccessTypeOK, NEW p \in Callers, NEW u, Authenticated(p, u)
    PROVE  /\ auth'[p].pc = "handler"
           /\ SameRequest(auth[p], auth'[p])
           /\ auth'[p].user = u
           /\ auth'[p].rejected = auth[p].rejected
           /\ OthersStay(p)
<1>1. auth[p] \in Call
  BY DEF AccessTypeOK
<1>2. /\ auth'[p] = [auth[p] EXCEPT !.pc = "handler", !.user = u, !.doc = <<>>, !.since = 0]
      /\ OthersStay(p)
  BY DEF Authenticated, Goes, AccessTypeOK, OthersStay
<1> QED
  BY <1>1, <1>2 DEF Call, SameRequest

LEMMA Refused ==
    ASSUME AccessTypeOK, NEW p \in Callers, Refuse(p)
    PROVE  /\ auth'[p].pc \in {"route", "refused"}
           /\ auth'[p].rejected => auth'[p].pc = "route"
           /\ SameRequest(auth[p], auth'[p])
           /\ OthersStay(p)
<1>1. auth[p] \in Call
  BY DEF AccessTypeOK
<1>2. /\ auth'[p] = [auth[p] EXCEPT !.pc = IF p \in Sockets THEN "route" ELSE "refused",
                                    !.rejected = p \in Sockets, !.doc = <<>>, !.since = 0]
      /\ OthersStay(p)
  BY DEF Refuse, Goes, AccessTypeOK, OthersStay
<1>3. /\ auth'[p].pc = IF p \in Sockets THEN "route" ELSE "refused"
      /\ auth'[p].rejected = (p \in Sockets)
      /\ SameRequest(auth[p], auth'[p])
  BY <1>1, <1>2 DEF Call, SameRequest
<1> QED
  BY <1>2, <1>3

LEMMA DecidedOn ==
    ASSUME AccessTypeOK, NEW p \in Callers, NEW doc, Decide(p, doc)
    PROVE  /\ auth'[p].pc \in {"handler", "route", "refused"}
           /\ SameRequest(auth[p], auth'[p])
           /\ OthersStay(p)
           /\ auth'[p].pc = "handler" =>
                /\ Verifies(doc, auth[p].token)
                /\ auth'[p].user = auth[p].token.user
                /\ auth'[p].rejected = auth[p].rejected
           /\ auth'[p].pc # "handler" /\ auth'[p].rejected => auth'[p].pc = "route"
<1>1. CASE Authenticated(p, auth[p].token.user) /\ Verifies(doc, auth[p].token)
  BY <1>1, LetIn
<1>2. CASE Refuse(p)
  BY <1>2, Refused
<1> QED
  BY <1>1, <1>2 DEF Decide

-----------------------------------------------------------------------------
(* Rows of api_keys *)

KeysOnlyGrow ==
    \A k \in ApiKeys :
      /\ keys[k].revoked => keys'[k].revoked
      /\ keys[k].owner # Nil => keys'[k].owner = keys[k].owner

LEMMA KeysGrow == AccessTypeOK /\ [AccessNext]_accessVars => KeysOnlyGrow
<1> SUFFICES ASSUME AccessTypeOK, [AccessNext]_accessVars PROVE KeysOnlyGrow
  OBVIOUS
<1>1. CASE UNCHANGED keys
  BY <1>1 DEF KeysOnlyGrow
<1>2. ASSUME NEW p \in Callers, TouchKey(p) PROVE KeysOnlyGrow
  BY <1>2 DEF TouchKey, Touched, AccessTypeOK, KeysOnlyGrow
<1>3. ASSUME NEW p \in Callers, CreateKey(p) PROVE KeysOnlyGrow
  BY <1>3 DEF CreateKey, AccessTypeOK, KeyRow, KeysOnlyGrow
<1>4. ASSUME NEW p \in Callers, Revoke(p) PROVE KeysOnlyGrow
  BY <1>4 DEF Revoke, AccessTypeOK, KeyRow, KeysOnlyGrow
<1> QED
  BY <1>1, <1>2, <1>3, <1>4
  DEF AccessNext, accessVars, Serve, Tick, Rotate, Arrive, TokenFromCache, CacheMiss,
      Recheck, BeginFetch, JwksAnswered, StoreJwks, FetchFails, WithoutToken, FindKey,
      StatementFails, Leave, MasterKeyHandshake, Finish, SelectToRevoke

\* No interleaving of authentications brings a revoked key back.
THEOREM RevokedForGood == AccessSpec => RevocationSticks
<1>1. AccessTypeOK /\ [AccessNext]_accessVars => [KeysOnlyGrow]_accessVars
  BY KeysGrow
<1>2. AccessSpec => [][KeysOnlyGrow]_accessVars
  BY <1>1, AccessTypeCorrect, PTL DEF AccessSpec
<1> QED
  BY <1>2 DEF RevocationSticks, KeysOnlyGrow

-----------------------------------------------------------------------------
(* The lock of the fetch *)

HoldsLock(p) == auth[p].pc \in {"fetch", "reply"} <=> jwksLock = p

LockInv == \A p \in Callers : HoldsLock(p)

LEMMA LockInit == AccessInit => LockInv
<1> SUFFICES ASSUME AccessInit, NEW p \in Callers PROVE HoldsLock(p)
  BY DEF LockInv
<1>1. auth[p] = NoCall /\ jwksLock = Nil
  BY DEF AccessInit
<1>2. auth[p].pc = "idle"
  BY <1>1 DEF NoCall
<1>3. p # Nil
  BY AccessAssumption
<1> QED
  BY <1>1, <1>2, <1>3 DEF HoldsLock

\* A step of p that takes, keeps or drops the lock.
LEMMA LockKept ==
    ASSUME AccessTypeOK, LockInv, NEW p \in Callers, OthersStay(p), HoldsLock(p)',
           \/ UNCHANGED jwksLock
           \/ jwksLock = Nil /\ jwksLock' = p
           \/ jwksLock = p /\ jwksLock' = Nil
    PROVE  LockInv'
<1>1. Nil \notin Callers
  BY AccessAssumption
<1> QED
  BY <1>1 DEF LockInv, HoldsLock, OthersStay

\* A step of p that has nothing to do with the lock.
LEMMA LockUntouched ==
    ASSUME AccessTypeOK, LockInv, NEW p \in Callers, OthersStay(p), UNCHANGED jwksLock,
           auth[p].pc \notin {"fetch", "reply"}, auth'[p].pc \notin {"fetch", "reply"}
    PROVE  LockInv'
<1>1. HoldsLock(p)'
  BY DEF LockInv, HoldsLock
<1> QED
  BY <1>1, LockKept

LEMMA LockStep == AccessTypeOK /\ LockInv /\ [AccessNext]_accessVars => LockInv'
<1> SUFFICES ASSUME AccessTypeOK, LockInv, [AccessNext]_accessVars
             PROVE  LockInv'
  OBVIOUS
<1>1. CASE UNCHANGED <<auth, jwksLock>>
  BY <1>1 DEF LockInv, HoldsLock
<1>2. ASSUME NEW p \in Callers, Arrive(p) PROVE LockInv'
  BY <1>2, Arrived, LockUntouched DEF Arrive
<1>3. ASSUME NEW p \in Callers, Serve(p) PROVE LockInv'
  <2>a. auth[p] \in Call
    BY DEF AccessTypeOK
  <2>1. CASE TokenFromCache(p)
    BY <2>1, DecidedOn, LockUntouched DEF TokenFromCache
  <2>2. CASE CacheMiss(p)
    BY <2>2, Proceeded, LockUntouched DEF CacheMiss
  <2>3. CASE Recheck(p)
    BY <2>3, DecidedOn, LockUntouched DEF Recheck
  <2>4. CASE BeginFetch(p)
    <3>1. auth'[p].pc = "fetch" /\ OthersStay(p)
      BY <2>a, <2>4 DEF BeginFetch, Goes, AccessTypeOK, Call, OthersStay
    <3> QED
      BY <2>4, <3>1, LockKept DEF BeginFetch, HoldsLock
  <2>5. CASE JwksAnswered(p)
    <3>1. auth'[p].pc = "reply" /\ OthersStay(p)
      BY <2>a, <2>5 DEF JwksAnswered, Goes, AccessTypeOK, Call, OthersStay
    <3>2. jwksLock = p /\ jwksLock' = jwksLock
      BY <2>5 DEF JwksAnswered, LockInv, HoldsLock
    <3> QED
      BY <3>1, <3>2, LockKept DEF HoldsLock
  <2>6. CASE StoreJwks(p)
    <3>1. jwksLock = p /\ jwksLock' = Nil /\ Nil # p
      BY <2>6, AccessAssumption DEF StoreJwks, LockInv, HoldsLock
    <3>2. auth'[p].pc \notin {"fetch", "reply"} /\ OthersStay(p)
      BY <2>6, DecidedOn DEF StoreJwks
    <3> QED
      BY <3>1, <3>2, LockKept DEF HoldsLock
  <2>7. CASE FetchFails(p)
    <3>1. jwksLock = p /\ jwksLock' = Nil /\ Nil # p
      BY <2>7, AccessAssumption DEF FetchFails, LockInv, HoldsLock
    <3>2. auth'[p].pc \notin {"fetch", "reply"} /\ OthersStay(p)
      BY <2>7, Refused DEF FetchFails
    <3> QED
      BY <3>1, <3>2, LockKept DEF HoldsLock
  <2>8. CASE WithoutToken(p)
    BY <2>8, Proceeded, Refused, LockUntouched DEF WithoutToken
  <2>9. CASE FindKey(p)
    <3>1. auth'[p].pc \in {"touch", "route", "refused"} /\ OthersStay(p)
      <4>1. CASE Refuse(p)
        BY <4>1, Refused
      <4>2. CASE Goes(p, [auth[p] EXCEPT !.pc = "touch", !.user = keys[auth[p].key].owner])
        BY <2>a, <4>2 DEF Goes, AccessTypeOK, Call, OthersStay
      <4> QED
        BY <2>9, <4>1, <4>2 DEF FindKey
    <3> QED
      BY <2>9, <3>1, LockUntouched DEF FindKey
  <2>10. CASE TouchKey(p)
    BY <2>10, LetIn, LockUntouched DEF TouchKey
  <2>11. CASE StatementFails(p)
    BY <2>11, Hung, LockUntouched DEF StatementFails
  <2>12. CASE Leave(p)
    BY <2>12, Hung, LockUntouched DEF Leave
  <2>13. CASE MasterKeyHandshake(p)
    BY <2>13, Hung, LetIn, LockUntouched DEF MasterKeyHandshake
  <2>14. CASE Finish(p)
    BY <2>14, Hung, LockUntouched DEF Finish
  <2>15. CASE CreateKey(p)
    BY <2>15, Hung, LockUntouched DEF CreateKey
  <2>16. CASE SelectToRevoke(p)
    <3>1. auth'[p].pc \in {"revoke", "idle"} /\ OthersStay(p)
      <4>1. CASE Hang(p)
        BY <4>1, Hung
      <4>2. ASSUME NEW k, Goes(p, [auth[p] EXCEPT !.pc = "revoke", !.target = k])
            PROVE  auth'[p].pc = "revoke" /\ OthersStay(p)
        BY <2>a, <4>2 DEF Goes, AccessTypeOK, Call, OthersStay
      <4> QED
        BY <2>16, <4>1, <4>2 DEF SelectToRevoke
    <3> QED
      BY <2>16, <3>1, LockUntouched DEF SelectToRevoke
  <2>17. CASE Revoke(p)
    BY <2>17, Hung, LockUntouched DEF Revoke
  <2> QED
    BY <1>3, <2>1, <2>2, <2>3, <2>4, <2>5, <2>6, <2>7, <2>8, <2>9, <2>10, <2>11,
       <2>12, <2>13, <2>14, <2>15, <2>16, <2>17 DEF Serve
<1> QED
  BY <1>1, <1>2, <1>3 DEF AccessNext, accessVars, Tick, Rotate

\* One call to the identity provider at a time, and only for a stale document.
OneFetch ==
    \A p \in Callers :
      auth[p].pc # "fetch" /\ auth'[p].pc = "fetch" =>
        /\ ~Fresh
        /\ \A q \in Callers : auth[q].pc \notin {"fetch", "reply"}

LEMMA FetchStep == AccessTypeOK /\ LockInv /\ [AccessNext]_accessVars => OneFetch
<1> SUFFICES ASSUME AccessTypeOK, LockInv, [AccessNext]_accessVars,
                    NEW p \in Callers, auth[p].pc # "fetch", auth'[p].pc = "fetch"
             PROVE  ~Fresh /\ \A q \in Callers : auth[q].pc \notin {"fetch", "reply"}
  BY DEF OneFetch
<1>1. \/ \E q \in Callers : Arrive(q) \/ Serve(q)
      \/ UNCHANGED auth
  BY DEF AccessNext, accessVars, Tick, Rotate
<1>2. ASSUME NEW q \in Callers, Arrive(q) PROVE FALSE
  BY <1>2, Arrived DEF OthersStay
<1>3. ASSUME NEW q \in Callers, Serve(q), ~BeginFetch(q) PROVE FALSE
  <2>a. auth[q] \in Call
    BY DEF AccessTypeOK
  <2>1. CASE TokenFromCache(q) \/ Recheck(q) \/ StoreJwks(q)
    BY <2>1, DecidedOn DEF TokenFromCache, Recheck, StoreJwks, OthersStay
  <2>2. CASE CacheMiss(q) \/ WithoutToken(q) \/ FetchFails(q)
    BY <2>2, Proceeded, Refused DEF CacheMiss, WithoutToken, FetchFails, OthersStay
  <2>3. CASE JwksAnswered(q)
    <3>1. auth'[q].pc = "reply" /\ OthersStay(q)
      BY <2>a, <2>3 DEF JwksAnswered, Goes, AccessTypeOK, Call, OthersStay
    <3> QED
      BY <3>1 DEF OthersStay
  <2>4. CASE FindKey(q)
    <3>1. CASE Refuse(q)
      BY <3>1, Refused DEF OthersStay
    <3>2. CASE Goes(q, [auth[q] EXCEPT !.pc = "touch", !.user = keys[auth[q].key].owner])
      BY <2>a, <3>2 DEF Goes, AccessTypeOK, Call
    <3> QED
      BY <2>4, <3>1, <3>2 DEF FindKey
  <2>5. CASE TouchKey(q) \/ StatementFails(q) \/ Leave(q) \/ Finish(q) \/ CreateKey(q) \/ Revoke(q)
    BY <2>5, LetIn, Hung
    DEF TouchKey, StatementFails, Leave, Finish, CreateKey, Revoke, OthersStay
  <2>6. CASE MasterKeyHandshake(q)
    BY <2>6, LetIn, Hung DEF MasterKeyHandshake, OthersStay
  <2>7. CASE SelectToRevoke(q)
    <3>1. CASE Hang(q)
      BY <3>1, Hung DEF OthersStay
    <3>2. ASSUME NEW k, Goes(q, [auth[q] EXCEPT !.pc = "revoke", !.target = k]) PROVE FALSE
      BY <2>a, <3>2 DEF Goes, AccessTypeOK, Call
    <3> QED
      BY <2>7, <3>1, <3>2 DEF SelectToRevoke
  <2> QED
    BY <1>3, <2>1, <2>2, <2>3, <2>4, <2>5, <2>6, <2>7 DEF Serve
<1>4. ASSUME NEW q \in Callers, BeginFetch(q)
      PROVE  ~Fresh /\ \A r \in Callers : auth[r].pc \notin {"fetch", "reply"}
  BY <1>4, AccessAssumption DEF BeginFetch, LockInv, HoldsLock
<1> QED
  BY <1>1, <1>2, <1>3, <1>4

LEMMA LockHeld == AccessSpec => []LockInv
<1> QED
  BY LockInit, LockStep, AccessTypeCorrect, PTL DEF AccessSpec

\* However many requests wait, the identity provider is asked once.
THEOREM FetchedOnce == AccessSpec => FetchOnlyWhenStale
<1>1. AccessTypeOK /\ LockInv /\ [AccessNext]_accessVars => [OneFetch]_accessVars
  BY FetchStep
<1>2. AccessSpec => [][OneFetch]_accessVars
  BY <1>1, AccessTypeCorrect, LockHeld, PTL DEF AccessSpec
<1> QED
  BY <1>2 DEF FetchOnlyWhenStale, OneFetch

-----------------------------------------------------------------------------
(* Whose request it is *)

Checking == {"verify", "lock", "fetch", "reply", "find", "touch"}

TokenUser(p) ==
    /\ auth[p].token # Nil
    /\ auth[p].token.good
    /\ auth[p].user = auth[p].token.user

KeyUser(p) ==
    /\ auth[p].token = Nil
    /\ auth[p].key \in ApiKeys
    /\ keys[auth[p].key].owner # Nil
    /\ auth[p].user = keys[auth[p].key].owner
    /\ auth[p].arrived # "revoked"

\* A key that had been revoked when the request arrived is revoked still.
ArrivalTrue(p) ==
    auth[p].arrived = "revoked" => auth[p].key \in ApiKeys /\ keys[auth[p].key].revoked

RecordOK(p) ==
    /\ auth[p].pc \in Checking => deployment.wired
    /\ auth[p].rejected => deployment.wired /\ auth[p].pc = "route"
    /\ ArrivalTrue(p)
    /\ auth[p].pc = "touch" => KeyUser(p)
    /\ deployment.wired /\ Inside(p) => TokenUser(p) \/ KeyUser(p)

EarnedInv == \A p \in Callers : RecordOK(p)

LEMMA EarnedInit == AccessInit => EarnedInv
<1> SUFFICES ASSUME AccessInit, NEW p \in Callers PROVE RecordOK(p)
  BY DEF EarnedInv
<1>1. auth[p] = NoCall
  BY DEF AccessInit
<1>2. auth[p].pc = "idle" /\ auth[p].rejected = FALSE /\ auth[p].arrived = "unknown"
  BY <1>1 DEF NoCall
<1> QED
  BY <1>2 DEF RecordOK, Checking, ArrivalTrue, Inside

\* The records a step does not touch keep what is said of them, whatever the
\* step does to the rows of api_keys.
LEMMA OthersEarned ==
    ASSUME EarnedInv, KeysOnlyGrow, UNCHANGED deployment,
           NEW p \in Callers, OthersStay(p), RecordOK(p)'
    PROVE  EarnedInv'
<1> SUFFICES ASSUME NEW q \in Callers, q # p PROVE RecordOK(q)'
  BY DEF EarnedInv
<1>1. auth'[q] = auth[q] /\ RecordOK(q)
  BY DEF OthersStay, EarnedInv
<1>2. KeyUser(q) => KeyUser(q)'
  BY <1>1 DEF KeyUser, KeysOnlyGrow
<1>3. ArrivalTrue(q) => ArrivalTrue(q)'
  BY <1>1 DEF ArrivalTrue, KeysOnlyGrow
<1>4. TokenUser(q) => TokenUser(q)'
  BY <1>1 DEF TokenUser
<1> QED
  BY <1>1, <1>2, <1>3, <1>4 DEF RecordOK, Inside

LEMMA ArrivalKept ==
    ASSUME KeysOnlyGrow, NEW p \in Callers, ArrivalTrue(p), SameRequest(auth[p], auth'[p])
    PROVE  ArrivalTrue(p)'
BY DEF ArrivalTrue, KeysOnlyGrow, SameRequest

LEMMA HungEarned ==
    ASSUME AccessTypeOK, EarnedInv, KeysOnlyGrow, UNCHANGED deployment,
           NEW p \in Callers, Hang(p)
    PROVE  EarnedInv'
<1>1. auth'[p] = NoCall /\ OthersStay(p)
  BY Hung
<1>2. auth'[p].pc = "idle" /\ auth'[p].rejected = FALSE /\ auth'[p].arrived = "unknown"
  BY <1>1 DEF NoCall
<1>3. RecordOK(p)'
  BY <1>2 DEF RecordOK, Checking, ArrivalTrue, Inside
<1> QED
  BY <1>1, <1>3, OthersEarned

\* A request under examination goes on, to a step that is not touch.
LEMMA MovedEarned ==
    ASSUME EarnedInv, KeysOnlyGrow, UNCHANGED deployment,
           NEW p \in Callers, OthersStay(p), SameRequest(auth[p], auth'[p]),
           auth[p].pc \in Checking, auth'[p].pc \in Checking \ {"touch"},
           auth'[p].rejected = auth[p].rejected
    PROVE  EarnedInv'
<1>1. RecordOK(p) /\ deployment.wired /\ deployment'.wired
  BY DEF EarnedInv, RecordOK
<1>2. ~auth'[p].rejected
  BY <1>1 DEF RecordOK, Checking
<1>3. ArrivalTrue(p)'
  BY <1>1, ArrivalKept DEF RecordOK
<1>4. RecordOK(p)'
  BY <1>1, <1>2, <1>3 DEF RecordOK, Checking, Inside
<1> QED
  BY <1>4, OthersEarned

LEMMA RefusedEarned ==
    ASSUME AccessTypeOK, EarnedInv, KeysOnlyGrow, UNCHANGED deployment,
           NEW p \in Callers, auth[p].pc \in Checking, Refuse(p)
    PROVE  EarnedInv'
<1>1. RecordOK(p) /\ deployment'.wired
  BY DEF EarnedInv, RecordOK
<1>2. /\ auth'[p].pc \in {"route", "refused"}
      /\ auth'[p].rejected => auth'[p].pc = "route"
      /\ SameRequest(auth[p], auth'[p])
      /\ OthersStay(p)
  BY Refused
<1>3. ArrivalTrue(p)'
  BY <1>1, <1>2, ArrivalKept DEF RecordOK
<1>4. RecordOK(p)'
  BY <1>1, <1>2, <1>3 DEF RecordOK, Checking, Inside
<1> QED
  BY <1>2, <1>4, OthersEarned

\* A request gets in: what has to be shown is whose it is.
LEMMA EnteredEarned ==
    ASSUME EarnedInv, KeysOnlyGrow, UNCHANGED deployment,
           NEW p \in Callers, OthersStay(p), SameRequest(auth[p], auth'[p]),
           auth'[p].pc = "handler",
           ~auth'[p].rejected,
           deployment.wired => TokenUser(p)' \/ KeyUser(p)'
    PROVE  EarnedInv'
<1>1. ArrivalTrue(p)'
  BY ArrivalKept DEF EarnedInv, RecordOK
<1>2. RecordOK(p)'
  BY <1>1 DEF RecordOK, Checking, Inside
<1> QED
  BY <1>2, OthersEarned

LEMMA DecidedEarned ==
    ASSUME AccessTypeOK, EarnedInv, KeysOnlyGrow, UNCHANGED deployment,
           NEW p \in Callers, auth[p].pc \in Checking, auth[p].token # Nil,
           NEW doc, Decide(p, doc)
    PROVE  EarnedInv'
<1>1. CASE Refuse(p)
  BY <1>1, RefusedEarned
<1>2. CASE Verifies(doc, auth[p].token) /\ Authenticated(p, auth[p].token.user)
  <2>1. /\ auth'[p].pc = "handler"
        /\ SameRequest(auth[p], auth'[p])
        /\ auth'[p].user = auth[p].token.user
        /\ auth'[p].rejected = auth[p].rejected
        /\ OthersStay(p)
    BY <1>2, LetIn
  <2>2. ~auth'[p].rejected
    BY <2>1 DEF EarnedInv, RecordOK, Checking
  <2>3. TokenUser(p)'
    BY <1>2, <2>1 DEF TokenUser, SameRequest, Verifies
  <2> QED
    BY <2>1, <2>2, <2>3, EnteredEarned
<1> QED
  BY <1>1, <1>2 DEF Decide

LEMMA EarnedStep == AccessTypeOK /\ EarnedInv /\ [AccessNext]_accessVars => EarnedInv'
<1> SUFFICES ASSUME AccessTypeOK, EarnedInv, [AccessNext]_accessVars
             PROVE  EarnedInv'
  OBVIOUS
<1>a. KeysOnlyGrow
  BY KeysGrow
<1>b. UNCHANGED deployment
  BY DEF AccessNext, accessVars, Tick, Rotate, Arrive, Serve, TokenFromCache, CacheMiss,
         Recheck, BeginFetch, JwksAnswered, StoreJwks, FetchFails, WithoutToken, FindKey,
         TouchKey, StatementFails, Leave, MasterKeyHandshake, Finish, CreateKey,
         SelectToRevoke, Revoke
<1>1. CASE UNCHANGED <<auth, keys>>
  <2> SUFFICES ASSUME NEW p \in Callers PROVE RecordOK(p)'
    BY DEF EarnedInv
  <2>1. RecordOK(p)
    BY DEF EarnedInv
  <2> QED
    BY <1>1, <1>b, <2>1 DEF RecordOK, ArrivalTrue, KeyUser, TokenUser, Inside
<1>2. ASSUME NEW p \in Callers, Arrive(p) PROVE EarnedInv'
  <2>1. PICK c \in Credentials :
          Goes(p, [NoCall EXCEPT !.pc = IF deployment.wired THEN "verify" ELSE "route",
                                 !.token = c[1], !.key = c[2],
                                 !.arrived = IF c[1] = Nil THEN KeyState(c[2]) ELSE "unknown"])
    BY <1>2 DEF Arrive
  <2>2. /\ auth'[p].pc = IF deployment.wired THEN "verify" ELSE "route"
        /\ auth'[p].key = c[2]
        /\ auth'[p].arrived = IF c[1] = Nil THEN KeyState(c[2]) ELSE "unknown"
        /\ auth'[p].rejected = FALSE
        /\ OthersStay(p)
    BY <2>1 DEF Goes, AccessTypeOK, NoCall, OthersStay
  <2>3. UNCHANGED keys
    BY <1>2 DEF Arrive
  <2>4. ArrivalTrue(p)'
    BY <2>2, <2>3 DEF ArrivalTrue, KeyState
  <2>5. RecordOK(p)'
    BY <1>b, <2>2, <2>4 DEF RecordOK, Checking, Inside
  <2> QED
    BY <1>a, <1>b, <2>2, <2>5, OthersEarned
<1>3. ASSUME NEW p \in Callers, Serve(p) PROVE EarnedInv'
  <2>a. auth[p] \in Call /\ RecordOK(p)
    BY DEF AccessTypeOK, EarnedInv
  <2>b. auth[p].pc \in {"lock", "fetch", "reply"} => auth[p].token # Nil
    BY DEF AccessTypeOK
  <2>1. CASE TokenFromCache(p)
    BY <1>a, <1>b, <2>1, DecidedEarned DEF TokenFromCache, Checking
  <2>2. CASE CacheMiss(p)
    <3>1. /\ auth'[p].pc = "lock" /\ SameRequest(auth[p], auth'[p])
          /\ auth'[p].rejected = auth[p].rejected /\ OthersStay(p)
      BY <2>2, Proceeded DEF CacheMiss
    <3> QED
      BY <1>a, <1>b, <2>2, <3>1, MovedEarned DEF CacheMiss, Checking
  <2>3. CASE Recheck(p)
    BY <1>a, <1>b, <2>b, <2>3, DecidedEarned DEF Recheck, Checking
  <2>4. CASE BeginFetch(p)
    <3>1. /\ auth'[p].pc = "fetch" /\ SameRequest(auth[p], auth'[p])
          /\ auth'[p].rejected = auth[p].rejected /\ OthersStay(p)
      BY <2>a, <2>4 DEF BeginFetch, Goes, AccessTypeOK, Call, OthersStay, SameRequest
    <3> QED
      BY <1>a, <1>b, <2>4, <3>1, MovedEarned DEF BeginFetch, Checking
  <2>5. CASE JwksAnswered(p)
    <3>1. /\ auth'[p].pc = "reply" /\ SameRequest(auth[p], auth'[p])
          /\ auth'[p].rejected = auth[p].rejected /\ OthersStay(p)
      BY <2>a, <2>5 DEF JwksAnswered, Goes, AccessTypeOK, Call, OthersStay, SameRequest
    <3> QED
      BY <1>a, <1>b, <2>5, <3>1, MovedEarned DEF JwksAnswered, Checking
  <2>6. CASE StoreJwks(p)
    BY <1>a, <1>b, <2>b, <2>6, DecidedEarned DEF StoreJwks, Checking
  <2>7. CASE FetchFails(p)
    BY <1>a, <1>b, <2>7, RefusedEarned DEF FetchFails, Checking
  <2>8. CASE WithoutToken(p)
    <3>1. CASE Refuse(p)
      BY <1>a, <1>b, <2>8, <3>1, RefusedEarned DEF WithoutToken, Checking
    <3>2. CASE Proceed(p, "find")
      <4>1. /\ auth'[p].pc = "find" /\ SameRequest(auth[p], auth'[p])
            /\ auth'[p].rejected = auth[p].rejected /\ OthersStay(p)
        BY <3>2, Proceeded
      <4> QED
        BY <1>a, <1>b, <2>8, <4>1, MovedEarned DEF WithoutToken, Checking
    <3> QED
      BY <2>8, <3>1, <3>2 DEF WithoutToken
  <2>9. CASE FindKey(p)
    <3>1. CASE Refuse(p)
      BY <1>a, <1>b, <2>9, <3>1, RefusedEarned DEF FindKey, Checking
    <3>2. CASE /\ Found(auth[p].key)
               /\ Goes(p, [auth[p] EXCEPT !.pc = "touch", !.user = keys[auth[p].key].owner])
      <4>1. /\ auth'[p].pc = "touch" /\ SameRequest(auth[p], auth'[p])
            /\ auth'[p].user = keys[auth[p].key].owner
            /\ auth'[p].rejected = auth[p].rejected /\ OthersStay(p)
        BY <2>a, <3>2 DEF Goes, AccessTypeOK, Call, OthersStay, SameRequest
      <4>2. auth[p].pc = "find" /\ auth[p].token = Nil /\ UNCHANGED keys
        BY <2>9 DEF FindKey, AccessTypeOK
      <4>3. auth[p].arrived # "revoked"
        BY <2>a, <3>2 DEF Found, RecordOK, ArrivalTrue
      <4>4. KeyUser(p)'
        BY <3>2, <4>1, <4>2, <4>3 DEF KeyUser, Found, SameRequest
      <4>5. ~auth'[p].rejected /\ deployment'.wired
        BY <1>b, <2>a, <4>1, <4>2 DEF RecordOK, Checking
      <4>6. ArrivalTrue(p)'
        BY <1>a, <2>a, <4>1, ArrivalKept DEF RecordOK
      <4>7. RecordOK(p)'
        BY <4>1, <4>4, <4>5, <4>6 DEF RecordOK, Inside
      <4> QED
        BY <1>a, <1>b, <4>1, <4>7, OthersEarned
    <3> QED
      BY <2>9, <3>1, <3>2 DEF FindKey
  <2>10. CASE TouchKey(p)
    <3>1. /\ auth'[p].pc = "handler" /\ SameRequest(auth[p], auth'[p])
          /\ auth'[p].user = auth[p].user
          /\ auth'[p].rejected = auth[p].rejected /\ OthersStay(p)
      BY <2>10, LetIn DEF TouchKey
    <3>2. KeyUser(p) /\ ~auth[p].rejected
      BY <2>a, <2>10 DEF TouchKey, RecordOK
    <3>3. KeyUser(p)'
      BY <1>a, <3>1, <3>2 DEF KeyUser, KeysOnlyGrow, SameRequest
    <3> QED
      BY <1>a, <1>b, <3>1, <3>2, <3>3, EnteredEarned
  <2>11. CASE Hang(p)
    BY <1>a, <1>b, <2>11, HungEarned
  <2>12. CASE MasterKeyHandshake(p)
    <3>1. CASE Authenticated(p, Nil)
      <4>1. /\ auth'[p].pc = "handler" /\ SameRequest(auth[p], auth'[p])
            /\ auth'[p].rejected = auth[p].rejected /\ OthersStay(p)
        BY <3>1, LetIn
      <4>2. ~auth'[p].rejected /\ ~deployment.wired
        BY <2>a, <2>12, <4>1 DEF MasterKeyHandshake, RecordOK
      <4> QED
        BY <1>a, <1>b, <4>1, <4>2, EnteredEarned
    <3> QED
      BY <2>11, <2>12, <3>1 DEF MasterKeyHandshake
  <2>13. ASSUME NEW k, auth[p].pc = "handler", UNCHANGED keys,
                Goes(p, [auth[p] EXCEPT !.pc = "revoke", !.target = k])
         PROVE  EarnedInv'
    <3>1. /\ auth'[p].pc = "revoke" /\ SameRequest(auth[p], auth'[p])
          /\ auth'[p].user = auth[p].user
          /\ auth'[p].rejected = auth[p].rejected /\ OthersStay(p)
      BY <2>a, <2>13 DEF Goes, AccessTypeOK, Call, OthersStay, SameRequest
    <3>2. ~auth[p].rejected
      BY <2>a, <2>13 DEF RecordOK
    <3>3. ArrivalTrue(p)'
      BY <1>a, <2>a, <3>1, ArrivalKept DEF RecordOK
    <3>4. deployment.wired => TokenUser(p)' \/ KeyUser(p)'
      BY <2>a, <2>13, <3>1 DEF RecordOK, Inside, TokenUser, KeyUser, SameRequest
    <3>5. RecordOK(p)'
      BY <1>b, <3>1, <3>2, <3>3, <3>4 DEF RecordOK, Checking, Inside
    <3> QED
      BY <1>a, <1>b, <3>1, <3>5, OthersEarned
  <2>14. CASE SelectToRevoke(p)
    BY <2>11, <2>13, <2>14 DEF SelectToRevoke
  <2> QED
    BY <1>3, <2>1, <2>2, <2>3, <2>4, <2>5, <2>6, <2>7, <2>8, <2>9, <2>10, <2>11, <2>12, <2>14
    DEF Serve, StatementFails, Leave, Finish, CreateKey, Revoke
<1> QED
  BY <1>1, <1>2, <1>3 DEF AccessNext, accessVars, Tick, Rotate

LEMMA EarnedAlways == AccessSpec => []EarnedInv
<1> QED
  BY EarnedInit, EarnedStep, AccessTypeCorrect, PTL DEF AccessSpec

\* Nobody acts as a user whose token or live key he did not send.
THEOREM EarnedForAll == AccessSpec => []IdentityIsEarned
<1>1. EarnedInv => IdentityIsEarned
  BY DEF EarnedInv, RecordOK, IdentityIsEarned, TokenUser, KeyUser
<1> QED
  BY <1>1, EarnedAlways, PTL

\* A socket told 401 is not let in.
THEOREM RejectedForGood == AccessSpec => []RejectedStaysOut
<1>1. EarnedInv => RejectedStaysOut
  BY DEF EarnedInv, RecordOK, RejectedStaysOut, Inside
<1> QED
  BY <1>1, EarnedAlways, PTL

-----------------------------------------------------------------------------
(* How long a retired key lives on *)

Calling == {"fetch", "reply"}

CallTime(p) ==
    auth[p].pc \in Calling =>
      auth[p].since <= now /\ now <= auth[p].since + FetchTimeout

\* An answer lists a retired key only if it was asked for before.
ReplyTime(p) ==
    auth[p].pc = "reply" =>
      \A k \in Listed(auth[p].doc) : retired[k] # Nil => auth[p].since <= retired[k]

CacheTime ==
    jwks # Nil =>
      /\ jwks.at <= now
      /\ \A k \in Listed(jwks.doc) : retired[k] # Nil => jwks.at <= retired[k] + FetchTimeout

RetiredTime ==
    \A k \in Kids : retired[k] # Nil => retired[k] <= now /\ k \notin Listed(kids)

TimeInv ==
    /\ \A p \in Callers : CallTime(p) /\ ReplyTime(p)
    /\ CacheTime
    /\ RetiredTime

LEMMA ListedKids ==
    ASSUME NEW doc \in Seq(Kids)
    PROVE  Listed(doc) \subseteq Kids
BY DEF Listed

LEMMA TimeInit == AccessInit => TimeInv
<1> SUFFICES ASSUME AccessInit PROVE TimeInv
  OBVIOUS
<1>1. ASSUME NEW p \in Callers PROVE auth[p].pc = "idle"
  <2>1. auth[p] = NoCall
    BY DEF AccessInit
  <2> QED
    BY <2>1 DEF NoCall
<1>2. jwks = Nil /\ \A k \in Kids : retired[k] = Nil
  BY DEF AccessInit
<1> QED
  BY <1>1, <1>2 DEF TimeInv, CallTime, ReplyTime, CacheTime, RetiredTime, Calling

\* A step of p that is neither the clock nor a rotation and leaves the cache.
LEMMA TimeKept ==
    ASSUME TimeInv, UNCHANGED <<kids, retired, jwks, now>>,
           NEW p \in Callers, OthersStay(p), CallTime(p)', ReplyTime(p)'
    PROVE  TimeInv'
BY DEF TimeInv, CallTime, ReplyTime, CacheTime, RetiredTime, OthersStay

LEMMA TimeUntouched ==
    ASSUME TimeInv, UNCHANGED <<kids, retired, jwks, now>>,
           NEW p \in Callers, OthersStay(p), auth'[p].pc \notin Calling
    PROVE  TimeInv'
<1>1. CallTime(p)' /\ ReplyTime(p)'
  BY DEF CallTime, ReplyTime, Calling
<1> QED
  BY <1>1, TimeKept

\* Where a step can leave a record, if it is not one of the three of a fetch.
LEMMA NotCalling ==
    ASSUME AccessTypeOK, NEW p \in Callers, Arrive(p) \/ Serve(p),
           ~BeginFetch(p), ~JwksAnswered(p)
    PROVE  auth'[p].pc \notin Calling /\ OthersStay(p)
<1>a. auth[p] \in Call
  BY DEF AccessTypeOK
<1>1. CASE Arrive(p)
  BY <1>1, Arrived DEF Calling
<1>2. CASE TokenFromCache(p) \/ Recheck(p) \/ StoreJwks(p)
  BY <1>2, DecidedOn DEF TokenFromCache, Recheck, StoreJwks, Calling
<1>3. CASE CacheMiss(p) \/ WithoutToken(p) \/ FetchFails(p)
  BY <1>3, Proceeded, Refused DEF CacheMiss, WithoutToken, FetchFails, Calling
<1>4. CASE FindKey(p)
  <2>1. CASE Refuse(p)
    BY <2>1, Refused DEF Calling
  <2>2. CASE Goes(p, [auth[p] EXCEPT !.pc = "touch", !.user = keys[auth[p].key].owner])
    BY <1>a, <2>2 DEF Goes, AccessTypeOK, Call, OthersStay, Calling
  <2> QED
    BY <1>4, <2>1, <2>2 DEF FindKey
<1>5. CASE TouchKey(p) \/ StatementFails(p) \/ Leave(p) \/ Finish(p) \/ CreateKey(p) \/ Revoke(p)
  BY <1>5, LetIn, Hung DEF TouchKey, StatementFails, Leave, Finish, CreateKey, Revoke, Calling
<1>6. CASE MasterKeyHandshake(p)
  BY <1>6, LetIn, Hung DEF MasterKeyHandshake, Calling
<1>7. CASE SelectToRevoke(p)
  <2>1. CASE Hang(p)
    BY <2>1, Hung DEF Calling
  <2>2. ASSUME NEW k, Goes(p, [auth[p] EXCEPT !.pc = "revoke", !.target = k])
        PROVE  auth'[p].pc \notin Calling /\ OthersStay(p)
    BY <1>a, <2>2 DEF Goes, AccessTypeOK, Call, OthersStay, Calling
  <2> QED
    BY <1>7, <2>1, <2>2 DEF SelectToRevoke
<1> QED
  BY <1>1, <1>2, <1>3, <1>4, <1>5, <1>6, <1>7 DEF Serve

LEMMA TimeTick == AccessTypeOK /\ TimeInv /\ Tick => TimeInv'
<1> SUFFICES ASSUME AccessTypeOK, TimeInv, Tick PROVE TimeInv'
  OBVIOUS
<1>1. now \in Nat /\ now' = now + 1 /\ UNCHANGED <<kids, retired, jwks, auth>>
  BY DEF AccessTypeOK, Tick
<1>2. ASSUME NEW p \in Callers PROVE CallTime(p)' /\ ReplyTime(p)'
  <2>1. auth[p].since \in Nat /\ FetchTimeout \in Nat
    BY AccessAssumption DEF AccessTypeOK, Call
  <2>2. auth[p].pc \in Calling => now < auth[p].since + FetchTimeout
    BY DEF Tick, Calling
  <2>3. CallTime(p) /\ ReplyTime(p)
    BY DEF TimeInv
  <2> QED
    BY <1>1, <2>1, <2>2, <2>3 DEF CallTime, ReplyTime
<1>3. CacheTime'
  <2>1. jwks # Nil => jwks.at \in Nat
    BY DEF AccessTypeOK
  <2> QED
    BY <1>1, <2>1 DEF TimeInv, CacheTime
<1>4. RetiredTime'
  <2> SUFFICES ASSUME NEW k \in Kids, retired[k] # Nil
               PROVE  retired[k] <= now + 1 /\ k \notin Listed(kids)
    BY <1>1 DEF RetiredTime
  <2>1. retired[k] \in Nat /\ retired[k] <= now /\ k \notin Listed(kids)
    BY DEF AccessTypeOK, TimeInv, RetiredTime
  <2> QED
    BY <1>1, <2>1
<1> QED
  BY <1>2, <1>3, <1>4 DEF TimeInv

LEMMA TimeRotate == AccessTypeOK /\ TimeInv /\ Rotate => TimeInv'
<1> SUFFICES ASSUME AccessTypeOK, TimeInv, Rotate PROVE TimeInv'
  OBVIOUS
<1>1. PICK next \in Published :
        /\ Listed(next) \ Listed(kids) \subseteq {k \in Kids : retired[k] = Nil}
        /\ kids' = next
        /\ retired' = [k \in Kids |->
                         IF k \in Listed(kids) \ Listed(next) THEN now ELSE retired[k]]
        /\ UNCHANGED <<jwks, now, auth>>
  BY DEF Rotate
<1>2. now \in Nat /\ FetchTimeout \in Nat
  BY AccessAssumption DEF AccessTypeOK
<1>3. \A k \in Kids : retired'[k] = retired[k] \/ retired'[k] = now
  BY <1>1
<1>4. ASSUME NEW p \in Callers PROVE CallTime(p)' /\ ReplyTime(p)'
  <2>1. CallTime(p) /\ ReplyTime(p) /\ Listed(auth[p].doc) \subseteq Kids
    BY ListedKids DEF TimeInv, AccessTypeOK, Call
  <2>2. CallTime(p)'
    BY <1>1, <2>1 DEF CallTime
  <2>3. ReplyTime(p)'
    BY <1>1, <1>3, <2>1 DEF CallTime, ReplyTime, Calling
  <2> QED
    BY <2>2, <2>3
<1>5. CacheTime'
  <2> SUFFICES ASSUME jwks # Nil
               PROVE  /\ jwks.at <= now
                      /\ \A k \in Listed(jwks.doc) :
                           retired'[k] # Nil => jwks.at <= retired'[k] + FetchTimeout
    BY <1>1 DEF CacheTime
  <2>1. jwks.at \in Nat /\ jwks.at <= now /\ Listed(jwks.doc) \subseteq Kids
    BY ListedKids DEF TimeInv, CacheTime, AccessTypeOK
  <2>2. jwks.at <= now + FetchTimeout
    BY <1>2, <2>1
  <2> QED
    BY <1>3, <2>1, <2>2 DEF TimeInv, CacheTime
<1>6. RetiredTime'
  <2> SUFFICES ASSUME NEW k \in Kids, retired'[k] # Nil
               PROVE  retired'[k] <= now /\ k \notin Listed(next)
    BY <1>1 DEF RetiredTime
  <2>1. retired[k] # Nil => retired[k] <= now /\ k \notin Listed(kids)
    BY DEF TimeInv, RetiredTime
  <2> QED
    BY <1>1, <1>2, <2>1
<1> QED
  BY <1>4, <1>5, <1>6 DEF TimeInv

LEMMA TimeStore ==
    ASSUME AccessTypeOK, TimeInv, NEW p \in Callers, StoreJwks(p)
    PROVE  TimeInv'
<1>1. auth'[p].pc \notin Calling /\ OthersStay(p)
  BY DecidedOn DEF StoreJwks, Calling
<1>2. /\ auth[p].pc = "reply" /\ UNCHANGED <<kids, retired, now>>
      /\ jwks' = [doc |-> auth[p].doc, at |-> now]
  BY DEF StoreJwks
<1>3. /\ auth[p].since <= now /\ now <= auth[p].since + FetchTimeout
      /\ \A k \in Listed(auth[p].doc) : retired[k] # Nil => auth[p].since <= retired[k]
  BY <1>2 DEF TimeInv, CallTime, ReplyTime, Calling
<1>4. auth[p].since \in Nat /\ now \in Nat /\ FetchTimeout \in Nat /\ auth[p].doc \in Seq(Kids)
  BY AccessAssumption DEF AccessTypeOK, Call
<1>5. ASSUME NEW k \in Listed(auth[p].doc), retired[k] # Nil
      PROVE  now <= retired[k] + FetchTimeout
  <2>1. retired[k] \in Nat
    BY <1>4, <1>5, ListedKids DEF AccessTypeOK
  <2> QED
    BY <1>3, <1>4, <1>5, <2>1
<1>6. CacheTime'
  BY <1>2, <1>4, <1>5 DEF CacheTime
<1> QED
  BY <1>1, <1>2, <1>6
  DEF TimeInv, CallTime, ReplyTime, RetiredTime, OthersStay, Calling

LEMMA TimeStep == AccessTypeOK /\ TimeInv /\ [AccessNext]_accessVars => TimeInv'
<1> SUFFICES ASSUME AccessTypeOK, TimeInv, [AccessNext]_accessVars
             PROVE  TimeInv'
  OBVIOUS
<1>1. CASE UNCHANGED accessVars
  BY <1>1 DEF accessVars, TimeInv, CallTime, ReplyTime, CacheTime, RetiredTime
<1>2. CASE Tick \/ Rotate
  BY <1>2, TimeTick, TimeRotate
<1>3. ASSUME NEW p \in Callers, Arrive(p) \/ Serve(p) PROVE TimeInv'
  <2>a. auth[p] \in Call
    BY DEF AccessTypeOK
  <2>1. CASE StoreJwks(p)
    BY <2>1, TimeStore
  <2>2. CASE BeginFetch(p)
    <3>1. /\ auth'[p].pc = "fetch" /\ auth'[p].since = now
          /\ OthersStay(p) /\ UNCHANGED <<kids, retired, jwks, now>>
      BY <2>a, <2>2 DEF BeginFetch, Goes, AccessTypeOK, Call, OthersStay
    <3>2. now \in Nat /\ FetchTimeout \in Nat
      BY AccessAssumption DEF AccessTypeOK
    <3>3. CallTime(p)' /\ ReplyTime(p)'
      BY <3>1, <3>2 DEF CallTime, ReplyTime
    <3> QED
      BY <3>1, <3>3, TimeKept
  <2>3. CASE JwksAnswered(p)
    <3>1. /\ auth'[p].pc = "reply" /\ auth'[p].since = auth[p].since /\ auth'[p].doc = kids
          /\ OthersStay(p) /\ UNCHANGED <<kids, retired, jwks, now>>
      BY <2>a, <2>3 DEF JwksAnswered, Goes, AccessTypeOK, Call, OthersStay
    <3>2. CallTime(p)'
      BY <2>3, <3>1 DEF TimeInv, CallTime, Calling, JwksAnswered
    <3>3. ReplyTime(p)'
      BY <3>1, ListedKids DEF TimeInv, RetiredTime, ReplyTime, AccessTypeOK
    <3> QED
      BY <3>1, <3>2, <3>3, TimeKept
  <2>4. CASE ~StoreJwks(p) /\ ~BeginFetch(p) /\ ~JwksAnswered(p)
    <3>1. auth'[p].pc \notin Calling /\ OthersStay(p)
      BY <1>3, <2>4, NotCalling
    <3>2. UNCHANGED <<kids, retired, jwks, now>>
      BY <1>3, <2>4
      DEF Arrive, Serve, TokenFromCache, CacheMiss, Recheck, FetchFails, WithoutToken, FindKey,
          TouchKey, StatementFails, Leave, MasterKeyHandshake, Finish, CreateKey,
          SelectToRevoke, Revoke
    <3> QED
      BY <3>1, <3>2, TimeUntouched
  <2> QED
    BY <2>1, <2>2, <2>3, <2>4
<1> QED
  BY <1>1, <1>2, <1>3 DEF AccessNext

LEMMA TimeAlways == AccessSpec => []TimeInv
<1> QED
  BY TimeInit, TimeStep, AccessTypeCorrect, PTL DEF AccessSpec

\* What RetiredKidBounded says of one step.
BoundedStep ==
    \A p \in Callers :
      /\ auth[p].pc \in {"verify", "lock", "reply"}
      /\ auth'[p].pc = "handler"
      /\ retired[auth[p].token.kid] # Nil
      => now < retired[auth[p].token.kid] + JwksTTL + FetchTimeout

LEMMA SignerListed ==
    ASSUME NEW doc \in Seq(Kids), NEW t \in Tokens, Verifies(doc, t)
    PROVE  t.kid \in Kids /\ t.kid \in Listed(doc)
<1>1. t.kid \in Kids /\ t.kid # Nil
  BY AccessAssumption
<1>2. CASE t.named /\ t.kid \in Listed(doc)
  BY <1>1, <1>2
<1>3. CASE doc # <<>> /\ doc[1] = t.kid
  <2>1. 1 \in DOMAIN doc
    BY <1>3
  <2> QED
    BY <1>1, <1>3, <2>1 DEF Listed
<1> QED
  BY <1>1, <1>2, <1>3 DEF Verifies, SigningKey

LEMMA BoundedLemma == AccessTypeOK /\ TimeInv /\ [AccessNext]_accessVars => BoundedStep
<1> SUFFICES ASSUME AccessTypeOK, TimeInv, [AccessNext]_accessVars, NEW p \in Callers,
                    auth[p].pc \in {"verify", "lock", "reply"},
                    auth'[p].pc = "handler",
                    retired[auth[p].token.kid] # Nil
             PROVE  now < retired[auth[p].token.kid] + JwksTTL + FetchTimeout
  BY DEF BoundedStep
<1> DEFINE t == auth[p].token
<1>a. now \in Nat /\ FetchTimeout \in Nat /\ JwksTTL \in Nat \ {0}
  BY AccessAssumption DEF AccessTypeOK
<1>1. ASSUME NEW doc, Decide(p, doc), doc \in Seq(Kids), t # Nil
      PROVE  t.kid \in Listed(doc) /\ t.kid \in Kids /\ retired[t.kid] \in Nat
  <2>1. Verifies(doc, t)
    BY <1>1, DecidedOn
  <2>2. t \in Tokens
    BY <1>1 DEF AccessTypeOK, Call
  <2>3. t.kid \in Listed(doc) /\ t.kid \in Kids
    BY <1>1, <2>1, <2>2, SignerListed
  <2> QED
    BY <2>3 DEF AccessTypeOK
<1>2. ASSUME Decide(p, jwks.doc), Fresh, t # Nil
      PROVE  now < retired[t.kid] + JwksTTL + FetchTimeout
  <2>1. jwks.doc \in Seq(Kids) /\ jwks.at \in Nat /\ jwks # Nil
    BY <1>2 DEF Fresh, AccessTypeOK
  <2>2. t.kid \in Listed(jwks.doc) /\ retired[t.kid] \in Nat
    BY <1>1, <1>2, <2>1
  <2>3. jwks.at <= retired[t.kid] + FetchTimeout
    BY <2>1, <2>2 DEF TimeInv, CacheTime
  <2>4. now < jwks.at + JwksTTL
    BY <1>2 DEF Fresh
  <2> QED
    BY <1>a, <2>1, <2>2, <2>3, <2>4
<1>3. CASE TokenFromCache(p) \/ Recheck(p)
  <2>1. t # Nil
    BY <1>3 DEF TokenFromCache, Recheck, AccessTypeOK
  <2> QED
    BY <1>2, <1>3, <2>1 DEF TokenFromCache, Recheck
<1>4. CASE StoreJwks(p)
  <2>1. t # Nil /\ Decide(p, auth[p].doc) /\ auth[p].pc = "reply"
    BY <1>4 DEF StoreJwks, AccessTypeOK
  <2>2. auth[p].doc \in Seq(Kids) /\ auth[p].since \in Nat
    BY DEF AccessTypeOK, Call
  <2>3. t.kid \in Listed(auth[p].doc) /\ retired[t.kid] \in Nat
    BY <1>1, <2>1, <2>2
  <2>4. auth[p].since <= retired[t.kid] /\ now <= auth[p].since + FetchTimeout
    BY <2>1, <2>3 DEF TimeInv, CallTime, ReplyTime, Calling
  <2> QED
    BY <1>a, <2>2, <2>3, <2>4
<1>5. CASE CacheMiss(p) \/ BeginFetch(p) \/ FetchFails(p) \/ WithoutToken(p)
  <2>a. auth[p] \in Call
    BY DEF AccessTypeOK
  <2>1. CASE BeginFetch(p)
    BY <2>a, <2>1 DEF BeginFetch, Goes, AccessTypeOK, Call
  <2> QED
    BY <1>5, <2>1, Proceeded, Refused DEF CacheMiss, FetchFails, WithoutToken
<1>6. CASE ~\E q \in Callers : Serve(q) \/ Arrive(q)
  BY <1>6 DEF AccessNext, accessVars, Tick, Rotate
<1>7. ASSUME NEW q \in Callers, Serve(q) \/ Arrive(q), q # p
      PROVE  FALSE
  <2>1. OthersStay(q)
    <3>a. auth[q] \in Call
      BY DEF AccessTypeOK
    <3>1. CASE BeginFetch(q) \/ JwksAnswered(q)
      BY <3>1 DEF BeginFetch, JwksAnswered, Goes, OthersStay, AccessTypeOK
    <3> QED
      BY <1>7, <3>1, NotCalling
  <2> QED
    BY <1>7, <2>1 DEF OthersStay
<1>8. CASE Serve(p) \/ Arrive(p)
  BY <1>3, <1>4, <1>5, <1>8
  DEF Serve, Arrive, JwksAnswered, FindKey, TouchKey, StatementFails, Leave,
      MasterKeyHandshake, Finish, CreateKey, SelectToRevoke, Revoke
<1> QED
  BY <1>6, <1>7, <1>8

\* However fetches and rotations interleave, a retired signing key lives on
\* for one TTL and one fetch at most.
THEOREM RetiredSoon == AccessSpec => RetiredKidBounded
<1>1. AccessTypeOK /\ TimeInv /\ [AccessNext]_accessVars => [BoundedStep]_accessVars
  BY BoundedLemma
<1>2. AccessSpec => [][BoundedStep]_accessVars
  BY <1>1, AccessTypeCorrect, TimeAlways, PTL DEF AccessSpec
<1> QED
  BY <1>2 DEF RetiredKidBounded, BoundedStep

=============================================================================
