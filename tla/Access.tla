------------------------------- MODULE Access -------------------------------
(***************************************************************************)
(* Who a request is: JWT bearer tokens checked against a cached JWKS       *)
(* document, per-user API keys looked up by hash in api_keys, the          *)
(* handshake of the WebSocket route, and the management of API keys.       *)
(*                                                                         *)
(* An action is the code of one request up to its next await: the JWKS     *)
(* lock, the HTTP call to the identity provider, a statement on            *)
(* PostgreSQL.  A token is the key that signed it, its user, whether its   *)
(* header names the key, and whether its claims are good; an API key is    *)
(* its plaintext, which stands for its hash.                               *)
(***************************************************************************)
EXTENDS Naturals, Sequences

CONSTANTS
    Callers,      \* requests under way
    Sockets,      \* those of them that open the WebSocket route
    Tokens,       \* [kid, user, named, good] records
    ApiKeys,      \* plaintexts of API keys
    MasterKey,    \* settings.api_key, when it is set
    Principals,   \* user ids
    Kids,         \* signing keys of the identity provider
    Published,    \* the JWKS documents it serves, as sequences of Kids
    JwksTTL,      \* _JWKS_CACHE_TTL, in ticks
    FetchTimeout, \* how long a fetch takes at most, in ticks (30 s a phase)
    MaxClock,     \* bound on the clock
    Credentials,  \* the <<token, API key>> pairs that requests carry
    Deployments,  \* [exempt, wired, guarded] records: see deployment
    DbFaults,     \* whether a statement may fail
    Nil           \* no token, no key, no user, no document

ASSUME AccessAssumption ==
    /\ Sockets \subseteq Callers
    /\ Tokens \subseteq [kid : Kids, user : Principals, named : BOOLEAN, good : BOOLEAN]
    /\ Published \subseteq Seq(Kids)
    /\ JwksTTL \in Nat \ {0}
    /\ FetchTimeout \in Nat
    /\ MaxClock \in Nat
    /\ Deployments \subseteq [exempt : BOOLEAN, wired : BOOLEAN, guarded : BOOLEAN]
    /\ Credentials \subseteq (Tokens \cup {Nil}) \X (ApiKeys \cup {MasterKey, Nil})
    /\ DbFaults \in BOOLEAN
    /\ Nil \notin Callers \cup Tokens \cup ApiKeys \cup Principals \cup Kids \cup {MasterKey}
    /\ Nil \notin Nat \cup [doc : Seq(Kids), at : Nat]
    /\ MasterKey \notin ApiKeys

VARIABLES
    deployment, \* exempt: the database role is exempt from row security;
                \* wired: set_auth_service was called; guarded: a master key is set
    keys,      \* keys[k]: the row of api_keys for k
    kids,      \* the JWKS document the identity provider serves
    retired,   \* history: when a kid left the document, or Nil
    jwks,      \* the cached document and when it was stored, or Nil
    jwksLock,  \* who holds _jwks_lock, or Nil
    now,       \* the clock
    auth       \* auth[p]: where the request p is and its local variables

accessVars ==
    <<deployment, keys, kids, retired, jwks, jwksLock, now, auth>>

KeyRow == [owner : Principals \cup {Nil}, revoked : BOOLEAN]

NoRow == [owner |-> Nil, revoked |-> FALSE]

AuthSteps == {"verify", "lock", "fetch", "reply", "find", "touch", "refused", "route"}

Call ==
    [ pc       : {"idle", "handler", "revoke"} \cup AuthSteps,
      token    : Tokens \cup {Nil},
      key      : ApiKeys \cup {MasterKey, Nil},
      arrived  : {"unknown", "active", "revoked"},  \* history: the key, at arrival
      user     : Principals \cup {Nil},
      rejected : BOOLEAN,
      target   : ApiKeys \cup {Nil},
      doc      : Seq(Kids),
      since    : Nat ]

NoCall ==
    [pc |-> "idle", token |-> Nil, key |-> Nil, arrived |-> "unknown",
     user |-> Nil, rejected |-> FALSE, target |-> Nil, doc |-> <<>>, since |-> 0]

\* Types, and what each step of a request relies on: a key is looked up only
\* for a request that brought one and no token, and revoked once selected
\* (auth_service.py:61-85, postgres_api_key/adapter.py:161-172).
AccessTypeOK ==
    /\ deployment \in Deployments
    /\ keys \in [ApiKeys -> KeyRow]
    /\ kids \in Seq(Kids)
    /\ retired \in [Kids -> Nat \cup {Nil}]
    /\ jwks \in [doc : Seq(Kids), at : Nat] \cup {Nil}
    /\ jwksLock \in Callers \cup {Nil}
    /\ now \in Nat
    /\ auth \in [Callers -> Call]
    /\ \A p \in Callers :
         /\ auth[p].pc \in {"find", "touch"} => auth[p].token = Nil /\ auth[p].key # Nil
         /\ auth[p].pc \in {"lock", "fetch", "reply"} => auth[p].token # Nil
         /\ auth[p].pc = "revoke" => auth[p].target # Nil

AccessInit ==
    /\ deployment \in Deployments
    /\ keys = [k \in ApiKeys |-> NoRow]
    /\ kids \in Published
    /\ retired = [k \in Kids |-> Nil]
    /\ jwks = Nil
    /\ jwksLock = Nil
    /\ now = 0
    /\ auth = [p \in Callers |-> NoCall]

-----------------------------------------------------------------------------
(* The world around the server *)

Listed(doc) == {doc[i] : i \in DOMAIN doc}

\* Time passes; the HTTP client gives a fetch up at its timeout.
Tick ==
    /\ now < MaxClock
    /\ \A p \in Callers :
         auth[p].pc \in {"fetch", "reply"} => now < auth[p].since + FetchTimeout
    /\ now' = now + 1
    /\ UNCHANGED <<deployment, keys, kids, retired, jwks, jwksLock, auth>>

\* The identity provider replaces its keys; a kid is never used again.
Rotate ==
    \E next \in Published :
        /\ Listed(next) \ Listed(kids) \subseteq {k \in Kids : retired[k] = Nil}
        /\ Listed(next) # Listed(kids)
        /\ kids' = next
        /\ retired' = [k \in Kids |->
                         IF k \in Listed(kids) \ Listed(next) THEN now ELSE retired[k]]
        /\ UNCHANGED <<deployment, keys, jwks, jwksLock, now, auth>>

-----------------------------------------------------------------------------
(* The outcomes of an authentication *)

Goes(p, call) == auth' = [auth EXCEPT ![p] = call]

Hang(p) == Goes(p, NoCall)

Proceed(p, step) == Goes(p, [auth[p] EXCEPT !.pc = step])

\* The contextvars carry the user from here on; a handshake is accepted.
Authenticated(p, u) ==
    Goes(p, [auth[p] EXCEPT !.pc = "handler", !.user = u, !.doc = <<>>, !.since = 0])

\* authenticate returned None: 401, which the WebSocket route sends itself
\* before its endpoint goes on.
Refuse(p) ==
    Goes(p, [auth[p] EXCEPT !.pc = IF p \in Sockets THEN "route" ELSE "refused",
                            !.rejected = p \in Sockets, !.doc = <<>>, !.since = 0])

-----------------------------------------------------------------------------
(* AuthService.authenticate and JwtAdapter *)

KeyState(k) ==
    IF k \notin ApiKeys THEN "unknown"
    ELSE IF keys[k].owner = Nil THEN "unknown"
    ELSE IF keys[k].revoked THEN "revoked" ELSE "active"

\* Without an auth service verify_credentials raises, and the WebSocket route
\* takes the path of the master key.
Arrive(p) ==
    /\ auth[p].pc = "idle"
    /\ deployment.wired \/ p \in Sockets
    /\ \E c \in Credentials :
         Goes(p, [NoCall EXCEPT !.pc = IF deployment.wired THEN "verify" ELSE "route",
                                !.token = c[1], !.key = c[2],
                                !.arrived = IF c[1] = Nil THEN KeyState(c[2]) ELSE "unknown"])
    /\ UNCHANGED <<deployment, keys, kids, retired, jwks, jwksLock, now>>

FreshTooLong == jwks # Nil /\ now <= jwks.at + JwksTTL

\* The TTLCache still holds the document.
Fresh == jwks # Nil /\ now < jwks.at + JwksTTL

\* _find_key_by_kid: the named key, else the first one.
SigningKey(doc, t) ==
    IF t.named /\ t.kid \in Listed(doc) THEN t.kid
    ELSE IF doc # <<>> THEN doc[1] ELSE Nil

Verifies(doc, t) == SigningKey(doc, t) = t.kid /\ t.good

\* A token that does not verify is final: the API key is not looked at.
Decide(p, doc) ==
    IF Verifies(doc, auth[p].token)
      THEN Authenticated(p, auth[p].token.user)
      ELSE Refuse(p)

TokenFromCache(p) ==
    /\ auth[p].pc = "verify" /\ auth[p].token # Nil
    /\ Fresh
    /\ Decide(p, jwks.doc)
    /\ UNCHANGED <<deployment, keys, kids, retired, jwks, jwksLock, now>>

CacheMiss(p) ==
    /\ auth[p].pc = "verify" /\ auth[p].token # Nil
    /\ ~Fresh
    /\ Proceed(p, "lock")
    /\ UNCHANGED <<deployment, keys, kids, retired, jwks, jwksLock, now>>

\* Inside the lock the document has been stored by another request.
Recheck(p) ==
    /\ auth[p].pc = "lock" /\ jwksLock = Nil
    /\ Fresh
    /\ Decide(p, jwks.doc)
    /\ UNCHANGED <<deployment, keys, kids, retired, jwks, jwksLock, now>>

BeginFetchBlindly(p) ==
    /\ auth[p].pc = "lock" /\ jwksLock = Nil
    /\ jwksLock' = p
    /\ Goes(p, [auth[p] EXCEPT !.pc = "fetch", !.since = now])
    /\ UNCHANGED <<deployment, keys, kids, retired, jwks, now>>

BeginFetch(p) ==
    /\ auth[p].pc = "lock" /\ jwksLock = Nil
    /\ ~Fresh
    /\ jwksLock' = p
    /\ Goes(p, [auth[p] EXCEPT !.pc = "fetch", !.since = now])
    /\ UNCHANGED <<deployment, keys, kids, retired, jwks, now>>

\* The identity provider answers; the answer is still on its way.
JwksAnswered(p) ==
    /\ auth[p].pc = "fetch"
    /\ Goes(p, [auth[p] EXCEPT !.pc = "reply", !.doc = kids])
    /\ UNCHANGED <<deployment, keys, kids, retired, jwks, jwksLock, now>>

StoreJwks(p) ==
    /\ auth[p].pc = "reply"
    /\ jwks' = [doc |-> auth[p].doc, at |-> now]
    /\ jwksLock' = Nil
    /\ Decide(p, auth[p].doc)
    /\ UNCHANGED <<deployment, keys, kids, retired, now>>

FetchFailsKeepsLock(p) ==
    /\ auth[p].pc \in {"fetch", "reply"}
    /\ Refuse(p)
    /\ UNCHANGED <<deployment, keys, kids, retired, jwks, jwksLock, now>>

\* An error, a timeout or a bad answer: nothing is cached.
FetchFails(p) ==
    /\ auth[p].pc \in {"fetch", "reply"}
    /\ jwksLock' = Nil
    /\ Refuse(p)
    /\ UNCHANGED <<deployment, keys, kids, retired, jwks, now>>

LookUpAnyway(p) ==
    /\ auth[p].pc = "verify" /\ auth[p].token = Nil
    /\ Proceed(p, "find")
    /\ UNCHANGED <<deployment, keys, kids, retired, jwks, jwksLock, now>>

WithoutToken(p) ==
    /\ auth[p].pc = "verify" /\ auth[p].token = Nil
    /\ IF auth[p].key # Nil THEN Proceed(p, "find") ELSE Refuse(p)
    /\ UNCHANGED <<deployment, keys, kids, retired, jwks, jwksLock, now>>

-----------------------------------------------------------------------------
(* PostgresApiKeyRepository, under the policy of api_keys *)

\* rls_listener sets app.user_id from the contextvar of an authenticated
\* request; without it the policy hides every row from a role it binds.
Visible(u, k) == deployment.exempt \/ (u # Nil /\ keys[k].owner = u)

FoundRevoked(k) == k \in ApiKeys /\ keys[k].owner # Nil /\ Visible(Nil, k)

\* find_active_by_hash runs before the contextvar is set.
Found(k) ==
    k \in ApiKeys /\ keys[k].owner # Nil /\ ~keys[k].revoked /\ Visible(Nil, k)

FindKey(p) ==
    /\ auth[p].pc = "find"
    /\ IF Found(auth[p].key)
         THEN Goes(p, [auth[p] EXCEPT !.pc = "touch", !.user = keys[auth[p].key].owner])
         ELSE Refuse(p)
    /\ UNCHANGED <<deployment, keys, kids, retired, jwks, jwksLock, now>>

TouchedRow(k) == [keys[k] EXCEPT !.revoked = FALSE]

\* last_used_at, the only column the update writes, is not modelled.
Touched(k) == keys[k]

\* Best effort: the request goes on whatever becomes of the update.
TouchKey(p) ==
    /\ auth[p].pc = "touch"
    /\ keys' = [keys EXCEPT ![auth[p].key] = Touched(auth[p].key)]
    /\ Authenticated(p, auth[p].user)
    /\ UNCHANGED <<deployment, kids, retired, jwks, jwksLock, now>>

\* StorageError leaves the request: an error answer, or the socket closes.
StatementFails(p) ==
    /\ DbFaults
    /\ \/ auth[p].pc \in {"find", "revoke"}
       \/ auth[p].pc = "handler" /\ p \notin Sockets
    /\ Hang(p)
    /\ UNCHANGED <<deployment, keys, kids, retired, jwks, jwksLock, now>>

-----------------------------------------------------------------------------
(* The routes behind an authentication *)

Leave(p) ==
    /\ \/ auth[p].pc = "refused"
       \/ auth[p].pc = "route" /\ deployment.wired
    /\ Hang(p)
    /\ UNCHANGED <<deployment, keys, kids, retired, jwks, jwksLock, now>>

MasterKeyAnyway(p) ==
    /\ auth[p].pc = "route"
    /\ IF deployment.guarded /\ auth[p].key # MasterKey THEN Hang(p) ELSE Authenticated(p, Nil)
    /\ UNCHANGED <<deployment, keys, kids, retired, jwks, jwksLock, now>>

\* Only without an auth service: the master key opens the socket, or nothing
\* is asked when there is none.
MasterKeyHandshake(p) ==
    /\ auth[p].pc = "route" /\ ~deployment.wired
    /\ IF deployment.guarded /\ auth[p].key # MasterKey THEN Hang(p) ELSE Authenticated(p, Nil)
    /\ UNCHANGED <<deployment, keys, kids, retired, jwks, jwksLock, now>>

\* The list of the user's keys, any other route, or the end of the socket.
Finish(p) ==
    /\ auth[p].pc = "handler"
    /\ Hang(p)
    /\ UNCHANGED <<deployment, keys, kids, retired, jwks, jwksLock, now>>

CreateKey(p) ==
    /\ auth[p].pc = "handler" /\ p \notin Sockets
    /\ \E k \in ApiKeys :
         /\ keys[k].owner = Nil
         /\ keys' = [keys EXCEPT ![k].owner = auth[p].user]
    /\ Hang(p)
    /\ UNCHANGED <<deployment, kids, retired, jwks, jwksLock, now>>

\* The key of another user is not found; a revoked one is left as it is.
SelectToRevoke(p) ==
    /\ auth[p].pc = "handler" /\ p \notin Sockets
    /\ \E k \in ApiKeys :
         IF keys[k].owner = auth[p].user /\ ~keys[k].revoked
           THEN Goes(p, [auth[p] EXCEPT !.pc = "revoke", !.target = k])
           ELSE Hang(p)
    /\ UNCHANGED <<deployment, keys, kids, retired, jwks, jwksLock, now>>

Revoke(p) ==
    /\ auth[p].pc = "revoke"
    /\ keys' = [keys EXCEPT ![auth[p].target].revoked = TRUE]
    /\ Hang(p)
    /\ UNCHANGED <<deployment, kids, retired, jwks, jwksLock, now>>

-----------------------------------------------------------------------------

Serve(p) ==
    \/ TokenFromCache(p) \/ CacheMiss(p) \/ Recheck(p) \/ BeginFetch(p)
    \/ JwksAnswered(p) \/ StoreJwks(p) \/ FetchFails(p) \/ WithoutToken(p)
    \/ FindKey(p) \/ TouchKey(p) \/ StatementFails(p)
    \/ Leave(p) \/ MasterKeyHandshake(p)
    \/ Finish(p) \/ CreateKey(p) \/ SelectToRevoke(p) \/ Revoke(p)

AccessNext ==
    \/ Tick
    \/ Rotate
    \/ \E p \in Callers : Arrive(p) \/ Serve(p)

AccessSpec == AccessInit /\ [][AccessNext]_accessVars

\* The event loop runs every task that can go on, and a call to the identity
\* provider or to the database ends, if only by its timeout; asyncio.Lock wakes
\* its waiters in the order they came.
AccessFairness ==
    \A p \in Callers :
        /\ WF_accessVars(Serve(p))
        /\ SF_accessVars(Recheck(p) \/ BeginFetch(p))

-----------------------------------------------------------------------------
(* Properties *)

Inside(p) == auth[p].pc \in {"handler", "revoke"}

\* A request gets past verify_credentials as the user of its own bearer
\* token, or, when it sent none, as the owner of an API key that was not yet
\* revoked when it arrived: never by falling back to the key after a bad
\* token, never with a key revoked before (auth_service.py:61-99).
IdentityIsEarned ==
    \A p \in Callers : deployment.wired /\ Inside(p) =>
        \/ /\ auth[p].token # Nil
           /\ auth[p].token.good
           /\ auth[p].user = auth[p].token.user
        \/ /\ auth[p].token = Nil
           /\ auth[p].key \in ApiKeys
           /\ auth[p].user = keys[auth[p].key].owner
           /\ auth[p].arrived # "revoked"

\* A token signed by a kid the identity provider has retired is accepted for
\* less than the TTL of the cache and one fetch timeout after the retirement
\* (jwt_adapter.py:50-62, 80-97).
RetiredKidBounded ==
    [][\A p \in Callers :
         /\ auth[p].pc \in {"verify", "lock", "reply"}
         /\ auth'[p].pc = "handler"
         /\ retired[auth[p].token.kid] # Nil
         => now < retired[auth[p].token.kid] + JwksTTL + FetchTimeout]_accessVars

\* "only one HTTP call is made even under burst load" (jwt_adapter.py:83-84):
\* no request calls the identity provider while the cached document is fresh
\* or while another call is under way.
FetchOnlyWhenStale ==
    [][\A p \in Callers :
         auth[p].pc # "fetch" /\ auth'[p].pc = "fetch" =>
           /\ ~Fresh
           /\ \A q \in Callers : auth[q].pc \notin {"fetch", "reply"}]_accessVars

\* A revoked key stays revoked and no key changes hands, although last_used_at
\* is written by requests that read the row before it was revoked
\* (postgres_api_key/adapter.py:145-197).
RevocationSticks ==
    [][\A k \in ApiKeys :
         /\ keys[k].revoked => keys'[k].revoked
         /\ keys[k].owner # Nil => keys'[k].owner = keys[k].owner]_accessVars

\* A handshake answered with 401 is never accepted afterwards
\* (websocket.py:44-60).
RejectedStaysOut == \A p \in Callers : ~(Inside(p) /\ auth[p].rejected)

\* Every request is answered: a failing identity provider leaves no request
\* waiting for the lock (jwt_adapter.py:90-97).
RequestsAnswered == \A p \in Callers : auth[p].pc # "idle" ~> auth[p].pc = "idle"

\* "Every protected endpoint accepts either a JWT bearer token or a per-user
\* API key": a request without a token whose key was active when it arrived
\* and still is has not been refused.
ActiveKeyAuthenticates ==
    \A p \in Callers :
        auth[p].pc = "refused" /\ auth[p].token = Nil /\ auth[p].arrived = "active"
          => keys[auth[p].key].revoked

=============================================================================
