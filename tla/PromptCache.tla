---------------------------- MODULE PromptCache ----------------------------
(***************************************************************************)
(* Prompts: the versions Phoenix keeps, the requests that create and       *)
(* update them, and the content that agent builds read through the cache   *)
(* of the registry's provider.                                             *)
(*                                                                         *)
(* The Phoenix client is synchronous and the lock of the cache is never    *)
(* contended, so one call of the provider is one step.  The routes get a   *)
(* provider of their own from get_prompt_manager, so what they write       *)
(* reaches the cache of the registry by expiry only.  A content is the     *)
(* number of its version.                                                  *)
(***************************************************************************)
EXTENDS Naturals, Sequences

CONSTANTS
    Prompts,     \* prompt identifiers
    Editors,     \* requests to the prompt routes
    Attempts,    \* _RETRY_ATTEMPTS
    CacheSize,   \* maxsize of the cache
    CacheTTL,    \* its ttl, in ticks
    MaxVersions, \* bound on the versions of a prompt
    PromptClock, \* bound on the clock
    NoPrompt     \* nothing served

ASSUME PromptAssumption ==
    /\ Attempts \in Nat \ {0}
    /\ CacheSize \in Nat \ {0}
    /\ CacheTTL \in Nat
    /\ MaxVersions \in Nat
    /\ PromptClock \in Nat
    /\ NoPrompt \notin Prompts

VARIABLES
    versions,   \* versions[n]: the history of n in Phoenix, as the times at
                \* which its versions were created; the last one is current
    cache,      \* the entries, least recently used first
    served,     \* what the last call of a build was given, and when
    edit,       \* edit[e]: the request of the editor e
    clock

promptVars == <<versions, cache, served, edit, clock>>

Current(n) == Len(versions[n])

NoEdit == [op |-> "none", name |-> NoPrompt, tries |-> 0, made |-> 0, ended |-> FALSE]

PromptInit ==
    /\ versions = [n \in Prompts |-> <<>>]
    /\ cache = <<>>
    /\ served = [name |-> NoPrompt, version |-> 0, at |-> 0]
    /\ edit = [e \in Editors |-> NoEdit]
    /\ clock = 0

PromptTick ==
    /\ clock < PromptClock
    /\ clock' = clock + 1
    /\ UNCHANGED <<versions, cache, served, edit>>

-----------------------------------------------------------------------------
(* POST /prompts/create and PUT /prompts/update *)

BeginEdit(e) ==
    /\ edit[e].op = "none"
    /\ \E op \in {"create", "update"}, n \in Prompts :
         edit' = [edit EXCEPT ![e] = [NoEdit EXCEPT !.op = op, !.name = n]]
    /\ UNCHANGED <<versions, cache, served, clock>>

Unwrapped(raised) == raised

\* _wrap_phoenix_error: what leaves a method is a domain exception.
Wrapped(raised) ==
    CASE raised \in {"timeout", "connect"} -> "unavailable"
      [] raised = "404" -> "not found"
      [] OTHER -> raised

\* retry_if_exception_type looks at what the method raises.
Retried(raised) == Wrapped(raised) \in {"timeout", "connect"}

\* An attempt is over: it raised, or not, and Phoenix has `added` versions.
Attempt(e, raised, added) ==
    LET was == edit[e]
    IN  edit' = [edit EXCEPT ![e] =
                    [op |-> was.op, name |-> was.name,
                     tries |-> was.tries + 1, made |-> was.made + added,
                     ended |-> ~(Retried(raised) /\ was.tries + 1 < Attempts)]]

Trying(e) == edit[e].op # "none" /\ ~edit[e].ended

\* An update gets the prompt first; then both create a version.  The answer
\* may be lost after Phoenix has stored it.
Save(e) ==
    LET n == edit[e].name
    IN  /\ Trying(e)
        /\ edit[e].op = "update" => Current(n) > 0
        /\ Current(n) < MaxVersions
        /\ versions' = [versions EXCEPT ![n] = Append(@, clock)]
        /\ \E raised \in {"nothing", "timeout"} : Attempt(e, raised, 1)
        /\ UNCHANGED <<cache, served, clock>>

\* 404 is the answer to the update of a prompt that is not there.
PhoenixFails(e) ==
    /\ Trying(e)
    /\ \E raised \in {"timeout", "connect", "404", "409", "5xx"} :
         /\ raised = "404" => edit[e].op = "update" /\ Current(edit[e].name) = 0
         /\ Attempt(e, raised, 0)
    /\ UNCHANGED <<versions, cache, served, clock>>

AnswerEdit(e) ==
    /\ edit[e].ended
    /\ edit' = [edit EXCEPT ![e] = NoEdit]
    /\ UNCHANGED <<versions, cache, served, clock>>

-----------------------------------------------------------------------------
(* get_prompt_content, called by a build *)

Entries(n) == {i \in DOMAIN cache : cache[i].name = n}

\* pop of the key: a prompt has one entry at most.
Without(n) ==
    IF Entries(n) = {} THEN cache
    ELSE LET i == CHOOSE i \in Entries(n) : TRUE
         IN  SubSeq(cache, 1, i - 1) \o SubSeq(cache, i + 1, Len(cache))

\* An entry is served until the clock has passed its expiry.
Alive(entry) == clock <= entry.expires

Slid(entry) == [entry EXCEPT !.expires = clock + CacheTTL]

Renewed(entry) == entry

Give(n, v) == served' = [name |-> n, version |-> v, at |-> clock]

Hit(n) ==
    \E i \in Entries(n) :
        /\ Alive(cache[i])
        /\ cache' = Append(Without(n), Renewed(cache[i]))
        /\ Give(n, cache[i].version)
        /\ UNCHANGED <<versions, edit, clock>>

Miss(n) == \A i \in Entries(n) : ~Alive(cache[i])

Trim(entries) ==
    SubSeq(entries, IF Len(entries) > CacheSize THEN Len(entries) - CacheSize + 1 ELSE 1,
           Len(entries))

Fetch(n) ==
    /\ Miss(n)
    /\ Current(n) > 0
    /\ cache' = Trim(Append(Without(n),
                  [name |-> n, version |-> Current(n), expires |-> clock + CacheTTL]))
    /\ Give(n, Current(n))
    /\ UNCHANGED <<versions, edit, clock>>

\* No prompt, or no Phoenix: the expired entry is gone and nothing is cached.
FetchRaises(n) ==
    /\ Miss(n)
    /\ cache' = Without(n)
    /\ UNCHANGED <<versions, served, edit, clock>>

-----------------------------------------------------------------------------

PromptNext ==
    \/ PromptTick
    \/ \E e \in Editors : BeginEdit(e) \/ Save(e) \/ PhoenixFails(e) \/ AnswerEdit(e)
    \/ \E n \in Prompts : Hit(n) \/ Fetch(n) \/ FetchRaises(n)

PromptSpec == PromptInit /\ [][PromptNext]_promptVars

-----------------------------------------------------------------------------
(* Properties *)

\* The prompt a build is given was the current one at most CacheTTL earlier,
\* however often the entry has been read since
\* (prompt_management/adapter.py:100-118).
ServedPromptIsRecent ==
    LET n == served.name
    IN  n # NoPrompt /\ served.version < Current(n) =>
          served.at <= versions[n][served.version + 1] + CacheTTL

\* A request adds one version at most, although the answer of Phoenix may be
\* lost and the methods are wrapped in _phoenix_retry: the error it waits for
\* never leaves a method (prompt_management/adapter.py:30-63, 228-304).
OneVersionPerRequest == \A e \in Editors : edit[e].made <= 1

=============================================================================
