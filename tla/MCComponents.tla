---------------------------- MODULE MCComponents ----------------------------
(***************************************************************************)
(* Small instances of the components that do not interact with each other: *)
(* a behaviour explores one of them, its part, and leaves the rest alone.  *)
(* A part that is a function has one step: its value for the given input.  *)
(***************************************************************************)
EXTENDS Access, PromptCache, LlmSettings, Migrations, Conversions, ResponseSchema, TLC

CONSTANTS
    Parts,                  \* the components to explore
    Http, Socket,           \* requests
    K1, K2, S1, U1, U2,     \* signing keys, API key, users
    PromptA, PromptB, E1,   \* prompts, editor
    W1, W2, UrlA, UrlB, SecretA, SecretB,
    L1, L2, R1              \* legacy and recent messages

-----------------------------------------------------------------------------
(* Access *)

Named == [kid |-> K1, user |-> U1, named |-> TRUE, good |-> TRUE]
Unnamed == [kid |-> K2, user |-> U2, named |-> FALSE, good |-> TRUE]

MCTokens == {Named, Unnamed}
MCPublished == {<<K1>>, <<K2>>}
MCCredentials == {<<Named, Nil>>, <<Unnamed, S1>>, <<Nil, S1>>, <<Nil, MasterKey>>,
                  <<Nil, Nil>>}

DualAuth == [exempt |-> TRUE, wired |-> TRUE, guarded |-> FALSE]
RowSecurity == [exempt |-> FALSE, wired |-> TRUE, guarded |-> TRUE]
MasterKeyOnly == [exempt |-> TRUE, wired |-> FALSE, guarded |-> TRUE]

MCDeployments == {DualAuth, RowSecurity, MasterKeyOnly}
MCRowSecurity == {RowSecurity}

(* LlmSettings and Migrations *)

MCInputs == {<<UrlA, SecretA>>, <<UrlB, SecretB>>}

MCRole == L1 :> "human" @@ L2 :> "tool" @@ R1 :> "ai"

(* HitlPairing *)

MCCalls ==
    {[i \in DOMAIN names |-> [id |-> i, name |-> names[i]]] :
        names \in UNION {[1 .. n -> {"write", "send"}] : n \in 1 .. 3}}

MCDecisions ==
    UNION {[1 .. n -> [id : 1 .. 4, action : {"approve", "reject"}]] : n \in 0 .. 3}

MCTurns ==
    [messages : {<<calls>> : calls \in MCCalls}, interruptOn : {{"write"}}, decisions : MCDecisions]
    \cup
    [messages : {<<<<[id |-> 4, name |-> "send"]>>, calls, <<>>>> : calls \in MCCalls},
     interruptOn : {{"write", "send"}},
     decisions : {d \in MCDecisions : \A i \in DOMAIN d : d[i].action = "approve"}]

(* McpHeaders *)

MCValues ==
    {v \in SUBSET {"Bearer", "empty_variable", "USER_JWT", "USER_API_KEY"} : Cardinality(v) <= 2}

MCServers ==
    [name : {"rag", "files"}, headers : {"Authorization" :> v : v \in MCValues}]

MCLoads ==
    [configs : {<<s, t>> : s \in MCServers, t \in {u \in MCServers : u.name = "rag"}},
     caller : {[method |-> m, credential |-> "credential"] : m \in {"jwt", "api_key", "none"}}]

(* ResponseSchema *)

Form(f) == [form |-> f]
ObjectWith(name, schema, required) ==
    [form |-> "object", properties |-> name :> schema, required |-> required]

Simple == {Form("string"), Form("number")}
Deep == Simple \cup {ObjectWith("x", s, r) : s \in Simple, r \in {{}, {"x"}}}
             \cup {[form |-> "enum", values |-> {[kind |-> "string"]}]}
Arrays == {[form |-> "array", items |-> s] : s \in Deep}
Unions == {[form |-> f, variants |-> <<s, t>>] :
             f \in {"anyOf", "types"}, s \in Simple \cup Arrays, t \in Simple \cup {Form("null")}}

Leaves == {[kind |-> k] : k \in {"string", "integer", "null"}}
Objects(members) ==
    {[kind |-> "object", members |-> <<>>]} \cup
    {[kind |-> "object", members |-> "x" :> v] : v \in members}
JsonValues ==
    LET shallow == Leaves \cup Objects(Leaves)
    IN  shallow \cup {[kind |-> "array", items |-> <<>>]}
                \cup {[kind |-> "array", items |-> <<v>>] : v \in shallow}

MCAnswers ==
    [schema : {ObjectWith(name, s, r) :
                 name \in {"x", "a-b"}, s \in Deep \cup Arrays \cup Unions, r \in {{}, {"x"}}},
     value : Objects(JsonValues)]

(* YamlConfig *)

MCYamlServers ==
    {{}} \cup {{s} : s \in [transport : {"stdio", "http"}, command : BOOLEAN, url : BOOLEAN]}

MCDocuments ==
    [text : {"mapping"},
     keys : SUBSET {"middleware", "colour"},
     backendKeys : SUBSET {"root_dir"},
     backend : {"store", "state", "disk", Absent},
     nameLength : {0, 1, 100, 101},
     prompt : {"inline", Absent},
     promptFile : {"prompt.txt", "missing_file", Absent},
     servers : MCYamlServers]
    \cup
    [text : {"blank", "broken", "list", "missing"}, keys : {{}}, backendKeys : {{}},
     backend : {Absent}, nameLength : {1}, prompt : {Absent}, promptFile : {Absent},
     servers : {{}}]

-----------------------------------------------------------------------------

otherVars == <<accessVars, promptVars, llmVars, migrationVars>>

componentVars == <<conversionVars, otherVars>>

ComponentsInit ==
    /\ part \in Parts
    /\ AccessInit /\ PromptInit /\ LlmInit /\ MigrationInit
    /\ part # "access" => kids = <<K1>> /\ deployment = CHOOSE d \in Deployments : TRUE
    /\ part # "llm" => configured
    /\ \/ ConversionsInit
       \/ part = "schema" /\ given \in MCAnswers /\ got = Nothing
       \/ /\ part \in {"access", "prompts", "llm", "migrations"}
          /\ given = Nothing /\ got = Nothing

BuildModel == Evaluate("schema", ObjectModel(given.schema))

ComponentsNext ==
    \/ /\ part = "access" /\ AccessNext
       /\ UNCHANGED <<conversionVars, promptVars, llmVars, migrationVars>>
    \/ /\ part = "prompts" /\ PromptNext
       /\ UNCHANGED <<conversionVars, accessVars, llmVars, migrationVars>>
    \/ /\ part = "llm" /\ LlmNext
       /\ UNCHANGED <<conversionVars, accessVars, promptVars, migrationVars>>
    \/ /\ part = "migrations" /\ MigrationNext
       /\ UNCHANGED <<conversionVars, accessVars, promptVars, llmVars>>
    \/ (ConversionsNext \/ BuildModel) /\ UNCHANGED otherVars

ComponentsSpec == ComponentsInit /\ [][ComponentsNext]_componentVars /\ AccessFairness

-----------------------------------------------------------------------------

\* Structured answers that conform to the response_format are accepted.
ConformingAnswersAccepted ==
    part = "schema" /\ got # Nothing => ConformingAccepted(given.schema, given.value, got)

=============================================================================
