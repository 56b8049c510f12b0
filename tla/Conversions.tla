----------------------------- MODULE Conversions -----------------------------
(***************************************************************************)
(* The functions that turn what the program is given into what it uses:    *)
(* the decisions of a client, the MCP servers of an agent and the document *)
(* of an agent.  A behaviour is one call of one of them.                   *)
(***************************************************************************)
EXTENDS HitlPairing, McpHeaders, YamlConfig

CONSTANTS
    CallIds, Tools, Actions, \* tool calls and decisions about them
    Interrupts,              \* interrupted turns with the decisions of a client
    UserCredentials,         \* bearer tokens and API keys of users
    Loads,                   \* MCP servers with the user they are loaded for
    Documents,               \* documents of agents
    Nothing                  \* no input, no result yet

\* A model gives the calls of one message ids of their own.
ASSUME ConversionsAssumption ==
    /\ Interrupts \subseteq
         [messages : Seq(Seq([id : CallIds, name : Tools])),
          interruptOn : SUBSET Tools,
          decisions : Seq([id : CallIds, action : Actions])]
    /\ \A turn \in Interrupts : \A m \in DOMAIN turn.messages :
         \A i, j \in DOMAIN turn.messages[m] :
           turn.messages[m][i].id = turn.messages[m][j].id => i = j
    /\ \A load \in Loads :
         /\ load.caller \in [method : {"jwt", "api_key", "none"}, credential : UserCredentials]
         /\ load.configs \in Seq({load.configs[i] : i \in DOMAIN load.configs})
    /\ Documents \subseteq
         [text : {"mapping", "blank", "broken", "list", "scalar", "missing"},
          keys : SUBSET STRING, backendKeys : SUBSET STRING, backend : STRING,
          nameLength : Nat, prompt : STRING, promptFile : STRING,
          servers : SUBSET [transport : {"stdio", "http"}, command : BOOLEAN, url : BOOLEAN]]

VARIABLES
    part,  \* the function
    given, \* its input
    got    \* its result

conversionVars == <<part, given, got>>

ConversionsInit ==
    /\ \/ part = "hitl" /\ given \in Interrupts
       \/ part = "headers" /\ given \in Loads
       \/ part = "yaml" /\ given \in Documents
    /\ got = Nothing

Evaluate(p, result) ==
    /\ part = p
    /\ got = Nothing
    /\ got' = result
    /\ UNCHANGED <<part, given>>

Resume == Evaluate("hitl", ResumeInput(given))

LoadTools == Evaluate("headers", ServerConfigs(given.configs, given.caller))

LoadDocument ==
    \/ /\ part = "yaml" /\ given.text # "missing"
       /\ Evaluate("yaml", LoadFromString(given))
    \/ Evaluate("yaml", Load(given))

ConversionsNext == Resume \/ LoadTools \/ LoadDocument

ConversionsSpec == ConversionsInit /\ [][ConversionsNext]_conversionVars

-----------------------------------------------------------------------------

\* DecisionsReachTheirCalls: a resumed turn gives every interrupted tool call
\* the decision meant for it.
DecisionsReachTheirCalls ==
    part = "hitl" /\ got # Nothing => DecisionsReachCalls(given, got)

\* ServersGetOwnCredential: MCP servers are sent the credential of the user
\* where they ask for it, and nowhere else.
ServersGetOwnCredential ==
    part = "headers" /\ got # Nothing => CredentialsAsAsked(given.configs, given.caller, got)

\* StoredDocumentsLoad: documents of earlier versions still load, and only
\* complete ones do.
StoredDocumentsLoad ==
    part = "yaml" /\ got # Nothing => OldDocumentsLoad(given, got)

=============================================================================
