----------------------------- MODULE McpHeaders -----------------------------
(***************************************************************************)
(* The MCP servers of an agent as load_tools configures them: the headers  *)
(* (or the environment, for stdio) with their placeholders resolved for    *)
(* the user who builds the agent.                                          *)
(*                                                                         *)
(* A header value is the set of its parts: literal text, the placeholder   *)
(* of an environment variable that is set, set to the empty string or      *)
(* unset, ${USER_JWT} and ${USER_API_KEY}.                                 *)
(***************************************************************************)
EXTENDS Naturals, Sequences, FiniteSetsExt

UserParts == {"USER_JWT", "USER_API_KEY"}

\* _resolve_user_placeholder: the credential, if it is of the right method.
UserPlaceholder(part, caller) ==
    IF \/ part = "USER_JWT" /\ caller.method = "jwt"
       \/ part = "USER_API_KEY" /\ caller.method = "api_key"
      THEN {caller.credential}
      ELSE {}

\* An unset variable keeps its placeholder.
ResolvePart(part, caller) ==
    IF part \in UserParts THEN UserPlaceholder(part, caller)
    ELSE {part} \ {"empty_variable"}

Resolved(value, caller) == UNION {ResolvePart(part, caller) : part \in value}

DroppedIfEmpty(value, caller) == Resolved(value, caller) = {}

\* resolve_headers_drop_empty
Dropped(value, caller) ==
    \/ Resolved(value, caller) = {}
    \/ \E part \in value \cap UserParts : UserPlaceholder(part, caller) = {}

Headers(mapping, caller) ==
    [h \in {h \in DOMAIN mapping : ~Dropped(mapping[h], caller)} |->
        Resolved(mapping[h], caller)]

\* load_tools: one entry for a server name, the last configuration of it.
ServerConfigs(configs, caller) ==
    [name \in {configs[i].name : i \in DOMAIN configs} |->
        LET i == Max({j \in DOMAIN configs : configs[j].name = name})
        IN  Headers(configs[i].headers, caller)]

-----------------------------------------------------------------------------

\* A server is sent a header with a user placeholder exactly when the user
\* came with a credential of that kind, and then this credential; no header is
\* sent with its credential missing, and no credential to a header that does
\* not ask for it, in whatever order the servers are configured and though
\* one name is configured twice (env_utils.py:113-157, mcp/adapter.py:43-59).
CredentialsAsAsked(configs, caller, servers) ==
    LET kind == IF caller.method = "jwt" THEN "USER_JWT" ELSE "USER_API_KEY"
        valid == {i \in DOMAIN configs :
                    \A j \in DOMAIN configs : j > i => configs[j].name # configs[i].name}
    IN  /\ DOMAIN servers = {configs[i].name : i \in DOMAIN configs}
        /\ \A i \in valid :
             LET asked == configs[i].headers
                 sent == servers[configs[i].name]
             IN  /\ \A h \in DOMAIN sent :
                      /\ h \in DOMAIN asked /\ sent[h] # {}
                      /\ asked[h] \cap UserParts # {} => caller.credential \in sent[h]
                      /\ caller.credential \in sent[h] \ asked[h] =>
                           kind \in asked[h] /\ caller.method # "none"
                 /\ \A h \in DOMAIN asked :
                      asked[h] \cap UserParts = {kind} /\ caller.method # "none" =>
                        h \in DOMAIN sent

=============================================================================
