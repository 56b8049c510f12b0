----------------------------- MODULE YamlConfig -----------------------------
(***************************************************************************)
(* Loading a YAML document into an AgentConfig: from a string, as every    *)
(* document of the store is, or from a file next to its prompt file.       *)
(*                                                                         *)
(* A document is what the loader looks at: whether it parses, to a mapping *)
(* or not, and of the mapping the keys the rules below are about.          *)
(***************************************************************************)
EXTENDS Naturals

Absent == "absent"

DeprecatedFields == {"middleware"}
DeprecatedBackendFields == {"root_dir", "store_backend"}
DeprecatedBackendTypes == {"state"}

\* backend.keys are the keys other than its type.
StripKeepsType(doc) ==
    [doc EXCEPT !.keys = @ \ DeprecatedFields,
                !.backendKeys = @ \ DeprecatedBackendFields]

\* _strip_deprecated
Strip(doc) ==
    [doc EXCEPT !.keys = @ \ DeprecatedFields,
                !.backendKeys = @ \ DeprecatedBackendFields,
                !.backend = IF @ \in DeprecatedBackendTypes THEN "store" ELSE @]

ConfigError(why) == [error |-> why]

\* validate_transport_fields
ServerOk(server) ==
    CASE server.transport = "stdio" -> server.command
      [] server.transport = "http" -> server.url
      [] OTHER -> FALSE

\* AgentConfig.model_validate: other keys are forbidden in the document and
\* ignored in its backend.
Validate(doc) ==
    IF /\ doc.keys = {}
       /\ doc.nameLength \in 1 .. 100
       /\ doc.backend \in {"store", Absent}
       /\ \A s \in doc.servers : ServerOk(s)
       /\ doc.prompt = Absent \/ doc.promptFile = Absent
      THEN [error |-> "none", nameLength |-> doc.nameLength, backend |-> "store",
            prompt |-> doc.prompt, servers |-> doc.servers]
      ELSE ConfigError("validation")

Parse(doc) ==
    CASE doc.text = "broken" -> "invalid_yaml"
      [] doc.text \in {"list", "scalar"} -> "not_a_mapping"
      [] OTHER -> "none"

LoadFromString(doc) ==
    IF doc.text = "blank" THEN ConfigError("empty")
    ELSE IF Parse(doc) # "none" THEN ConfigError(Parse(doc))
    ELSE IF doc.promptFile # Absent THEN ConfigError("prompt_file_disallowed")
    ELSE Validate(Strip(doc))

\* The text of the prompt file replaces a prompt in the document.
Load(doc) ==
    IF doc.text = "missing" THEN ConfigError("not_found")
    ELSE IF doc.text = "blank" THEN ConfigError("not_a_mapping")
    ELSE IF Parse(doc) # "none" THEN ConfigError(Parse(doc))
    ELSE IF doc.promptFile = "missing_file" THEN ConfigError("prompt_file_not_found")
    ELSE IF doc.promptFile # Absent
      THEN Validate([Strip(doc) EXCEPT !.prompt = "file_text", !.promptFile = Absent])
    ELSE Validate(Strip(doc))

-----------------------------------------------------------------------------

\* A document written for an earlier version loads as the same document
\* without what was removed since, with the one backend that is left; and
\* what loads names its agent and can start its servers
\* (yaml_config/adapter.py:18-94, mcp_server_config.py:24-30).
OldDocumentsLoad(doc, loaded) ==
    LET removed == DeprecatedFields \cup DeprecatedBackendFields
        modern == /\ doc.text = "mapping"
                  /\ doc.keys \subseteq removed
                  /\ doc.backend \in {"store", "state", Absent}
                  /\ doc.nameLength > 0 /\ doc.nameLength <= 100
                  /\ \A s \in doc.servers : s.transport = "stdio" => s.command
                  /\ \A s \in doc.servers : s.transport = "http" => s.url
    IN  /\ loaded.error = "none" =>
             modern /\ loaded.backend = "store" /\ loaded.servers = doc.servers
        /\ modern /\ doc.promptFile = Absent /\ doc.keys \subseteq DeprecatedFields =>
             loaded.error = "none" /\ loaded.prompt = doc.prompt

=============================================================================
