---------------------------- MODULE LlmSettings ----------------------------
(***************************************************************************)
(* The LLM provider settings of a user: one row of base URL and encrypted  *)
(* API key, read and written by requests that overlap, and the Fernet key  *)
(* the process encrypts with.                                              *)
(*                                                                         *)
(* An upsert reads the row, then inserts, or updates the columns whose     *)
(* value differs from the one it read; the two statements are two steps.   *)
(* A token is the plaintext and the Fernet key it was made with: two       *)
(* tokens of one plaintext differ, so the key column is always written.    *)
(***************************************************************************)
EXTENDS Naturals

CONSTANTS
    Owners,      \* users
    Urls,        \* base URLs
    Secrets,     \* plaintext keys
    Inputs,      \* the <<url, secret>> pairs that users submit
    Writers,     \* requests to /api/v1/settings/llm
    Configured,  \* whether SECRET_ENCRYPTION_KEY may be set
    MaxBoots,    \* bound on the restarts
    NoSettings

ASSUME LlmAssumption ==
    /\ Inputs \subseteq Urls \X Secrets
    /\ Configured \subseteq BOOLEAN
    /\ MaxBoots \in Nat
    /\ NoSettings \notin [url : Urls, secret : Secrets, enc : Nat, raced : BOOLEAN]
    /\ NoSettings \notin Owners

VARIABLES
    configured, \* SECRET_ENCRYPTION_KEY is set
    boot,       \* how often the process has been started
    settings,   \* settings[u]: the row of user_llm_settings; raced is a history:
                \* the row was changed between the read and the write of its writer
    put,        \* put[w]: the request w
    resolved    \* what the last build got: credentials, "none" or "error"

llmVars == <<configured, boot, settings, put, resolved>>

FreshKey == boot

\* A throwaway key is generated at every start without a configured one.
FernetKey == IF configured THEN 0 ELSE boot

NoPut == [op |-> "none", user |-> NoSettings, input |-> NoSettings, read |-> NoSettings]

LlmInit ==
    /\ configured \in Configured
    /\ boot = 0
    /\ settings = [u \in Owners |-> NoSettings]
    /\ put = [w \in Writers |-> NoPut]
    /\ resolved = "none"

Answer(w) == put' = [put EXCEPT ![w] = NoPut]

\* session.get, the first statement of PUT and DELETE.
ReadForUpsert(w) ==
    /\ put[w].op = "none"
    /\ \E u \in Owners, i \in Inputs :
         put' = [put EXCEPT ![w] = [op |-> IF settings[u] = NoSettings THEN "insert" ELSE "update",
                                    user |-> u, input |-> i, read |-> settings[u]]]
    /\ UNCHANGED <<configured, boot, settings, resolved>>

ReadForDelete(w) ==
    /\ put[w].op = "none"
    /\ \E u \in Owners :
         /\ settings[u] # NoSettings
         /\ put' = [put EXCEPT ![w] = [NoPut EXCEPT !.op = "delete", !.user = u]]
    /\ UNCHANGED <<configured, boot, settings, resolved>>

\* A primary key that exists by now is a StorageError.
CommitInsert(w) ==
    LET u == put[w].user
        i == put[w].input
    IN  /\ put[w].op = "insert"
        /\ settings' = IF settings[u] = NoSettings
                         THEN [settings EXCEPT ![u] = [url |-> i[1], secret |-> i[2],
                                                       enc |-> FernetKey, raced |-> FALSE]]
                         ELSE settings
        /\ Answer(w)
        /\ UNCHANGED <<configured, boot, resolved>>

KeyOnly(row, read, i) ==
    [url |-> row.url, secret |-> i[2], enc |-> FernetKey, raced |-> row.url # read.url]

\* The columns that differ from what was read are in the UPDATE.
Updated(row, read, i) ==
    [url |-> IF i[1] # read.url THEN i[1] ELSE row.url,
     secret |-> i[2], enc |-> FernetKey, raced |-> row.url # read.url]

\* An UPDATE that matches no row is a StaleDataError, hence a StorageError.
CommitUpdate(w) ==
    LET u == put[w].user
    IN  /\ put[w].op = "update"
        /\ settings' = IF settings[u] = NoSettings
                         THEN settings
                         ELSE [settings EXCEPT ![u] = Updated(@, put[w].read, put[w].input)]
        /\ Answer(w)
        /\ UNCHANGED <<configured, boot, resolved>>

CommitDelete(w) ==
    /\ put[w].op = "delete"
    /\ settings' = [settings EXCEPT ![put[w].user] = NoSettings]
    /\ Answer(w)
    /\ UNCHANGED <<configured, boot, resolved>>

CommitFails(w) ==
    /\ put[w].op # "none"
    /\ Answer(w)
    /\ UNCHANGED <<configured, boot, settings, resolved>>

\* get_decrypted: a token of another key raises InvalidToken, which no one
\* catches; GET of the settings shows no preview instead.
Resolve(u) ==
    /\ resolved' =
         IF settings[u] = NoSettings THEN "none"
         ELSE IF settings[u].enc # FernetKey THEN "error"
         ELSE "credentials"
    /\ UNCHANGED <<configured, boot, settings, put>>

Reboot ==
    /\ boot < MaxBoots
    /\ boot' = boot + 1
    /\ put' = [w \in Writers |-> NoPut]
    /\ resolved' = "none"
    /\ UNCHANGED <<configured, settings>>

LlmNext ==
    \/ Reboot
    \/ \E u \in Owners : Resolve(u)
    \/ \E w \in Writers :
         \/ ReadForUpsert(w) \/ ReadForDelete(w)
         \/ CommitInsert(w) \/ CommitUpdate(w) \/ CommitDelete(w) \/ CommitFails(w)

LlmSpec == LlmInit /\ [][LlmNext]_llmVars

-----------------------------------------------------------------------------
(* Properties *)

\* The URL and the key of a row were submitted together, unless the row was
\* changed between the read and the write of the request that wrote it last:
\* only then is a key sent to the URL of another provider
\* (postgres_user_llm/adapter.py:122-141).
KeyGoesWithUrl ==
    \A u \in Owners :
        settings[u] # NoSettings /\ ~settings[u].raced =>
            <<settings[u].url, settings[u].secret>> \in Inputs

\* With a configured key no restart makes the settings of a user unreadable
\* (dependencies.py:215-224).
ConfiguredKeysReadable == configured => resolved # "error"

=============================================================================
