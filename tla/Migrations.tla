----------------------------- MODULE Migrations -----------------------------
(***************************************************************************)
(* The Alembic chain: what each revision needs of the schema, adds to it   *)
(* and drops, the copy of the legacy messages into trace_events (006) and  *)
(* back, and the one transaction a run of alembic is.                      *)
(*                                                                         *)
(* The schema is the set of the tables, columns and policies that later    *)
(* steps depend on.  A row is its id and the message it records.           *)
(***************************************************************************)
EXTENDS Integers, Sequences, SequencesExt

CONSTANTS
    Legacy,    \* messages the application of revisions 002 to 005 stores
    Recent,    \* messages the application of revision 007 on stores
    Role,      \* Role[m]: "human", "ai", "tool" or "system"
    Targets,   \* the positions in the chain that alembic is sent to
    MaxRuns,   \* bound on the runs of alembic
    NoRun

ASSUME MigrationAssumption ==
    /\ Legacy \cap Recent = {}
    /\ Role \in [Legacy \cup Recent -> {"human", "ai", "tool", "system"}]
    /\ Targets \subseteq 0 .. 12
    /\ MaxRuns \in Nat

VARIABLES
    db,     \* the database: position in the chain, schema, rows, next free id
    run,    \* the run of alembic under way: its target and the database it
            \* started from, or NoRun
    stored, \* history: the messages stored so far
    raised, \* history: the steps that raised, as <<how, position>>
    runs

migrationVars == <<db, run, stored, raised, runs>>

Step(needs, absent, makes, drops) ==
    [needs |-> needs, absent |-> absent, makes |-> makes, drops |-> drops]

Revision(up, down) == [up |-> up, down |-> down]

Rev001 == Revision(Step({}, {}, {"agent_configs", "is_builtin"}, {}),
                   Step({"agent_configs"}, {}, {}, {"agent_configs", "is_builtin"}))

Rev002 == Revision(Step({}, {}, {"threads", "messages"}, {}),
                   Step({"messages", "threads"}, {}, {}, {"messages", "threads"}))

\* add_column is given a string and raises whatever the schema is.
Rev003 == Revision(Step({"agent_configs", "is_builtin"}, {}, {}, {"is_builtin"}),
                   Step({"column_object"}, {}, {"is_builtin"}, {}))

Rev004 == Revision(Step({"messages"}, {"thinking"}, {"thinking"}, {}),
                   Step({"messages", "thinking"}, {}, {}, {"thinking"}))

Rev005 == Revision(Step({"threads"}, {}, {"trace_events"}, {}),
                   Step({}, {}, {}, {"trace_events"}))

Rev006WithoutTable ==
    Revision(Step({"messages", "thinking", "trace_events"}, {}, {}, {}),
             Step({"messages", "threads", "trace_events"}, {}, {}, {}))

\* Down, the table is created if 007 has dropped it.
Rev006 == Revision(Step({"messages", "thinking", "trace_events"}, {}, {}, {}),
                   Step({"threads", "trace_events"}, {}, {"messages", "thinking"}, {}))

Rev007 == Revision(Step({}, {}, {}, {"messages", "thinking"}),
                   Step({}, {}, {}, {}))

Rev010 == Revision(Step({"agent_configs"}, {"description"}, {"description"}, {}),
                   Step({"agent_configs", "description"}, {}, {}, {"description"}))

Rev011 == Revision(Step({}, {}, {"api_keys"}, {}),
                   Step({}, {}, {}, {"api_keys"}))

Rev012 == Revision(Step({"agent_configs", "threads", "trace_events"}, {}, {"user_id"}, {}),
                   Step({"agent_configs", "threads", "trace_events"}, {}, {}, {"user_id"}))

Rev013 == Revision(Step({"user_id", "api_keys"}, {"policies"}, {"policies"}, {}),
                   Step({"user_id", "api_keys"}, {}, {}, {"policies"}))

Rev014 == Revision(Step({}, {"llm_policy"}, {"user_llm_settings", "llm_policy"}, {}),
                   Step({"user_llm_settings"}, {}, {}, {"user_llm_settings", "llm_policy"}))

Chain == <<Rev001, Rev002, Rev003, Rev004, Rev005, Rev006, Rev007,
           Rev010, Rev011, Rev012, Rev013, Rev014>>

Newest == Len(Chain)

Copying == 6   \* the position of revision 006

MigrationInit ==
    /\ db = [at |-> 0, schema |-> {}, messages |-> {}, events |-> {}, next |-> 1]
    /\ run = NoRun
    /\ stored = {}
    /\ raised = {}
    /\ runs = 0

-----------------------------------------------------------------------------
(* The data of revision 006 *)

WithFreshIds(rows, next) ==
    LET list == SetToSeq(rows)
    IN  {[id |-> next + i, msg |-> list[i].msg] : i \in DOMAIN list}

\* One event, with an id and a turn of its own, for every message.
Copied(d) ==
    [d EXCEPT !.events = @ \cup WithFreshIds(d.messages, d.next),
              !.next = @ + Cardinality(d.messages) + 1]

NotRecreated(d) == d

\* A message, with the id of the event, for every human and ai event: the
\* primary key raises when that row is still there.
Recreated(d) ==
    [d EXCEPT !.messages =
        @ \cup {e \in d.events : Role[e.msg] \in {"human", "ai"}}]

KeyTaken(d) ==
    \E m \in d.messages, e \in d.events : m.id = e.id /\ Role[e.msg] \in {"human", "ai"}

\* Rows go with their table.
Reshaped(d, step, at) ==
    LET schema == (d.schema \cup step.makes) \ step.drops
    IN  [d EXCEPT !.at = at, !.schema = schema,
                  !.messages = IF "messages" \in schema THEN @ ELSE {},
                  !.events = IF "trace_events" \in schema THEN @ ELSE {}]

-----------------------------------------------------------------------------
(* alembic upgrade and downgrade *)

BeginRun ==
    /\ run = NoRun
    /\ runs < MaxRuns
    /\ \E target \in Targets \ {db.at} : run' = [target |-> target, before |-> db]
    /\ runs' = runs + 1
    /\ UNCHANGED <<db, stored, raised>>

Applies(step) == step.needs \subseteq db.schema /\ step.absent \cap db.schema = {}

Upgrade ==
    /\ run # NoRun
    /\ db.at < run.target
    /\ LET step == Chain[db.at + 1].up
           shaped == Reshaped(db, step, db.at + 1)
       IN  /\ Applies(step)
           /\ db' = IF db.at + 1 = Copying THEN Copied(shaped) ELSE shaped
    /\ UNCHANGED <<run, stored, raised, runs>>

Downgrade ==
    /\ run # NoRun
    /\ db.at > run.target
    /\ LET step == Chain[db.at].down
           shaped == Reshaped(db, step, db.at - 1)
       IN  /\ Applies(step)
           /\ db.at = Copying => ~KeyTaken(db)
           /\ db' = IF db.at = Copying THEN Recreated(shaped) ELSE shaped
    /\ UNCHANGED <<run, stored, raised, runs>>

\* A step that raises takes the whole run back: it is one transaction.
StepRaises ==
    /\ run # NoRun
    /\ \/ /\ db.at < run.target
          /\ ~Applies(Chain[db.at + 1].up)
          /\ raised' = raised \cup {<<"up", db.at + 1>>}
       \/ /\ db.at > run.target
          /\ ~Applies(Chain[db.at].down)
          /\ raised' = raised \cup {<<"down", db.at>>}
       \/ /\ db.at > run.target
          /\ db.at = Copying /\ KeyTaken(db)
          /\ raised' = raised \cup {<<"primary_key", db.at>>}
    /\ db' = run.before
    /\ run' = NoRun
    /\ UNCHANGED <<stored, runs>>

CommitRun ==
    /\ run # NoRun
    /\ db.at = run.target
    /\ run' = NoRun
    /\ UNCHANGED <<db, stored, raised, runs>>

-----------------------------------------------------------------------------
(* The application, between two runs *)

StoreLegacy ==
    /\ run = NoRun
    /\ db.at \in 2 .. 5
    /\ \E m \in Legacy \ stored :
         /\ stored' = stored \cup {m}
         /\ db' = [db EXCEPT !.messages = @ \cup {[id |-> db.next, msg |-> m]},
                             !.next = @ + 1]
    /\ UNCHANGED <<run, raised, runs>>

StoreEvent ==
    /\ run = NoRun
    /\ db.at = Newest
    /\ \E m \in Recent \ stored :
         /\ stored' = stored \cup {m}
         /\ db' = [db EXCEPT !.events = @ \cup {[id |-> db.next, msg |-> m]},
                             !.next = @ + 1]
    /\ UNCHANGED <<run, raised, runs>>

MigrationNext ==
    \/ BeginRun \/ Upgrade \/ Downgrade \/ StepRaises \/ CommitRun
    \/ StoreLegacy \/ StoreEvent

MigrationSpec == MigrationInit /\ [][MigrationNext]_migrationVars

-----------------------------------------------------------------------------
(* Properties *)

\* Whatever the chain of upgrades and downgrades above revision 002, a human
\* or ai message is in the table the application of that revision reads:
\* trace_events from 006 on, messages before ("no data is lost",
\* 006_migrate_messages_to_trace_events.py:18-26).
NoTurnLost ==
    run = NoRun /\ db.at >= 2 =>
        \A m \in stored :
            Role[m] \in {"human", "ai"} =>
                \E r \in IF db.at >= Copying THEN db.events ELSE db.messages : r.msg = m

\* The steps agree on the schema in every order they can be run in: alembic
\* upgrade never raises, and the way down only at 003, whatever the schema,
\* and at 006 over rows an earlier downgrade wrote and no 007 has dropped
\* since (007_drop_messages_table.py:28-32 leaves the table to 006).
StepsFit == raised \subseteq {<<"down", 3>>, <<"primary_key", Copying>>}

=============================================================================
