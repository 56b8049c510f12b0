---------------------------- MODULE MCAgentBuild ----------------------------
(***************************************************************************)
(* Small instances of AgentBuild: two skills of one name, another skill    *)
(* and a memory, and two versions of the agent that select different ones. *)
(***************************************************************************)
EXTENDS AgentBuild, TLC

CONSTANTS U1, U2, X, Y, Key1, Key2

Skill(dir, name) == [kind |-> "skills", dir |-> dir, name |-> name]

Memory == [kind |-> "memories", dir |-> "/memories/", name |-> "AGENTS.md"]

Sources ==
    {Skill("/skills/", "rag"), Skill("/shared/", "rag"), Skill("/skills/", "mcp"), Memory}

MCPaths == Sources \cup {CopyOf(p) : p \in Sources}

MCSelections ==
    {[skills |-> <<Skill("/skills/", "rag"), Skill("/shared/", "rag")>>, memory |-> <<>>,
      checkpoints |-> "memory"],
     [skills |-> <<Skill("/skills/", "mcp")>>, memory |-> <<Memory>>,
      checkpoints |-> "postgres"]}

Users == Permutations({U1, U2})

NothingSelected == {[skills |-> <<>>, memory |-> <<>>, checkpoints |-> "postgres"]}

=============================================================================
