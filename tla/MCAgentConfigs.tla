-------------------------- MODULE MCAgentConfigs --------------------------
(* Small instances of AgentConfigs: a leaf agent with two documents, and an  *)
(* agent whose document references the leaf, or nobody after an update.      *)
EXTENDS AgentConfigs, TLC

CONSTANTS Leaf, Parent,      \* agents
          Leaf1, Leaf2,      \* documents without references
          Refers, Alone,     \* documents of Parent
          A1, A2, U1, U2     \* requests

MCRefs == [c \in {Leaf1, Leaf2, Alone} |-> <<>>] @@ (Refers :> <<Leaf>>)

\* Parent always references Leaf: it stops doing so only by being deleted.
MCFewUploads == {<<Leaf, Leaf1>>, <<Leaf, Leaf2>>, <<Parent, Refers>>}

\* Parent may also stop referencing Leaf, and Leaf may try to reference itself.
MCUploads == MCFewUploads \cup {<<Parent, Alone>>, <<Leaf, Refers>>}

AdminSymmetry == Permutations(Admins)

=============================================================================
