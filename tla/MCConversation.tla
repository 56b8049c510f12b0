-------------------------- MODULE MCConversation --------------------------
(* Small instances of Conversation and ThreadHistory: one thread and a few   *)
(* turns of every kind on it.  The interrupt of the first turn asks for two  *)
(* decisions, those of the others for one.                                   *)
EXTENDS ThreadHistory

MCCalls == [u \in Turns |-> IF u = CHOOSE v \in Turns : TRUE THEN 2 ELSE 1]

=============================================================================
