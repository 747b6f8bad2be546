---------------------------- MODULE MCAgentTasks ----------------------------
(***************************************************************************)
(* Instance of AgentTasks for TLC: a child a of the Root and a child b of a.*)
(***************************************************************************)
EXTENDS AgentTasks

CONSTANTS a, b, root

MCParent == [t \in Task |-> IF t = a THEN root ELSE a]
MCDepth == [n \in Node |-> CASE n = root -> 0 [] n = a -> 1 [] OTHER -> 2]
=============================================================================
