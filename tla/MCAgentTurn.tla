---------------------------- MODULE MCAgentTurn ----------------------------
(***************************************************************************)
(* Instances of AgentTurn for TLC: two writes, one that a plan step gives  *)
(* to a sub-agent and one with a gate of its own, and pushes to two        *)
(* targets.                                                                *)
(***************************************************************************)
EXTENDS AgentTurn, TLC

CONSTANTS edit, create, origin, staging

\* The push targets are interchangeable.
Symmetry == Permutations({origin, staging})
=============================================================================
