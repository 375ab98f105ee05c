--------------------------- MODULE MCAgentStage ---------------------------
(***************************************************************************)
(* Instances of AgentStage for TLC.                                        *)
(***************************************************************************)
EXTENDS AgentStage, TLC

CONSTANTS c1, c2, c3
=============================================================================
