--------------------------- MODULE MCAgentCommands --------------------------
(* Small instances of AgentCommands.                                        *)
EXTENDS AgentCommands

CONSTANTS c1, c2
=============================================================================
