------------------------------- MODULE MCAgent -------------------------------
(* Small instances of the agent for TLC.                                     *)
EXTENDS AgentProperties

\* Queues: every queue operation, few tools.
QueueCalls == {"steer", "followUp", "clear", "reset", "mode"}
\* Turns: the tools, with the calls an interactive user makes during a turn.
TurnCalls == {"steer", "abort", "trim"}
===============================================================================
