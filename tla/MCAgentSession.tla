---------------------------- MODULE MCAgentSession ----------------------------
(* Small instances of a session around an agent for TLC.                     *)
EXTENDS AgentSessionProperties
===============================================================================
