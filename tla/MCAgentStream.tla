---------------------------- MODULE MCAgentStream ----------------------------
(* A small instance of AgentStream. *)
EXTENDS AgentStream
=============================================================================
