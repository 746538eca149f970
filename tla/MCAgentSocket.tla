---------------------------- MODULE MCAgentSocket ----------------------------
(* AgentSocket for TLC.  Two launches make a stale file that the same      *)
(* supervisor left, and a second agent of one supervisor.                  *)
EXTENDS AgentSocket
=============================================================================
