-------------------------- MODULE MCAgentDeployment --------------------------
(***************************************************************************)
(* Small instances of AgentDeployment for TLC.                             *)
(***************************************************************************)
EXTENDS AgentDeployment, TLC

\* Two deployments at a time where no orphan agents are found.
OneOnCattle == [o \in Orchestrators |-> IF o = "cattle" THEN 1 ELSE 2]
=============================================================================
