---------------------------- MODULE MCResticAgent ----------------------------
(***************************************************************************)
(* Small instances of ResticAgent for TLC.                                 *)
(***************************************************************************)
EXTENDS ResticAgent
=============================================================================
