-------------------------- MODULE MCPullRequestIntake --------------------------
(***************************************************************************)
(* A small instance of PullRequestIntake for TLC; the cfg file gives the      *)
(* bounds.                                                                 *)
(***************************************************************************)
EXTENDS PullRequestIntake

MCModes == {"manual", "all"}
=============================================================================
