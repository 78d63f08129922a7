-------------------------- MODULE MCPullRequestSync --------------------------
(***************************************************************************)
(* A small instance of PullRequestSync for TLC; the cfg files give every    *)
(* bound.                                                                  *)
(***************************************************************************)
EXTENDS PullRequestSync

MCCancelledSyncs == {1}
=============================================================================
