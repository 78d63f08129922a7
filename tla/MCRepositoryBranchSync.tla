------------------------ MODULE MCRepositoryBranchSync ------------------------
(* RepositoryBranchSync for TLC: two runs.                                  *)
EXTENDS RepositoryBranchSync

CONSTANTS r1, r2

MCRuns == {r1, r2}
=============================================================================
