---------------------------- MODULE MCSourceBlobs ----------------------------
(* SourceBlobs for TLC: model values for calls, pruning jobs and keys.      *)
EXTENDS SourceBlobs

CONSTANTS c1, c2, p1

MCCalls == {c1, c2}
MCPruners == {p1}
MCKinds == {"local", "uploadthing"}
=============================================================================
