--------------------------- MODULE MCWorkflowStart ---------------------------
(***************************************************************************)
(* A small instance of WorkflowStart for TLC: two requests, and as many     *)
(* runs as two faults can make them start.                                 *)
(***************************************************************************)
EXTENDS WorkflowStart

CONSTANTS c1, c2, r1, r2, r3

MCCallers == {c1, c2}
MCRuns == {r1, r2, r3}
=============================================================================
