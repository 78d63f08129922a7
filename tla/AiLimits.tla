------------------------------ MODULE AiLimits ------------------------------
(***************************************************************************)
(* The limit that the durable loop of WorkflowStart and the turns of AiJob  *)
(* share.                                                                  *)
(***************************************************************************)
CONSTANT AI_MAX_MODEL_STEPS  \* turns of a run before its closing step
=============================================================================
