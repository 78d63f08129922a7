----------------------------- MODULE MCDeepReview -----------------------------
(***************************************************************************)
(* A small instance of DeepReview for TLC: two files in two lanes, the      *)
(* survey, two turns each, one cancel request, one fault of each kind.      *)
(***************************************************************************)
EXTENDS DeepReview

CONSTANTS c1

MCCancellers == {c1}
MCCost == {1}
=============================================================================
