------------------------------- MODULE MCAiJob -------------------------------
(***************************************************************************)
(* A small instance of AiJob for TLC: two cancel requests, two turns, calls *)
(* of two prices and two crashes.                                           *)
(***************************************************************************)
EXTENDS AiJob

CONSTANTS c1, c2

MCCancellers == {c1, c2}
MCCost == {1, 2}
=============================================================================
