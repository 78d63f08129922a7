------------------------------ MODULE OneCharge ------------------------------
(***************************************************************************)
(* What settleAiJobQuota (ai/service.ts) promises of a job, however often   *)
(* steps are replayed and by whomever it is called: calls use tokens while  *)
(* the job lives and even after it is settled, but the month is charged     *)
(* once, for no more than was used by then, and the charge stands.  AiJob   *)
(* and DeepReview implement this.                                          *)
(***************************************************************************)
EXTENDS Naturals

VARIABLES
  used,     \* tokens that the job's model calls have used
  charged,  \* tokens that the month was charged for the job
  settled   \* quotaSettledAt is set

vars == <<used, charged, settled>>

Init == /\ used = 0
        /\ charged = 0
        /\ settled = FALSE

\* A model call is paid for.
Use == /\ used' \in Nat
       /\ used' > used
       /\ UNCHANGED <<charged, settled>>

\* The one settlement; usage that no counter has heard of is not charged.
Settle == /\ ~settled
          /\ settled' = TRUE
          /\ charged' \in 0..used
          /\ UNCHANGED used

Next == Use \/ Settle

Spec == Init /\ [][Next]_vars
=============================================================================
