--------------------------- MODULE OneRunPerTarget ---------------------------
(***************************************************************************)
(* What start-reservation.ts promises of a workflow target (an AI job, a   *)
(* pull-request synchronization, a branch synchronization): the target     *)
(* gets at most one durable run, for ever, and no other run performs       *)
(* application work on it.  WorkflowStart implements this.                 *)
(***************************************************************************)
CONSTANTS Runs,   \* provider runs that may ever exist
          NoRun   \* no run owns the target

VARIABLES owner,  \* the run the target belongs to
          worked  \* the runs that have performed application work

vars == <<owner, worked>>

Init == /\ owner = NoRun
        /\ worked = {}

\* One run is adopted, once.
Adopt(r) == /\ owner = NoRun
            /\ owner' = r
            /\ UNCHANGED worked

\* Only the adopted run works.
Work(r) == /\ owner = r
           /\ worked' = worked \union {r}
           /\ UNCHANGED owner

Next == \E r \in Runs : Adopt(r) \/ Work(r)

Spec == Init /\ [][Next]_vars
=============================================================================
