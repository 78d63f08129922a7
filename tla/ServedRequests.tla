---------------------------- MODULE ServedRequests ----------------------------
(***************************************************************************)
(* What startPullRequestSync promises to whoever asks for a pull request to *)
(* be synchronized: the request gets a run of its own or joins the one that *)
(* serves the others, never beside another; a run is done only when what is *)
(* shown is as new as the provider was when the last of them asked; and     *)
(* what is shown never goes back.  A run may be given up, by its failure or *)
(* by a cancel request, which also takes one that has served.  No run is    *)
(* taken up again.  PullRequestSync implements this.                        *)
(***************************************************************************)
EXTENDS Naturals

CONSTANT Runs  \* runs that may ever exist

VARIABLES
  provider,  \* the provider's revision
  shown,     \* the newest revision that is shown
  run,       \* what has become of each run
  asked      \* the provider's revision when somebody asked a run last

vars == <<provider, shown, run, asked>>

Init == /\ provider \in Nat
        /\ shown = 0
        /\ run = [r \in Runs |-> "none"]
        /\ asked = [r \in Runs |-> 0]

Moves == /\ provider' \in Nat
         /\ provider' > provider
         /\ UNCHANGED <<shown, run, asked>>

\* A newer revision is shown, also by a run that was given up.
Shows == /\ shown' \in shown..provider
         /\ UNCHANGED <<provider, run, asked>>

Serving == {r \in Runs : run[r] = "serving"}

\* Somebody asks: the run that serves is joined, or one begins.
Asks(r) == /\ \/ run[r] = "serving"
              \/ run[r] = "none" /\ Serving = {}
           /\ run' = [run EXCEPT ![r] = "serving"]
           /\ asked' = [asked EXCEPT ![r] = provider]
           /\ UNCHANGED <<provider, shown>>

\* Everybody who has asked is shown what there was.
Serves(r) == /\ run[r] = "serving"
             /\ asked[r] <= shown
             /\ run' = [run EXCEPT ![r] = "served"]
             /\ UNCHANGED <<provider, shown, asked>>

GivesUp(r) == /\ run[r] # "none"
              /\ run' = [run EXCEPT ![r] = "given up"]
              /\ UNCHANGED <<provider, shown, asked>>

Next == Moves \/ Shows \/ \E r \in Runs : Asks(r) \/ Serves(r) \/ GivesUp(r)

Spec == Init /\ [][Next]_vars
=============================================================================
