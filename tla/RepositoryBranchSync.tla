------------------------- MODULE RepositoryBranchSync -------------------------
(***************************************************************************)
(* A monitored branch of a repository: the passes that compare the branch     *)
(* with its monitor (repo-reviews/reconcile.ts), the requests and the durable  *)
(* step of a synchronization (workflows/repository-branch-sync.ts), which    *)
(* takes a snapshot of the whole tree (repo-reviews/sync.ts), and a reviewer  *)
(* who signs a unit off meanwhile (review/sign-off.ts).                     *)
(*                                                                         *)
(* The head of the branch is a number that grows with every push.  How a run  *)
(* is started and linked is WorkflowStart's subject: here a start succeeds,   *)
(* fails, or is abandoned by a starter that dies.  Files, their budget and    *)
(* their analysis are data of one step; so is progress.  Pushes leave the     *)
(* unit that is signed off unchanged.                                       *)
(***************************************************************************)
EXTENDS Naturals

CONSTANTS
  Runs,          \* bound: rows of repositoryBranchSyncRuns that still matter
  None,          \* no snapshot, no head, no run
  MAX_ATTEMPTS,  \* executions of the step before the runtime gives up
  MaxHeads,      \* bound: heads that the branch ever has
  MaxForced,     \* bound: synchronizations that the user asks for
  MaxFaults      \* bound: provider errors and deaths

ASSUME RepositoryBranchSyncAssumption ==
  /\ None \notin Runs /\ None \notin Nat
  /\ MAX_ATTEMPTS \in Nat \ {0} /\ MaxHeads \in Nat \ {0}
  /\ MaxForced \in Nat /\ MaxFaults \in Nat

VARIABLES
  remote,    \* the provider's head of the branch
  monitor,   \* the row of repositoryBranchMonitors
  snapshot,  \* the newest row of reviewSnapshots
  run,       \* the rows of repositoryBranchSyncRuns
  newer,     \* createdAt: the pairs of runs of which the first was created later
  worker,    \* the workflow of each run, with its local values
  pass,      \* reconcileRepositoryBranchMonitors
  signed,    \* history: the reviewer has signed off and not taken it back
  forced, faults  \* spent of their bounds

vars == <<remote, monitor, snapshot, run, newer, worker, pass, signed, forced, faults>>

Heads == 1..MaxHeads
Maybe == Heads \union {None}
Active == {"queued", "running"}

\* due: lastCheckedAt is null or five minutes old; error: lastError.
Monitor == [head: Maybe, due: BOOLEAN, error: BOOLEAN]

\* outdated: analysisVersion is that of an older deployment; signed: an active
\* sign-off stands on the unit.  Version 0 stands for no snapshot at all.
Snapshot == [version: Nat, head: Maybe, base: Maybe, outdated: BOOLEAN,
             signed: BOOLEAN]

Run == [status: {"none", "completed", "failed"} \union Active, force: BOOLEAN]

\* resting: no workflow; starting, abandoned: the start of the workflow is in the
\* hands of a request, or of one that has died.
InStep == {"begin", "load", "fetch", "confirm", "signOffs", "publish",
           "complete", "catch", "tell"}
Worker == [pc: {"resting", "starting", "abandoned", "exhausted"} \union InStep,
           attempt: 1..MAX_ATTEMPTS,
           known: Maybe,                       \* scope.monitor.currentHeadSha
           base: Snapshot \union {None},       \* previousSnapshot
           fetched: Maybe,                     \* branch.sha
           signed: BOOLEAN]                    \* priorSignOffs

TypeOK ==
  /\ remote \in Heads
  /\ monitor \in Monitor
  /\ snapshot \in Snapshot
  /\ run \in [Runs -> Run]
  /\ newer \subseteq Runs \X Runs
  /\ worker \in [Runs -> Worker]
  /\ pass \in [pc: {"idle", "check", "request", "start"}, known: Maybe,
               run: Runs \union {None}]
  /\ signed \in BOOLEAN
  /\ forced \in 0..MaxForced /\ faults \in 0..MaxFaults

Resting == [pc |-> "resting", attempt |-> 1, known |-> None, base |-> None,
            fetched |-> None, signed |-> FALSE]
IdlePass == [pc |-> "idle", known |-> None, run |-> None]
NoSnapshot == [version |-> 0, head |-> None, base |-> None, outdated |-> FALSE,
               signed |-> FALSE]

\* A monitor that was just added, or one with a snapshot of this deployment's
\* analysis or of an older one.
Init ==
  /\ remote = 1
  /\ \/ snapshot = NoSnapshot
     \/ \E outdated \in BOOLEAN :
          snapshot = [version |-> 1, head |-> 1, base |-> 1,
                      outdated |-> outdated, signed |-> FALSE]
  /\ monitor = [head |-> snapshot.head, due |-> TRUE, error |-> FALSE]
  /\ run = [r \in Runs |-> [status |-> "none", force |-> FALSE]]
  /\ newer = {}
  /\ worker = [r \in Runs |-> Resting]
  /\ pass = IdlePass
  /\ signed = FALSE
  /\ forced = 0 /\ faults = 0

Fault == faults < MaxFaults /\ faults' = faults + 1
Goto(r, pc) == worker' = [worker EXCEPT ![r].pc = pc]
Writes(r, status) == run' = [run EXCEPT ![r].status = status]

rows == <<monitor, snapshot>>
bounds == <<forced, faults>>
outside == <<remote, pass, signed, bounds>>

-----------------------------------------------------------------------------
(* startRepositoryBranchSync.                                              *)

\* Mutant: a failed run counts as one to join.
InFlightOrFailed(status) == status \in Active \union {"failed"}
InFlight(status) == status \in Active

ActiveRuns == {r \in Runs : InFlight(run[r].status)}
IsLatestActive(r) == r \in ActiveRuns /\ \A q \in ActiveRuns \ {r} : <<r, q>> \in newer

\* Whoever finds an active run without a workflow takes its start over, since
\* the lease of a dead starter is over long before the next request.
Joins(r) ==
  /\ worker' = IF worker[r].pc = "abandoned"
                 THEN [worker EXCEPT ![r].pc = "starting"] ELSE worker
  /\ UNCHANGED <<run, newer>>

\* A row whose workflow is over serves as the new one, so that runs need no bound.
Inserts(r, force) ==
  /\ worker[r].pc = "resting"
  /\ run' = [run EXCEPT ![r] = [status |-> "queued", force |-> force]]
  /\ newer' = {pair \in newer : r \notin {pair[1], pair[2]}}
                \union ({r} \X {q \in Runs \ {r} : run[q].status # "none"})
  /\ worker' = [worker EXCEPT ![r] = [Resting EXCEPT !.pc = "starting"]]

Requests(r, force) ==
  IF ActiveRuns # {} THEN IsLatestActive(r) /\ Joins(r) ELSE Inserts(r, force)

\* The procedures sync and add of the router, which force.
UserRequests ==
  /\ forced < MaxForced
  /\ forced' = forced + 1
  /\ \E r \in Runs : Requests(r, TRUE)
  /\ UNCHANGED <<remote, rows, pass, signed, faults>>

\* The pass that waits for this start is told, or catches what it threw.
PassIsTold(r) == pass' = IF pass.run = r THEN IdlePass ELSE pass

Starts(r) ==
  /\ worker[r].pc = "starting"
  /\ Goto(r, "begin")
  /\ PassIsTold(r)
  /\ UNCHANGED <<remote, rows, run, newer, signed, bounds>>

StartThrows(r) ==
  /\ worker[r].pc = "starting"
  /\ Fault
  /\ run' = [run EXCEPT ![r].status = IF @ = "queued" THEN "failed" ELSE @]
  /\ worker' = [worker EXCEPT ![r] = Resting]
  /\ monitor' = IF pass.run = r THEN [monitor EXCEPT !.due = FALSE, !.error = TRUE]
                ELSE monitor
  /\ PassIsTold(r)
  /\ UNCHANGED <<remote, snapshot, newer, signed, forced>>

StarterDies(r) ==
  /\ worker[r].pc = "starting"
  /\ Fault
  /\ Goto(r, "abandoned")
  /\ PassIsTold(r)
  /\ UNCHANGED <<remote, rows, run, newer, signed, forced>>

-----------------------------------------------------------------------------
(* The durable step (executeRepositoryBranchSync, syncRepositoryBranch).   *)

\* The status is written whatever it has become, and the monitor is read.
Begins(r) ==
  /\ worker[r].pc = "begin"
  /\ Writes(r, "running")
  /\ worker' = [worker EXCEPT ![r].pc = "load", ![r].known = monitor.head]
  /\ UNCHANGED <<outside, rows, newer>>

ReadsSnapshot(r) ==
  /\ worker[r].pc = "load"
  /\ worker' = [worker EXCEPT ![r].pc = "fetch", ![r].base = snapshot]
  /\ UNCHANGED <<outside, rows, run, newer>>

IsUnchanged(r) ==
  /\ ~run[r].force
  /\ worker[r].base.head = remote
  /\ ~worker[r].base.outdated

\* getBranch.
FetchesHead(r) ==
  /\ worker[r].pc = "fetch"
  /\ \/ /\ IsUnchanged(r)
        /\ monitor' = [monitor EXCEPT !.due = FALSE, !.error = FALSE]
        /\ Goto(r, "complete")
     \/ /\ ~IsUnchanged(r)
        /\ worker' = [worker EXCEPT ![r].pc = "confirm", ![r].fetched = remote]
        /\ UNCHANGED monitor
  /\ UNCHANGED <<outside, snapshot, run, newer>>

\* getBranch again, behind the download of the tree.
ConfirmsHead(r) ==
  /\ worker[r].pc = "confirm"
  /\ Goto(r, IF worker[r].fetched = remote THEN "signOffs" ELSE "catch")
  /\ UNCHANGED <<outside, rows, run, newer>>

\* The sign-offs of the previous snapshot are read outside the transaction.
ReadsSignOffs(r) ==
  /\ worker[r].pc = "signOffs"
  /\ worker' = [worker EXCEPT
       ![r].pc = "publish",
       ![r].signed = worker[r].base.version = snapshot.version /\ snapshot.signed]
  /\ UNCHANGED <<outside, rows, run, newer>>

MonitorMoved(r) ==
  monitor.head \notin {None, worker[r].known, worker[r].fetched}

\* Mutant: only the monitor's head is compared.
NeverReplaced(r) == FALSE
SnapshotReplaced(r) == snapshot.version # worker[r].base.version

\* The publishing transaction, under the lock "repository-branch:<monitor>".
Publishes(r) ==
  LET w == worker[r] IN
  /\ w.pc = "publish"
  /\ \/ /\ MonitorMoved(r)
        /\ Goto(r, "catch")
        /\ UNCHANGED rows
     \/ /\ ~MonitorMoved(r) /\ ~run[r].force /\ snapshot.head = w.fetched
        /\ Goto(r, "complete")
        /\ UNCHANGED rows
     \/ /\ ~MonitorMoved(r) /\ (run[r].force \/ snapshot.head # w.fetched)
        /\ SnapshotReplaced(r)
        /\ Goto(r, "catch")
        /\ UNCHANGED rows
     \/ /\ ~MonitorMoved(r) /\ (run[r].force \/ snapshot.head # w.fetched)
        /\ ~SnapshotReplaced(r)
        /\ snapshot' = [version |-> snapshot.version + 1, head |-> w.fetched,
                        base |-> IF w.base.head = None THEN w.fetched ELSE w.base.head,
                        outdated |-> FALSE, signed |-> w.signed]
        /\ monitor' = [head |-> w.fetched, due |-> FALSE, error |-> FALSE]
        /\ Goto(r, "complete")
  /\ UNCHANGED <<outside, run, newer>>

\* The step returns, and with it the workflow.
Completes(r) ==
  /\ worker[r].pc = "complete"
  /\ Writes(r, "completed")
  /\ worker' = [worker EXCEPT ![r] = Resting]
  /\ UNCHANGED <<outside, rows, newer>>

StepThrows(r) ==
  /\ worker[r].pc \in InStep \ {"catch", "tell"}
  /\ Fault
  /\ Goto(r, "catch")
  /\ UNCHANGED <<remote, rows, run, newer, pass, signed, forced>>

\* The catch block writes the run as failed although the runtime will execute the
\* step again, ...
CatchesRun(r) ==
  /\ worker[r].pc = "catch"
  /\ Writes(r, "failed")
  /\ Goto(r, "tell")
  /\ UNCHANGED <<outside, rows, newer>>

\* Mutant: the attempts are not cut at MAX_ATTEMPTS.
NextAttemptUncut(w) == [Resting EXCEPT !.pc = "begin", !.attempt = w.attempt + 1]
NextAttempt(w) ==
  [Resting EXCEPT
     !.pc = IF w.attempt < MAX_ATTEMPTS THEN "begin" ELSE "exhausted",
     !.attempt = IF w.attempt < MAX_ATTEMPTS THEN w.attempt + 1 ELSE w.attempt]

\* ... then the monitor.
CatchTellsMonitor(r) ==
  /\ worker[r].pc = "tell"
  /\ monitor' = [monitor EXCEPT !.due = FALSE, !.error = TRUE]
  /\ worker' = [worker EXCEPT ![r] = NextAttempt(@)]
  /\ UNCHANGED <<outside, snapshot, run, newer>>

WorkerDies(r) ==
  /\ worker[r].pc \in InStep
  /\ Fault
  /\ worker' = [worker EXCEPT ![r] = NextAttempt(@)]
  /\ UNCHANGED <<remote, rows, run, newer, pass, signed, forced>>

\* The catch of the workflow function, once the runtime has given up.
RecordsTerminalFailure(r) ==
  /\ worker[r].pc = "exhausted"
  /\ \/ /\ InFlight(run[r].status)
        /\ Writes(r, "failed")
        /\ monitor' = [monitor EXCEPT !.due = FALSE, !.error = TRUE]
     \/ /\ ~InFlight(run[r].status)
        /\ UNCHANGED <<run, monitor>>
  /\ worker' = [worker EXCEPT ![r] = Resting]
  /\ UNCHANGED <<outside, snapshot, newer>>

-----------------------------------------------------------------------------
(* The pass over the monitors, and what happens around.                    *)

PassReads ==
  /\ pass.pc = "idle" /\ monitor.due
  /\ pass' = [pc |-> "check", known |-> monitor.head, run |-> None]
  /\ UNCHANGED <<remote, rows, run, newer, worker, signed, bounds>>

\* getBranch has answered; the head that was read with the row is compared.
PassChecks ==
  /\ pass.pc = "check"
  /\ monitor' = [monitor EXCEPT !.due = FALSE, !.error = FALSE]
  /\ pass' = IF remote = pass.known THEN IdlePass ELSE [pass EXCEPT !.pc = "request"]
  /\ UNCHANGED <<remote, snapshot, run, newer, worker, signed, bounds>>

PassRequests ==
  /\ pass.pc = "request"
  /\ \E r \in Runs :
       /\ Requests(r, FALSE)
       /\ pass' = IF worker'[r].pc = "starting" /\ worker[r].pc # "starting"
                    THEN [pass EXCEPT !.pc = "start", !.run = r] ELSE IdlePass
  /\ UNCHANGED <<remote, rows, signed, bounds>>

PassFails ==
  /\ pass.pc = "check"
  /\ Fault
  /\ monitor' = [monitor EXCEPT !.due = FALSE, !.error = TRUE]
  /\ pass' = IdlePass
  /\ UNCHANGED <<remote, snapshot, run, newer, worker, signed, forced>>

\* The process dies, or the deadline of the maintenance run is over.
PassEndsEarly ==
  /\ pass.pc \in {"check", "request"}
  /\ Fault
  /\ pass' = IdlePass
  /\ UNCHANGED <<remote, rows, run, newer, worker, signed, forced>>

Push ==
  /\ remote < MaxHeads
  /\ remote' = remote + 1
  /\ UNCHANGED <<rows, run, newer, worker, pass, signed, bounds>>

\* Five minutes have passed.
BecomesDue ==
  /\ ~monitor.due
  /\ monitor' = [monitor EXCEPT !.due = TRUE]
  /\ UNCHANGED <<remote, snapshot, run, newer, worker, pass, signed, bounds>>

\* persistSignOffs resolves the unit in the newest snapshot.
SignsOff ==
  /\ snapshot.version > 0 /\ ~signed
  /\ snapshot' = [snapshot EXCEPT !.signed = TRUE]
  /\ signed' = TRUE
  /\ UNCHANGED <<remote, monitor, run, newer, worker, pass, bounds>>

StepNext(r) ==
  \/ Starts(r) \/ Begins(r) \/ ReadsSnapshot(r) \/ FetchesHead(r) \/ ConfirmsHead(r)
  \/ ReadsSignOffs(r) \/ Publishes(r) \/ Completes(r) \/ CatchesRun(r)
  \/ CatchTellsMonitor(r) \/ RecordsTerminalFailure(r)

PassNext == PassReads \/ PassChecks \/ PassRequests

Next ==
  \/ UserRequests \/ Push \/ BecomesDue \/ SignsOff
  \/ PassNext \/ PassFails \/ PassEndsEarly
  \/ \E r \in Runs :
       StepNext(r) \/ StartThrows(r) \/ StarterDies(r) \/ StepThrows(r) \/ WorkerDies(r)

Spec == Init /\ [][Next]_vars

\* The runtime goes on with every run, the maintenance job runs again and again,
\* and time passes.
Fairness ==
  /\ \A r \in Runs : WF_vars(StepNext(r))
  /\ WF_vars(PassNext)
  /\ WF_vars(BecomesDue)

FairSpec == Spec /\ Fairness

-----------------------------------------------------------------------------
(* Properties                                                              *)

\* Snapshots form a chain: although two runs may work at once (a run that failed
\* is executed again beside its successor) and steps are replayed, every snapshot
\* has the head of the one before it as its base, and none goes back.
SnapshotsFormAChain ==
  [][snapshot'.version # snapshot.version
       => /\ snapshot'.version = snapshot.version + 1
          /\ snapshot.version > 0
               => snapshot'.base = snapshot.head /\ snapshot'.head >= snapshot.head]_vars

\* Through failures, deaths and starters that leave a run behind, the monitor
\* shows the branch in the end, and no error.
MonitorCatchesUp == <>[](monitor.head = remote /\ ~monitor.error)

\* A sign-off is either carried by a publication or given on its snapshot
\* (sign-off.ts:458-459), so that it stands in the newest one.
SignOffIsCarriedOrFollows == signed => snapshot.signed
=============================================================================
