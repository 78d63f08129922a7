--------------------------- MODULE PullRequestSync ---------------------------
(***************************************************************************)
(* Synchronizing one pull request: requests that create a run or join the   *)
(* active one (startPullRequestSync), the durable step that drains them in  *)
(* passes (workflows/sync-pull-request.ts), each pass publishing a snapshot *)
(* of the provider's revision (sync/service.ts), while commits are pushed,  *)
(* runs are cancelled (routers/review.ts) and the periodic refresh writes   *)
(* the same pull request row (providers/pull-request-state.ts).             *)
(*                                                                         *)
(* A revision (head and base) is a number that grows with every push.  How  *)
(* a run is started and linked is WorkflowStart's subject: here a start     *)
(* succeeds or fails.  The mirror of a run's status in workflowRuns, its    *)
(* progress and its metrics steer nothing and are left out; so is the       *)
(* retention of older snapshots, which never takes the newest.              *)
(***************************************************************************)
EXTENDS Naturals, FiniteSetsExt

CONSTANTS
  MaxRevisions,  \* bound: revisions that the provider ever has
  MaxSyncs,      \* bound: rows of syncRuns
  MaxRequests,   \* bound: requests of users and webhooks
  MaxFaults,     \* bound: deaths and provider errors inside steps
  CancelledSyncs,  \* bound: runs that somebody may cancel
  MAX_ATTEMPTS,  \* executions of a step before the runtime gives up
  MAX_PASSES     \* passes of one execution of the step

ASSUME PullRequestSyncAssumption ==
  /\ MaxRevisions \in Nat \ {0}
  /\ MaxSyncs \in Nat \ {0}
  /\ MaxRequests \in Nat
  /\ MaxFaults \in Nat
  /\ CancelledSyncs \subseteq 1..MaxSyncs
  /\ MAX_ATTEMPTS \in Nat \ {0}
  /\ MAX_PASSES \in Nat \ {0}

Syncs == 1..MaxSyncs
Revision == 1..MaxRevisions
None == 0
Maybe == Revision \union {None}

VARIABLES
  remote,    \* the provider's revision of the pull request
  row,       \* the revision in the row of pullRequests
  snapshot,  \* the newest row of reviewSnapshots
  sync,      \* the rows of syncRuns
  worker,    \* the durable step of each run, with its local values
  cancel,    \* the cancel request of each run
  refresh,   \* the pass of refreshRepositoryPullRequestStates
  requests,  \* requests spent of MaxRequests
  faults     \* faults spent of MaxFaults

vars == <<remote, row, snapshot, sync, worker, cancel, refresh, requests, faults>>

Active == {"queued", "running"}
SyncStatus == {"absent", "completed", "failed", "cancelled"} \union Active

\* files: the revision that the snapshot's sources were downloaded at.
Snapshot == [version: Nat, revision: Maybe, files: Maybe]

Sync == [status: SyncStatus,
         requestVersion: Nat,  \* one more for each request that has joined
         asked: Maybe,         \* history: the provider's revision at the last request
         queued: Nat,          \* requests whose queue item has been assigned
         result: Maybe]        \* the revision of resultSnapshotId

Worker == [pc: {"none", "start", "begin", "mark", "observe", "load", "confirm",
                "publish", "latest", "passed", "queue",
                "complete", "return", "failing", "ended"},
           attempt: 1..MAX_ATTEMPTS,
           killed: BOOLEAN,            \* the provider run is cancelled
           requestVersion: Nat,        \* captured
           pass: 1..MAX_PASSES,
           observed: Maybe,            \* observedPullRequest
           loaded: BOOLEAN,            \* preexistingSnapshot has been read
           base: Nat,                  \* its version
           baseRevision: Maybe,
           fetched: Maybe,             \* remote
           files: Maybe,
           result: Maybe]

TypeOK ==
  /\ remote \in Revision
  /\ row \in Maybe
  /\ snapshot \in Snapshot
  /\ sync \in [Syncs -> Sync]
  /\ worker \in [Syncs -> Worker]
  /\ cancel \in [Syncs -> {"none", "write", "returned"}]
  /\ refresh \in [pc: {"idle", "request"}, listed: Maybe,
                  tracked: Maybe]
  /\ requests \in 0..MaxRequests
  /\ faults \in 0..MaxFaults

Idle == [pc |-> "idle", listed |-> None, tracked |-> None]

\* An execution begins with nothing read.
NewExecution(pc, attempt, killed) ==
  [pc |-> pc, attempt |-> attempt, killed |-> killed, requestVersion |-> 0,
   pass |-> 1, observed |-> None, loaded |-> FALSE, base |-> 0,
   baseRevision |-> None, fetched |-> None, files |-> None, result |-> None]

\* So does a pass, which knows the captured version and its number.
NewPass(w, pc) ==
  [NewExecution(pc, w.attempt, w.killed) EXCEPT
     !.requestVersion = w.requestVersion, !.pass = w.pass]

\* A pass has its result: what it has read is not used again.
Passes(w, pc) == [NewPass(w, pc) EXCEPT !.result = w.fetched]

\* The workflow function has returned.
Ended(w) == NewExecution("ended", 1, w.killed)

Init ==
  /\ remote = 1
  /\ row = None
  /\ snapshot = [version |-> 0, revision |-> None, files |-> None]
  /\ sync = [s \in Syncs |->
               [status |-> "absent", requestVersion |-> 0, asked |-> None,
                queued |-> 0, result |-> None]]
  /\ worker = [s \in Syncs |-> NewExecution("none", 1, FALSE)]
  /\ cancel = [s \in Syncs |-> "none"]
  /\ refresh = Idle
  /\ requests = 0 /\ faults = 0

database == <<row, snapshot, sync>>
others == <<cancel, refresh, requests>>

ActiveSyncs == {s \in Syncs : sync[s].status \in Active}
Ends(s) == worker' = [worker EXCEPT ![s] = Ended(@)]
Goto(s, pc) == worker' = [worker EXCEPT ![s].pc = pc]

-----------------------------------------------------------------------------
(* The provider and the requests.                                          *)

Push ==
  /\ remote < MaxRevisions
  /\ remote' = remote + 1
  /\ UNCHANGED <<database, worker, others, faults>>

\* The reservation of startPullRequestSync, one transaction: join the newest
\* active run, or insert one.
JoinsOrInserts ==
  IF ActiveSyncs # {}
    THEN LET s == Max(ActiveSyncs)
         IN  /\ sync' = [sync EXCEPT ![s].requestVersion = @ + 1,
                                     ![s].asked = remote]
             /\ UNCHANGED worker
    ELSE \E s \in Syncs :
           /\ sync[s].status = "absent"
           /\ \A t \in 1..(s - 1) : sync[t].status # "absent"
           /\ sync' = [sync EXCEPT ![s].status = "queued",
                                   ![s].requestVersion = 1, ![s].asked = remote]
           /\ Goto(s, "start")

Request ==
  /\ requests < MaxRequests
  /\ requests' = requests + 1
  /\ JoinsOrInserts
  /\ UNCHANGED <<remote, row, snapshot, cancel, refresh, faults>>

-----------------------------------------------------------------------------
(* The step of a run.                                                      *)

\* An execution of the step fails: the runtime executes it again, unless the run
\* is cancelled or has used up its attempts.
Thrown(w) ==
  IF w.killed THEN Ended(w)
  ELSE IF w.attempt = MAX_ATTEMPTS THEN NewPass(w, "failing")
  ELSE NewExecution("begin", w.attempt + 1, w.killed)
Throws(s) == worker' = [worker EXCEPT ![s] = Thrown(@)]

\* The workflow function begins, and the step for the first time ...
Starts(s) ==
  /\ worker[s].pc = "start"
  /\ Goto(s, "begin")
  /\ UNCHANGED <<remote, database, others, faults>>

\* ... or the start throws, and the request compensates.
StartThrows(s) ==
  /\ worker[s].pc = "start"
  /\ faults < MaxFaults
  /\ faults' = faults + 1
  /\ sync' = [sync EXCEPT ![s].status = IF @ = "queued" THEN "failed" ELSE @]
  /\ Ends(s)
  /\ UNCHANGED <<remote, row, snapshot, others>>

\* The step reads its run.  A terminal one is not executed again.
Begins(s) ==
  /\ worker[s].pc = "begin" /\ ~worker[s].killed
  /\ IF sync[s].status \in Active
       THEN worker' = [worker EXCEPT
              ![s].pc = "mark", ![s].requestVersion = sync[s].requestVersion]
       ELSE Ends(s)
  /\ UNCHANGED <<remote, database, others, faults>>

\* The run is marked running, unless it was cancelled since it was read.
MarksRunning(s) ==
  /\ worker[s].pc = "mark"
  /\ IF sync[s].status \in Active
       THEN /\ sync' = [sync EXCEPT ![s].status = "running"]
            /\ Goto(s, "observe")
       ELSE UNCHANGED sync /\ Ends(s)
  /\ UNCHANGED <<remote, row, snapshot, others, faults>>

ObservesRow(s) ==
  /\ worker[s].pc = "observe"
  /\ worker' = [worker EXCEPT ![s].pc = "load", ![s].observed = row]
  /\ UNCHANGED <<remote, database, others, faults>>

\* The newest snapshot and the provider's revision are read at the same time, in
\* either order.
LoadsSnapshot(s) ==
  /\ worker[s].pc = "load" /\ ~worker[s].loaded
  /\ worker' = [worker EXCEPT ![s].loaded = TRUE,
       ![s].base = IF worker[s].observed = None THEN 0 ELSE snapshot.version,
       ![s].baseRevision = IF worker[s].observed = None THEN None
                           ELSE snapshot.revision]
  /\ UNCHANGED <<remote, database, others, faults>>

FetchesRevision(s) ==
  /\ worker[s].pc = "load" /\ worker[s].fetched = None
  /\ worker' = [worker EXCEPT ![s].fetched = remote]
  /\ UNCHANGED <<remote, database, others, faults>>

\* Both are read.
Loaded(w) == w.pc = "load" /\ w.loaded /\ w.fetched # None

\* A snapshot of the fetched revision may be reused: its sources may still be there,
\* its analysis be current and its age within the retention.
Reusable(w) == Loaded(w) /\ w.base > 0 /\ w.baseRevision = w.fetched

\* The metadata is written only to a row that has the fetched revision.
Reuses(s) ==
  /\ Reusable(worker[s])
  /\ IF row = worker[s].fetched
       THEN worker' = [worker EXCEPT ![s] = Passes(@, "passed")]
       ELSE Throws(s)
  /\ UNCHANGED <<remote, database, others, faults>>

\* Else the files are downloaded.
DownloadsFiles(s) ==
  /\ Loaded(worker[s])
  /\ worker' = [worker EXCEPT ![s].pc = "confirm", ![s].files = remote]
  /\ UNCHANGED <<remote, database, others, faults>>

\* Mutant: the revision is not confirmed behind the download.
ConfirmsNothing(s) ==
  /\ worker[s].pc = "confirm"
  /\ Goto(s, "publish")
  /\ UNCHANGED <<remote, database, others, faults>>

\* The provider must still have the revision that was fetched.
ConfirmsRevision(s) ==
  /\ worker[s].pc = "confirm"
  /\ IF remote = worker[s].fetched THEN Goto(s, "publish") ELSE Throws(s)
  /\ UNCHANGED <<remote, database, others, faults>>

\* What the transaction asks: the row moved at most to the fetched revision, and
\* nobody has published since the newest snapshot was read.
MayPublish(w) == row \in {w.observed, w.fetched} /\ snapshot.version = w.base

\* The publication, one transaction under the pull request's lock.
Publishes(s) ==
  LET w == worker[s] IN
  /\ w.pc = "publish"
  /\ IF MayPublish(w)
       THEN /\ row' = w.fetched
            /\ snapshot' = [version |-> snapshot.version + 1,
                            revision |-> w.fetched, files |-> w.files]
            /\ worker' = [worker EXCEPT ![s] = Passes(@, "latest")]
       ELSE Throws(s) /\ UNCHANGED <<row, snapshot>>
  /\ UNCHANGED <<remote, sync, others, faults>>

\* confirmLatest: a push during the analysis fails the execution.
ConfirmsLatest(s) ==
  /\ worker[s].pc = "latest"
  /\ IF remote = worker[s].result THEN Goto(s, "passed") ELSE Throws(s)
  /\ UNCHANGED <<remote, database, others, faults>>

\* Mutant: passes go on as long as requests arrive.
EndsPassUncut(s) ==
  LET w == worker[s] IN
  /\ w.pc = "passed"
  /\ worker' = [worker EXCEPT ![s] =
       IF sync[s].requestVersion = w.requestVersion
         THEN [w EXCEPT !.pc = "queue"]
         ELSE [NewPass(w, "observe") EXCEPT
                 !.pass = @ + 1, !.requestVersion = sync[s].requestVersion]]
  /\ UNCHANGED <<remote, database, others, faults>>

\* A request that joined meanwhile asks for another pass; the last pass gives up.
EndsPass(s) ==
  LET w == worker[s] IN
  /\ w.pc = "passed"
  /\ CASE sync[s].requestVersion = w.requestVersion -> Goto(s, "queue")
       [] sync[s].requestVersion # w.requestVersion /\ w.pass = MAX_PASSES ->
            Throws(s)
       [] OTHER ->
            worker' = [worker EXCEPT ![s] =
              [NewPass(w, "observe") EXCEPT
                 !.pass = @ + 1, !.requestVersion = sync[s].requestVersion]]
  /\ UNCHANGED <<remote, database, others, faults>>

\* The requesters are read, and the pull request joins their queues.
AssignsQueues(s) ==
  /\ worker[s].pc = "queue"
  /\ sync' = [sync EXCEPT ![s].queued = sync[s].requestVersion]
  /\ Goto(s, "complete")
  /\ UNCHANGED <<remote, row, snapshot, others, faults>>

\* Mutant: the completion does not ask for the captured version.
MayCompleteAnyVersion(s) == sync[s].status = "running"

\* The WHERE of the completion.
MayComplete(s) == /\ sync[s].status = "running"
                  /\ sync[s].requestVersion = worker[s].requestVersion

Completes(s) ==
  /\ worker[s].pc = "complete"
  /\ IF MayComplete(s)
       THEN /\ sync' = [sync EXCEPT ![s].status = "completed",
                                    ![s].result = worker[s].result]
            /\ Goto(s, "return")
       ELSE Throws(s) /\ UNCHANGED sync
  /\ UNCHANGED <<remote, row, snapshot, others, faults>>

Returns(s) ==
  /\ worker[s].pc = "return"
  /\ Ends(s)
  /\ UNCHANGED <<remote, database, others, faults>>

\* A provider or database error, or the death of the worker.
StepFails(s) ==
  /\ worker[s].pc \notin {"none", "start", "begin", "failing", "ended"}
  /\ faults < MaxFaults
  /\ faults' = faults + 1
  /\ Throws(s)
  /\ UNCHANGED <<remote, database, others>>

\* Mutant: only a queued run is recorded as failed.
RecordsFailureOfQueued(s) ==
  /\ worker[s].pc = "failing"
  /\ sync' = [sync EXCEPT ![s].status = IF @ = "queued" THEN "failed" ELSE @]
  /\ Ends(s)
  /\ UNCHANGED <<remote, row, snapshot, others, faults>>

\* The workflow function catches an exhausted step: an active run has failed.
RecordsFailure(s) ==
  /\ worker[s].pc = "failing"
  /\ sync' = [sync EXCEPT ![s].status = IF @ \in Active THEN "failed" ELSE @]
  /\ Ends(s)
  /\ UNCHANGED <<remote, row, snapshot, others, faults>>

\* A cancelled provider run gets no further step.
IsStopped(s) ==
  /\ worker[s].killed
  /\ worker[s].pc \in {"begin", "failing"}
  /\ Ends(s)
  /\ UNCHANGED <<remote, database, others, faults>>

-----------------------------------------------------------------------------
(* cancelSync: the provider run first, then the row whatever its status.   *)

CancelKills(s) ==
  /\ cancel[s] = "none" /\ s \in CancelledSyncs
  /\ worker[s].pc \notin {"none", "start"}
  /\ worker' = [worker EXCEPT ![s].killed = TRUE]
  /\ cancel' = [cancel EXCEPT ![s] = "write"]
  /\ UNCHANGED <<remote, database, refresh, requests, faults>>

CancelWrites(s) ==
  /\ cancel[s] = "write"
  /\ sync' = [sync EXCEPT ![s].status = "cancelled"]
  /\ cancel' = [cancel EXCEPT ![s] = "returned"]
  /\ UNCHANGED <<remote, row, snapshot, worker, refresh, requests, faults>>

-----------------------------------------------------------------------------
(* The periodic refresh of the pull request's row.                         *)

\* The provider's list and the tracked rows are read at the same time.
RefreshLists ==
  /\ refresh.pc = "idle" /\ refresh.listed = None /\ row # None
  /\ refresh' = [refresh EXCEPT !.listed = remote]
  /\ UNCHANGED <<remote, database, worker, cancel, requests, faults>>

RefreshTracks ==
  /\ refresh.pc = "idle" /\ refresh.tracked = None /\ row # None
  /\ refresh' = [refresh EXCEPT !.tracked = row]
  /\ UNCHANGED <<remote, database, worker, cancel, requests, faults>>

\* A row that differs, in its revision or in any other column, is written with all
\* columns.  One whose revision differs is to be synchronized.
RefreshWrites ==
  /\ refresh.pc = "idle" /\ refresh.listed # None /\ refresh.tracked # None
  /\ \/ row' = refresh.listed
     \/ refresh.listed = refresh.tracked /\ UNCHANGED <<row>>
  /\ refresh' = IF refresh.listed = refresh.tracked THEN Idle
                ELSE [Idle EXCEPT !.pc = "request"]
  /\ UNCHANGED <<remote, snapshot, sync, worker, cancel, requests, faults>>

RefreshRequests ==
  /\ refresh.pc = "request"
  /\ JoinsOrInserts
  /\ refresh' = Idle
  /\ UNCHANGED <<remote, row, snapshot, cancel, requests, faults>>

\* The refresh dies between the row and the synchronization it owes.
RefreshDies ==
  /\ refresh.pc = "request"
  /\ faults < MaxFaults
  /\ faults' = faults + 1
  /\ refresh' = Idle
  /\ UNCHANGED <<remote, database, worker, cancel, requests>>

-----------------------------------------------------------------------------
StepNext(s) ==
  \/ Starts(s) \/ Begins(s) \/ MarksRunning(s) \/ ObservesRow(s)
  \/ LoadsSnapshot(s) \/ FetchesRevision(s) \/ Reuses(s)
  \/ DownloadsFiles(s) \/ ConfirmsRevision(s) \/ Publishes(s)
  \/ ConfirmsLatest(s) \/ EndsPass(s) \/ AssignsQueues(s) \/ Completes(s)
  \/ Returns(s) \/ RecordsFailure(s) \/ IsStopped(s)

RefreshNext ==
  \/ RefreshLists \/ RefreshTracks \/ RefreshWrites
  \/ RefreshRequests \/ RefreshDies

Next ==
  \/ Push \/ Request \/ RefreshNext
  \/ \E s \in Syncs : \/ StepNext(s) \/ StartThrows(s) \/ StepFails(s)
                      \/ CancelKills(s) \/ CancelWrites(s)

Spec == Init /\ [][Next]_vars

\* The runtime executes the steps of a run, and a cancel request that has begun
\* goes on.  Nobody has to push, to request, to refresh or to cancel.
Fairness ==
  \A s \in Syncs : WF_vars(StepNext(s)) /\ WF_vars(CancelWrites(s))

FairSpec == Spec /\ Fairness

-----------------------------------------------------------------------------
(* Properties                                                              *)

\* A pull request has at most one active run, also when requests, cancellations
\* and steps in flight of cancelled runs interleave.
OneActiveSync == Cardinality(ActiveSyncs) <= 1

\* No request is lost in a completed run.  Its result is at least as new as the
\* provider was when the last request joined it, and it has assigned the queue item
\* of everybody who joined.
CompletedServesEveryRequest ==
  \A s \in Syncs :
    sync[s].status = "completed" => /\ sync[s].result >= sync[s].asked
                                    /\ sync[s].queued = sync[s].requestVersion

\* Every request therefore has its one run: the only active one, or a completed
\* one that has served it.
OneRunServesEveryRequest == OneActiveSync /\ CompletedServesEveryRequest

\* A published snapshot never shows the files of one revision as another, and the
\* newest one never goes back to an older revision, although a cancelled run may
\* still publish beside its successor.
SnapshotsAreRevisions ==
  [][/\ snapshot'.files = snapshot'.revision
     /\ snapshot'.revision >= snapshot.revision]_vars

\* The abstract specification, which looks at rows only: whoever asks has one run, and
\* a run completes only when the newest snapshot is as new as what its requests asked
\* for, whichever run has published it.
Stage(status) == CASE status = "absent" -> "none"
                   [] status \in Active -> "serving"
                   [] status = "completed" -> "served"
                   [] OTHER -> "given up"
Service == INSTANCE ServedRequests WITH
             Runs <- Syncs, provider <- remote, shown <- snapshot.revision,
             run <- [s \in Syncs |-> Stage(sync[s].status)],
             asked <- [s \in Syncs |-> sync[s].asked]
ImplementsServedRequests == Service!Spec

\* What is shown is what was asked for: a real revision, published by whichever run,
\* as new as the requests of the run that completes with it.
WhatIsShownServes == SnapshotsAreRevisions /\ ImplementsServedRequests

\* Every run ends: completed, failed or cancelled.
SynchronizationEnds ==
  \A s \in Syncs : sync[s].status \in Active ~> sync[s].status \notin Active
=============================================================================
