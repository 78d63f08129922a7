----------------------- MODULE PullRequestSyncProofs -----------------------
(***************************************************************************)
(* Theorems about PullRequestSync, for any number of revisions, runs,       *)
(* requests, attempts, passes and faults.  The argument: what a step has    *)
(* read is compared again before it is written.  A download is of the        *)
(* fetched revision if the provider still has that revision behind it; a     *)
(* fetched revision is newer than the newest snapshot as long as the version *)
(* has not moved; and a result answers everybody who had joined when the     *)
(* request version was captured.                                            *)
(***************************************************************************)
EXTENDS PullRequestSync, FiniteSetTheorems, TLAPS

StepPc == {"none", "start", "begin", "mark", "observe", "load", "confirm",
           "publish", "latest", "passed", "queue",
           "complete", "return", "failing", "ended"}

\* A pass that has captured the request version.
Captured == {"mark", "observe", "load", "confirm", "publish", "latest", "passed",
             "queue", "complete"}
HasResult == {"latest", "passed", "queue", "complete"}

\* A download is at least as new as the revision that was fetched before it,
\* and exactly that revision once it is confirmed.
FilesAreFetched(w) ==
  /\ w.fetched <= remote
  /\ w.pc \in {"confirm", "publish"} => w.fetched # None
  /\ w.pc = "confirm" => w.fetched <= w.files /\ w.files <= remote
  /\ w.pc = "publish" => w.files = w.fetched

\* As long as the version is the one that was read, a confirmed revision is not
\* older than the newest snapshot.
BaseIsBehind(w) ==
  /\ w.base <= snapshot.version
  /\ w.pc = "publish" /\ w.base = snapshot.version => snapshot.revision <= w.fetched

\* While nobody else has joined, what was fetched is as new as the last request.
AnswersWhoJoined(w, q) ==
  /\ w.requestVersion <= q.requestVersion
  /\ w.fetched # None => w.pc \in {"load", "confirm", "publish"}
  /\ w.pc \in Captured /\ w.requestVersion = q.requestVersion =>
       /\ w.fetched # None => q.asked <= w.fetched
       /\ w.pc \in HasResult => q.asked <= w.result
  /\ w.pc = "complete" => w.requestVersion <= q.queued

\* The row of a run goes with its workflow.
RowGoesWithStep(w, q) ==
  /\ q.status = "absent" => w.pc = "none" /\ q.requestVersion = 0
  /\ q.status = "completed" => /\ w.pc \in {"return", "begin", "failing", "ended"}
                               /\ q.asked <= q.result
                               /\ q.queued = q.requestVersion
  /\ q.asked <= remote
  /\ q.queued <= q.requestVersion

StepInv(w, q) ==
  FilesAreFetched(w) /\ BaseIsBehind(w) /\ AnswersWhoJoined(w, q) /\ RowGoesWithStep(w, q)

\* At most one run is active.
ActiveIsUnique == \A s, t \in ActiveSyncs : s = t

SnapshotIsReal ==
  snapshot.files = snapshot.revision /\ snapshot.revision <= remote

IInv == /\ TypeOK
        /\ ActiveIsUnique
        /\ SnapshotIsReal
        /\ \A s \in Syncs : StepInv(worker[s], sync[s])

-----------------------------------------------------------------------------
(* What the helpers of the step return.                                    *)

\* An execution begins with nothing read.
LEMMA NewExecutionFacts ==
  ASSUME NEW pc \in StepPc, NEW attempt \in 1..MAX_ATTEMPTS, NEW killed \in BOOLEAN
  PROVE  /\ NewExecution(pc, attempt, killed) \in Worker
         /\ NewExecution(pc, attempt, killed).pc = pc
         /\ NewExecution(pc, attempt, killed).fetched = None
         /\ NewExecution(pc, attempt, killed).base = 0 /\ NewExecution(pc, attempt, killed).baseRevision = None
         /\ NewExecution(pc, attempt, killed).requestVersion = 0
  BY PullRequestSyncAssumption DEF NewExecution, Worker, StepPc, Maybe, None

\* So does a pass, which knows the captured version.
LEMMA NewPassFacts ==
  ASSUME NEW w \in Worker, NEW pc \in StepPc
  PROVE  /\ NewPass(w, pc) \in Worker
         /\ NewPass(w, pc).pc = pc
         /\ NewPass(w, pc).fetched = None
         /\ NewPass(w, pc).base = 0 /\ NewPass(w, pc).baseRevision = None
         /\ NewPass(w, pc).requestVersion = w.requestVersion
<1> DEFINE e == NewExecution(pc, w.attempt, w.killed)
<1>1. w.attempt \in 1..MAX_ATTEMPTS /\ w.killed \in BOOLEAN
  BY DEF Worker
<1>2. e \in Worker /\ e.pc = pc /\ e.fetched = None /\ e.base = 0
      /\ e.baseRevision = None
  BY <1>1, NewExecutionFacts
<1>3. NewPass(w, pc) =
        [e EXCEPT !.requestVersion = w.requestVersion, !.pass = w.pass]
  BY DEF NewPass
<1> HIDE DEF e
<1> QED BY <1>2, <1>3 DEF Worker

\* A pass that ends keeps what it had fetched as its result.
LEMMA PassesFacts ==
  ASSUME NEW w \in Worker, NEW pc \in StepPc
  PROVE  /\ Passes(w, pc) \in Worker
         /\ Passes(w, pc).pc = pc
         /\ Passes(w, pc).fetched = None
         /\ Passes(w, pc).base = 0 /\ Passes(w, pc).baseRevision = None
         /\ Passes(w, pc).requestVersion = w.requestVersion
         /\ Passes(w, pc).result = w.fetched
  BY NewPassFacts DEF Passes, Worker

\* A workflow that has returned, or was killed, holds nothing.
LEMMA EndedFacts ==
  ASSUME NEW w \in Worker
  PROVE  /\ Ended(w) \in Worker
         /\ Ended(w).pc = "ended"
         /\ Ended(w).fetched = None
         /\ Ended(w).base = 0 /\ Ended(w).baseRevision = None
         /\ Ended(w).requestVersion = 0
<1>1. 1 \in 1..MAX_ATTEMPTS /\ w.killed \in BOOLEAN
  BY PullRequestSyncAssumption DEF Worker
<1> QED BY <1>1, NewExecutionFacts DEF Ended, StepPc

\* A failed execution leaves nothing of what it had read.
LEMMA ThrownFacts ==
  ASSUME NEW w \in Worker
  PROVE  /\ Thrown(w) \in Worker
         /\ Thrown(w).pc \in {"ended", "failing", "begin"}
         /\ Thrown(w).fetched = None
         /\ Thrown(w).base = 0 /\ Thrown(w).baseRevision = None
         /\ Thrown(w).requestVersion \in {0, w.requestVersion}
<1>1. CASE w.killed
  BY <1>1, EndedFacts DEF Thrown
<1>2. CASE ~w.killed /\ w.attempt = MAX_ATTEMPTS
  BY <1>2, NewPassFacts DEF Thrown, StepPc
<1>3. CASE ~w.killed /\ w.attempt # MAX_ATTEMPTS
  <2> DEFINE n == w.attempt + 1
  <2>1. n \in 1..MAX_ATTEMPTS
    BY <1>3, PullRequestSyncAssumption DEF Worker
  <2>2. Thrown(w) = NewExecution("begin", n, w.killed)
    BY <1>3 DEF Thrown
  <2>3. "begin" \in StepPc /\ w.killed \in BOOLEAN
    BY DEF StepPc, Worker
  <2> HIDE DEF n
  <2> QED BY <2>1, <2>2, <2>3, NewExecutionFacts
<1> QED BY <1>1, <1>2, <1>3

-----------------------------------------------------------------------------
(* Steps that change one run only.                                         *)

\* A run may become active only while no other run is.
LEMMA RunStep ==
  ASSUME IInv, NEW s \in Syncs, NEW w \in Worker, NEW q \in Sync,
         worker' = [worker EXCEPT ![s] = w],
         sync' = [sync EXCEPT ![s] = q],
         StepInv(w, q),
         q.status \in Active => \A t \in ActiveSyncs : t = s,
         UNCHANGED <<remote, row, snapshot>>,
         cancel' \in [Syncs -> {"none", "write", "returned"}],
         refresh' \in [pc: {"idle", "request"}, listed: Maybe, tracked: Maybe],
         requests' \in 0..MaxRequests,
         faults' \in 0..MaxFaults
  PROVE  IInv'
<1>1. TypeOK'
  BY DEF IInv, TypeOK
<1>2. \A t \in Syncs : /\ worker'[t] = IF t = s THEN w ELSE worker[t]
                       /\ sync'[t] = IF t = s THEN q ELSE sync[t]
  BY DEF IInv, TypeOK
<1>3. ActiveIsUnique'
  BY <1>2 DEF IInv, ActiveIsUnique, ActiveSyncs
<1>4. SnapshotIsReal'
  BY DEF IInv, SnapshotIsReal
<1>5. ASSUME NEW t \in Syncs PROVE StepInv(worker[t], sync[t])'
  <2>1. StepInv(worker'[t], sync'[t])
    BY <1>2 DEF IInv
  <2> QED BY <2>1 DEF StepInv, FilesAreFetched, BaseIsBehind, AnswersWhoJoined,
                      RowGoesWithStep
<1> QED BY <1>1, <1>3, <1>4, <1>5 DEF IInv

\* A step that leaves the row of its run alone.
LEMMA WorkerStep ==
  ASSUME IInv, NEW s \in Syncs, NEW w \in Worker,
         worker' = [worker EXCEPT ![s] = w],
         StepInv(w, sync[s]),
         UNCHANGED <<remote, row, snapshot, sync, cancel, refresh, requests>>,
         faults' \in 0..MaxFaults
  PROVE  IInv'
<1>1. sync' = [sync EXCEPT ![s] = sync[s]] /\ sync[s] \in Sync
  BY DEF IInv, TypeOK
<1>2. sync[s].status \in Active => \A t \in ActiveSyncs : t = s
  BY DEF IInv, ActiveIsUnique, ActiveSyncs
<1>3. /\ cancel' \in [Syncs -> {"none", "write", "returned"}]
      /\ refresh' \in [pc: {"idle", "request"}, listed: Maybe, tracked: Maybe]
      /\ requests' \in 0..MaxRequests
  BY DEF IInv, TypeOK
<1> QED BY <1>1, <1>2, <1>3, RunStep

\* What the invariant says of one run, with the types of what it relates.
LEMMA OfOneRun ==
  ASSUME IInv, NEW s \in Syncs
  PROVE  /\ worker[s] \in Worker /\ sync[s] \in Sync
         /\ StepInv(worker[s], sync[s])
         /\ remote \in Nat /\ snapshot.version \in Nat /\ snapshot.revision \in Nat
         /\ worker[s].fetched \in Nat /\ worker[s].files \in Nat
         /\ worker[s].base \in Nat /\ worker[s].result \in Nat
         /\ worker[s].requestVersion \in Nat
         /\ sync[s].asked \in Nat /\ sync[s].result \in Nat
         /\ sync[s].queued \in Nat /\ sync[s].requestVersion \in Nat
         /\ worker[s].pc # "none" => sync[s].status # "absent"
  BY DEF IInv, TypeOK, StepInv, RowGoesWithStep, Worker, Sync, Snapshot, Revision,
         Maybe, None

\* A step that lets go of what it has read keeps to the invariant.
LEMMA LetsGo ==
  ASSUME IInv, NEW s \in Syncs, NEW w \in Worker,
         worker[s].pc # "none",
         w.pc \in {"ended", "failing", "begin"},
         w.fetched = None, w.base = 0,
         w.requestVersion \in {0, worker[s].requestVersion}
  PROVE  StepInv(w, sync[s])
  BY OfOneRun DEF StepInv, FilesAreFetched, BaseIsBehind, AnswersWhoJoined,
         RowGoesWithStep, Captured, HasResult, None

\* So does a failing execution, ...
LEMMA ThrowsInv ==
  ASSUME IInv, NEW s \in Syncs, worker[s].pc # "none", Throws(s),
         UNCHANGED <<remote, row, snapshot, sync, cancel, refresh, requests>>,
         faults' \in 0..MaxFaults
  PROVE  IInv'
<1>1. worker[s] \in Worker
  BY OfOneRun
<1>2. worker' = [worker EXCEPT ![s] = Thrown(worker[s])]
  BY DEF Throws
<1>3. StepInv(Thrown(worker[s]), sync[s])
  BY <1>1, ThrownFacts, LetsGo
<1> QED BY <1>1, <1>2, <1>3, ThrownFacts, WorkerStep

\* ... and a workflow that ends.
LEMMA EndsInv ==
  ASSUME IInv, NEW s \in Syncs, worker[s].pc # "none", Ends(s),
         UNCHANGED <<remote, row, snapshot, sync, cancel, refresh, requests, faults>>
  PROVE  IInv'
<1>1. worker[s] \in Worker /\ faults' \in 0..MaxFaults
  BY OfOneRun DEF IInv, TypeOK
<1>2. worker' = [worker EXCEPT ![s] = Ended(worker[s])]
  BY DEF Ends
<1>3. StepInv(Ended(worker[s]), sync[s])
  BY <1>1, EndedFacts, LetsGo
<1> QED BY <1>1, <1>2, <1>3, EndedFacts, WorkerStep

\* A step that only moves on.
LEMMA GotoInv ==
  ASSUME IInv, NEW s \in Syncs, NEW pc \in StepPc, Goto(s, pc),
         StepInv([worker[s] EXCEPT !.pc = pc], sync[s]),
         UNCHANGED <<remote, row, snapshot, sync, cancel, refresh, requests, faults>>
  PROVE  IInv'
<1>1. worker[s] \in Worker /\ faults' \in 0..MaxFaults
  BY OfOneRun DEF IInv, TypeOK
<1> DEFINE w == [worker[s] EXCEPT !.pc = pc]
<1>2. worker' = [worker EXCEPT ![s] = w]
  BY DEF Goto
<1>3. w \in Worker
  BY <1>1 DEF Worker, StepPc
<1> HIDE DEF w
<1> QED BY <1>1, <1>2, <1>3, WorkerStep DEF w

-----------------------------------------------------------------------------
(* The initial states, and the steps one by one.                           *)

\* Nothing has been requested, read or published.
LEMMA InitInv == Init => IInv
<1> SUFFICES ASSUME Init PROVE IInv
  OBVIOUS
<1> USE PullRequestSyncAssumption
<1>1. TypeOK
  BY DEF Init, TypeOK, Revision, Maybe, None, Snapshot, Sync, SyncStatus, Worker, Idle,
         NewExecution
<1>2. ActiveIsUnique /\ SnapshotIsReal
  BY DEF Init, ActiveIsUnique, ActiveSyncs, Active, SnapshotIsReal, None
<1>3. ASSUME NEW s \in Syncs PROVE StepInv(worker[s], sync[s])
  <2>1. /\ worker[s].pc = "none" /\ worker[s].fetched = 0 /\ worker[s].base = 0
        /\ worker[s].requestVersion = 0
    BY DEF Init, NewExecution, None
  <2>2. /\ sync[s].status = "absent" /\ sync[s].asked = 0 /\ sync[s].queued = 0
        /\ sync[s].requestVersion = 0 /\ remote = 1 /\ snapshot.version = 0
    BY DEF Init, None
  <2> QED BY <2>1, <2>2 DEF StepInv, FilesAreFetched, BaseIsBehind, AnswersWhoJoined,
                            RowGoesWithStep, None, Captured
<1> QED BY <1>1, <1>2, <1>3 DEF IInv

\* Pushes and the refresh touch no run.
LEMMA OutsideInv ==
  ASSUME IInv,
         Push \/ RefreshLists \/ RefreshTracks \/ RefreshWrites \/ RefreshDies
  PROVE  IInv'
<1>1. TypeOK' /\ UNCHANGED <<snapshot, sync, worker>> /\ remote <= remote'
  <2> USE PullRequestSyncAssumption DEF IInv, TypeOK, Revision, Maybe, None
  <2>1. CASE Push
    BY <2>1 DEF Push, database, others
  <2>2. CASE RefreshLists \/ RefreshTracks
    BY <2>2 DEF RefreshLists, RefreshTracks, database
  <2>3. CASE RefreshWrites
    <3>1. /\ row' \in Maybe
          /\ refresh' \in [pc: {"idle", "request"}, listed: Maybe, tracked: Maybe]
      BY <2>3 DEF RefreshWrites, Idle
    <3> QED BY <2>3, <3>1 DEF RefreshWrites
  <2>4. CASE RefreshDies
    BY <2>4 DEF RefreshDies, database, Idle
  <2> QED BY <2>1, <2>2, <2>3, <2>4
<1>2. ActiveIsUnique' /\ SnapshotIsReal'
  BY <1>1 DEF IInv, TypeOK, ActiveIsUnique, ActiveSyncs, SnapshotIsReal, Snapshot, Revision,
              Maybe, None
<1>3. ASSUME NEW s \in Syncs PROVE StepInv(worker[s], sync[s])'
  <2>1. remote \in Nat /\ remote' \in Nat
    BY <1>1 DEF IInv, TypeOK, Revision
  <2> QED BY <1>1, <2>1, OfOneRun DEF StepInv, FilesAreFetched, BaseIsBehind, AnswersWhoJoined,
                                 RowGoesWithStep
<1> QED BY <1>1, <1>2, <1>3 DEF IInv

\* Going on changes nothing else of a step.
LEMMA AtPc ==
  ASSUME NEW w \in Worker, NEW pc \in StepPc
  PROVE  LET v == [w EXCEPT !.pc = pc]
         IN  /\ v \in Worker /\ v.pc = pc
             /\ v.fetched = w.fetched /\ v.files = w.files /\ v.base = w.base
             /\ v.result = w.result /\ v.requestVersion = w.requestVersion
  BY DEF Worker, StepPc

\* The steps that only move on, fail, or end.
LEMMA PlainStepInv ==
  ASSUME IInv, NEW s \in Syncs,
         Starts(s) \/ ConfirmsLatest(s) \/ ConfirmsRevision(s) \/ Returns(s)
           \/ IsStopped(s) \/ StepFails(s)
  PROVE  IInv'
<1> USE DEF database, others
<1>w. worker[s] \in Worker
  BY OfOneRun
<1>f. faults \in 0..MaxFaults
  BY DEF IInv, TypeOK
<1>1. CASE Starts(s)
  <2>1. StepInv([worker[s] EXCEPT !.pc = "begin"], sync[s])
    BY <1>1, <1>w, OfOneRun, AtPc DEF Starts, StepInv, FilesAreFetched, BaseIsBehind,
       AnswersWhoJoined, RowGoesWithStep, Captured, HasResult, StepPc
  <2> QED BY <1>1, <2>1, GotoInv DEF Starts, StepPc
<1>2. CASE ConfirmsLatest(s)
  <2>1. CASE remote = worker[s].result
    <3> DEFINE w == [worker[s] EXCEPT !.pc = "passed"]
    <3>1. /\ w.pc = "passed" /\ w.fetched = worker[s].fetched /\ w.base = worker[s].base
          /\ w.result = worker[s].result /\ w.requestVersion = worker[s].requestVersion
      BY <1>w DEF Worker
    <3> HIDE DEF w
    <3>2. StepInv(w, sync[s])
      BY <1>2, <3>1, OfOneRun DEF ConfirmsLatest, StepInv, FilesAreFetched, BaseIsBehind,
         AnswersWhoJoined, RowGoesWithStep, Captured, HasResult
    <3> QED BY <1>2, <2>1, <3>2, GotoInv DEF ConfirmsLatest, StepPc, w
  <2>2. CASE remote # worker[s].result
    BY <1>2, <2>2, <1>f, ThrowsInv DEF ConfirmsLatest
  <2> QED BY <2>1, <2>2
<1>3. CASE ConfirmsRevision(s)
  <2>1. CASE remote = worker[s].fetched
    \* What was downloaded lies between the fetched revision and the confirmed one.
    <3>1. worker[s].files = worker[s].fetched /\ snapshot.revision <= worker[s].fetched
      BY <1>3, <2>1, OfOneRun DEF ConfirmsRevision, IInv, SnapshotIsReal, StepInv,
         FilesAreFetched
    <3> DEFINE w == [worker[s] EXCEPT !.pc = "publish"]
    <3>2. /\ w.pc = "publish" /\ w.fetched = worker[s].fetched /\ w.base = worker[s].base
          /\ w.files = worker[s].files /\ w.requestVersion = worker[s].requestVersion
      BY <1>w DEF Worker
    <3> HIDE DEF w
    <3>3. StepInv(w, sync[s])
      BY <1>3, <3>1, <3>2, OfOneRun DEF ConfirmsRevision, StepInv, FilesAreFetched,
         BaseIsBehind, AnswersWhoJoined, RowGoesWithStep, Captured, HasResult
    <3> QED BY <1>3, <2>1, <3>3, GotoInv DEF ConfirmsRevision, StepPc, w
  <2>2. CASE remote # worker[s].fetched
    BY <1>3, <2>2, <1>f, ThrowsInv DEF ConfirmsRevision
  <2> QED BY <2>1, <2>2
<1>4. CASE Returns(s) \/ IsStopped(s)
  BY <1>4, EndsInv DEF Returns, IsStopped
<1>5. CASE StepFails(s)
  BY <1>5, <1>f, ThrowsInv, PullRequestSyncAssumption DEF StepFails
<1> QED BY <1>1, <1>2, <1>3, <1>4, <1>5

\* The steps that read: the captured version, the row, the snapshot, the provider.
LEMMA ReadingStepInv ==
  ASSUME IInv, NEW s \in Syncs,
         Begins(s) \/ ObservesRow(s) \/ LoadsSnapshot(s) \/ FetchesRevision(s)
           \/ DownloadsFiles(s)
  PROVE  IInv'
<1> USE DEF database, others
<1>w. worker[s] \in Worker /\ faults \in 0..MaxFaults /\ remote \in Maybe /\ row \in Maybe
      /\ snapshot \in Snapshot
  BY OfOneRun DEF IInv, TypeOK, Maybe
<1>1. CASE Begins(s)
  <2>1. CASE sync[s].status \in Active
    <3> DEFINE w == [worker[s] EXCEPT !.pc = "mark", !.requestVersion = sync[s].requestVersion]
    <3>1. worker' = [worker EXCEPT ![s] = w]
      BY <1>1, <2>1 DEF Begins
    <3>2. /\ w \in Worker /\ w.pc = "mark" /\ w.fetched = worker[s].fetched
          /\ w.base = worker[s].base /\ w.requestVersion = sync[s].requestVersion
      BY <1>w, OfOneRun DEF Worker
    <3> HIDE DEF w
    <3>3. StepInv(w, sync[s])
      BY <1>1, <2>1, <3>2, OfOneRun DEF Begins, StepInv, FilesAreFetched, BaseIsBehind,
         AnswersWhoJoined, RowGoesWithStep, Captured, HasResult, Active
    <3> QED BY <1>1, <1>w, <3>1, <3>2, <3>3, WorkerStep DEF Begins
  <2>2. CASE sync[s].status \notin Active
    BY <1>1, <2>2, EndsInv DEF Begins
  <2> QED BY <2>1, <2>2
<1>2. CASE ObservesRow(s)
  <2> DEFINE w == [worker[s] EXCEPT !.pc = "load", !.observed = row]
  <2>1. worker' = [worker EXCEPT ![s] = w]
    BY <1>2 DEF ObservesRow
  <2>2. /\ w \in Worker /\ w.pc = "load" /\ w.fetched = worker[s].fetched
        /\ w.base = worker[s].base /\ w.requestVersion = worker[s].requestVersion
    BY <1>w DEF Worker
  <2> HIDE DEF w
  <2>3. StepInv(w, sync[s])
    BY <1>2, <2>2, OfOneRun DEF ObservesRow, StepInv, FilesAreFetched, BaseIsBehind,
       AnswersWhoJoined, RowGoesWithStep, Captured, HasResult
  <2> QED BY <1>2, <1>w, <2>1, <2>2, <2>3, WorkerStep DEF ObservesRow
<1>3. CASE LoadsSnapshot(s)
  <2> DEFINE base == IF worker[s].observed = None THEN 0 ELSE snapshot.version
             revision == IF worker[s].observed = None THEN None ELSE snapshot.revision
             w == [worker[s] EXCEPT !.loaded = TRUE, !.base = base, !.baseRevision = revision]
  <2>1. worker' = [worker EXCEPT ![s] = w]
    BY <1>3 DEF LoadsSnapshot
  <2>2. base \in Nat /\ base <= snapshot.version /\ revision \in Maybe
    BY <1>w, OfOneRun DEF Snapshot, Maybe
  <2> HIDE DEF base, revision
  <2>3. /\ w \in Worker /\ w.pc = worker[s].pc /\ w.fetched = worker[s].fetched
        /\ w.base = base /\ w.requestVersion = worker[s].requestVersion
    BY <1>w, <2>2 DEF Worker
  <2> HIDE DEF w
  <2>4. StepInv(w, sync[s])
    BY <1>3, <2>2, <2>3, OfOneRun DEF LoadsSnapshot, StepInv, FilesAreFetched, BaseIsBehind,
       AnswersWhoJoined, RowGoesWithStep, Captured, HasResult
  <2> QED BY <1>3, <1>w, <2>1, <2>3, <2>4, WorkerStep DEF LoadsSnapshot
<1>4. CASE FetchesRevision(s)
  <2> DEFINE w == [worker[s] EXCEPT !.fetched = remote]
  <2>1. worker' = [worker EXCEPT ![s] = w]
    BY <1>4 DEF FetchesRevision
  <2>2. /\ w \in Worker /\ w.pc = worker[s].pc /\ w.fetched = remote
        /\ w.base = worker[s].base /\ w.requestVersion = worker[s].requestVersion
    BY <1>w DEF Worker
  <2> HIDE DEF w
  <2>3. StepInv(w, sync[s])
    BY <1>4, <2>2, OfOneRun DEF FetchesRevision, StepInv, FilesAreFetched, BaseIsBehind,
       AnswersWhoJoined, RowGoesWithStep, Captured, HasResult
  <2> QED BY <1>4, <1>w, <2>1, <2>2, <2>3, WorkerStep DEF FetchesRevision
<1>5. CASE DownloadsFiles(s)
  <2> DEFINE w == [worker[s] EXCEPT !.pc = "confirm", !.files = remote]
  <2>1. worker' = [worker EXCEPT ![s] = w]
    BY <1>5 DEF DownloadsFiles
  <2>2. /\ w \in Worker /\ w.pc = "confirm" /\ w.fetched = worker[s].fetched
        /\ w.files = remote
        /\ w.base = worker[s].base /\ w.requestVersion = worker[s].requestVersion
    BY <1>w DEF Worker
  <2> HIDE DEF w
  <2>3. StepInv(w, sync[s])
    BY <1>5, <2>2, OfOneRun DEF DownloadsFiles, Loaded, StepInv, FilesAreFetched, BaseIsBehind,
       AnswersWhoJoined, RowGoesWithStep, Captured, HasResult
  <2> QED BY <1>5, <1>w, <2>1, <2>2, <2>3, WorkerStep DEF DownloadsFiles
<1> QED BY <1>1, <1>2, <1>3, <1>4, <1>5

\* What a step that changes its run leaves as it is typed.
LEMMA OthersTyped ==
  ASSUME IInv
  PROVE  /\ cancel \in [Syncs -> {"none", "write", "returned"}]
         /\ refresh \in [pc: {"idle", "request"}, listed: Maybe, tracked: Maybe]
         /\ requests \in 0..MaxRequests
         /\ faults \in 0..MaxFaults
  BY DEF IInv, TypeOK

\* A pass that reuses the newest snapshot has what it fetched as its result.
LEMMA ReusesInv == ASSUME IInv, NEW s \in Syncs, Reuses(s) PROVE IInv'
<1> USE DEF database, others
<1>f. faults \in 0..MaxFaults /\ worker[s] \in Worker
  BY OthersTyped, OfOneRun
<1>1. CASE row = worker[s].fetched
  <2> DEFINE w == Passes(worker[s], "passed")
  <2>1. worker' = [worker EXCEPT ![s] = w]
    BY <1>1 DEF Reuses
  <2>2. /\ w \in Worker /\ w.pc = "passed" /\ w.fetched = None /\ w.base = 0
        /\ w.requestVersion = worker[s].requestVersion /\ w.result = worker[s].fetched
    BY <1>f, PassesFacts DEF StepPc
  <2> HIDE DEF w
  <2>3. StepInv(w, sync[s])
    BY <2>2, OfOneRun DEF Reuses, Reusable, Loaded, StepInv, FilesAreFetched,
       BaseIsBehind, AnswersWhoJoined, RowGoesWithStep, Captured, HasResult, None
  <2> QED BY <1>f, <2>1, <2>2, <2>3, WorkerStep DEF Reuses
<1>2. CASE row # worker[s].fetched
  BY <1>2, <1>f, ThrowsInv DEF Reuses, Reusable, Loaded
<1> QED BY <1>1, <1>2

\* Another pass captures the version of everybody who has joined by now.
LEMMA EndsPassInv == ASSUME IInv, NEW s \in Syncs, EndsPass(s) PROVE IInv'
<1> USE DEF database, others
<1>f. faults \in 0..MaxFaults /\ worker[s] \in Worker /\ worker[s].pc = "passed"
  BY OthersTyped, OfOneRun DEF EndsPass
<1>1. CASE sync[s].requestVersion = worker[s].requestVersion
  <2> DEFINE w == [worker[s] EXCEPT !.pc = "queue"]
  <2>1. /\ w.pc = "queue" /\ w.fetched = worker[s].fetched /\ w.base = worker[s].base
        /\ w.result = worker[s].result /\ w.requestVersion = worker[s].requestVersion
    BY <1>f DEF Worker
  <2> HIDE DEF w
  <2>2. StepInv(w, sync[s])
    BY <1>f, <2>1, OfOneRun DEF StepInv, FilesAreFetched, BaseIsBehind,
       AnswersWhoJoined, RowGoesWithStep, Captured, HasResult
  <2> QED BY <1>1, <2>2, GotoInv DEF EndsPass, StepPc, w
<1>2. CASE sync[s].requestVersion # worker[s].requestVersion /\ worker[s].pass = MAX_PASSES
  BY <1>2, <1>f, ThrowsInv DEF EndsPass
<1>3. CASE sync[s].requestVersion # worker[s].requestVersion /\ worker[s].pass # MAX_PASSES
  <2> DEFINE p == NewPass(worker[s], "observe")
             w == [p EXCEPT !.pass = @ + 1, !.requestVersion = sync[s].requestVersion]
  <2>1. worker' = [worker EXCEPT ![s] = w]
    BY <1>3 DEF EndsPass
  <2>2. /\ p \in Worker /\ p.pc = "observe" /\ p.fetched = None /\ p.base = 0
    BY <1>f, NewPassFacts DEF StepPc
  <2>3. p.pass \in 1..MAX_PASSES /\ p.pass # MAX_PASSES
    BY <1>f, <1>3 DEF NewPass, NewExecution, Worker
  <2> HIDE DEF p
  <2>4. p.pass + 1 \in 1..MAX_PASSES
    BY <2>3, PullRequestSyncAssumption
  <2>5. /\ w \in Worker /\ w.pc = "observe" /\ w.fetched = None /\ w.base = 0
        /\ w.requestVersion = sync[s].requestVersion
    BY <2>2, <2>4, OfOneRun DEF Worker
  <2> HIDE DEF w
  <2>6. StepInv(w, sync[s])
    BY <1>f, <2>5, OfOneRun DEF StepInv, FilesAreFetched, BaseIsBehind,
       AnswersWhoJoined, RowGoesWithStep, Captured, HasResult, None
  <2> QED BY <1>f, <2>1, <2>5, <2>6, WorkerStep DEF EndsPass
<1> QED BY <1>1, <1>2, <1>3

-----------------------------------------------------------------------------
(* The steps that write the run's row.                                     *)

\* No other run is active beside an active one.
LEMMA SameRunIsUnique ==
  ASSUME IInv, NEW s \in Syncs, sync[s].status \in Active
  PROVE  \A t \in ActiveSyncs : t = s
  BY DEF IInv, ActiveIsUnique, ActiveSyncs

\* A cancel request stops the run ...
LEMMA CancelKillsInv == ASSUME IInv, NEW s \in Syncs, CancelKills(s) PROVE IInv'
<1> DEFINE w == [worker[s] EXCEPT !.killed = TRUE]
           q == sync[s]
<1>1. /\ worker' = [worker EXCEPT ![s] = w] /\ sync' = [sync EXCEPT ![s] = q]
      /\ UNCHANGED <<remote, row, snapshot>>
      /\ worker[s].pc # "none"
  BY DEF CancelKills, database, IInv, TypeOK
<1>2. /\ w \in Worker /\ w.pc = worker[s].pc /\ w.fetched = worker[s].fetched
      /\ w.files = worker[s].files /\ w.base = worker[s].base
      /\ w.result = worker[s].result /\ w.requestVersion = worker[s].requestVersion
  BY OfOneRun DEF Worker
<1>3. /\ cancel' \in [Syncs -> {"none", "write", "returned"}]
      /\ refresh' \in [pc: {"idle", "request"}, listed: Maybe, tracked: Maybe]
      /\ requests' \in 0..MaxRequests /\ faults' \in 0..MaxFaults
  BY OthersTyped DEF CancelKills
<1>4. q \in Sync /\ (q.status \in Active => \A t \in ActiveSyncs : t = s)
  BY OfOneRun, SameRunIsUnique
<1> HIDE DEF w
<1>5. StepInv(w, q)
  BY <1>2, OfOneRun DEF StepInv, FilesAreFetched, BaseIsBehind, AnswersWhoJoined,
     RowGoesWithStep
<1> HIDE DEF q
<1> QED BY <1>1, <1>2, <1>3, <1>4, <1>5, RunStep

\* ... and then writes its row.
LEMMA CancelWritesInv == ASSUME IInv, NEW s \in Syncs, CancelWrites(s) PROVE IInv'
<1> DEFINE w == worker[s]
           q == [sync[s] EXCEPT !.status = "cancelled"]
<1>1. /\ worker' = [worker EXCEPT ![s] = w] /\ sync' = [sync EXCEPT ![s] = q]
      /\ UNCHANGED <<remote, row, snapshot>>
  BY DEF CancelWrites, IInv, TypeOK
<1>2. /\ q \in Sync /\ q.status = "cancelled" /\ q.asked = sync[s].asked
      /\ q.queued = sync[s].queued /\ q.requestVersion = sync[s].requestVersion
  BY OfOneRun DEF Sync, SyncStatus
<1>3. /\ cancel' \in [Syncs -> {"none", "write", "returned"}]
      /\ refresh' \in [pc: {"idle", "request"}, listed: Maybe, tracked: Maybe]
      /\ requests' \in 0..MaxRequests /\ faults' \in 0..MaxFaults
  BY OthersTyped DEF CancelWrites
<1> HIDE DEF q
<1>4. w \in Worker /\ StepInv(w, q) /\ q.status \notin Active
  BY <1>2, OfOneRun DEF StepInv, FilesAreFetched, BaseIsBehind, AnswersWhoJoined,
     RowGoesWithStep, Active
<1> HIDE DEF w
<1> QED BY <1>1, <1>2, <1>3, <1>4, RunStep

\* A step that writes its row makes no other run active.
LEMMA WritesInv ==
  ASSUME IInv, NEW s \in Syncs, NEW q \in Sync, NEW w \in Worker,
         worker' = [worker EXCEPT ![s] = w],
         sync' = [sync EXCEPT ![s] = q],
         StepInv(w, q),
         q.status \in Active => sync[s].status \in Active,
         UNCHANGED <<remote, row, snapshot, others>>,
         faults' \in 0..MaxFaults
  PROVE  IInv'
<1>1. q.status \in Active => \A t \in ActiveSyncs : t = s
  BY SameRunIsUnique
<1>2. /\ cancel' \in [Syncs -> {"none", "write", "returned"}]
      /\ refresh' \in [pc: {"idle", "request"}, listed: Maybe, tracked: Maybe]
      /\ requests' \in 0..MaxRequests
  BY OthersTyped DEF others
<1> QED BY <1>1, <1>2, RunStep

\* The run is marked, and its step goes on.
LEMMA MarksRunningInv == ASSUME IInv, NEW s \in Syncs, MarksRunning(s) PROVE IInv'
<1>f. faults' \in 0..MaxFaults /\ worker[s] \in Worker /\ worker[s].pc = "mark"
  BY OthersTyped, OfOneRun DEF MarksRunning
<1>1. CASE sync[s].status \in Active
  <2> DEFINE w == [worker[s] EXCEPT !.pc = "observe"]
             q == [sync[s] EXCEPT !.status = "running"]
  <2>1. worker' = [worker EXCEPT ![s] = w] /\ sync' = [sync EXCEPT ![s] = q]
    BY <1>1 DEF MarksRunning, Goto, IInv, TypeOK
  <2>2. /\ w \in Worker /\ w.pc = "observe" /\ w.fetched = worker[s].fetched
        /\ w.base = worker[s].base /\ w.requestVersion = worker[s].requestVersion
    BY <1>f DEF Worker
  <2>3. /\ q \in Sync /\ q.status = "running" /\ q.asked = sync[s].asked
        /\ q.queued = sync[s].queued /\ q.requestVersion = sync[s].requestVersion
    BY OfOneRun DEF Sync, SyncStatus, Active
  <2> HIDE DEF w, q
  <2>4. StepInv(w, q)
    BY <1>f, <2>2, <2>3, OfOneRun DEF StepInv, FilesAreFetched, BaseIsBehind,
       AnswersWhoJoined, RowGoesWithStep, Captured, HasResult
  <2> QED BY <1>f, <1>1, <2>1, <2>2, <2>3, <2>4, WritesInv DEF MarksRunning
<1>2. CASE sync[s].status \notin Active
  BY <1>f, <1>2, EndsInv DEF MarksRunning, others
<1> QED BY <1>1, <1>2

\* Whoever has joined by now has a queue item.
LEMMA AssignsQueuesInv == ASSUME IInv, NEW s \in Syncs, AssignsQueues(s) PROVE IInv'
<1>f. faults' \in 0..MaxFaults /\ worker[s] \in Worker /\ worker[s].pc = "queue"
  BY OthersTyped, OfOneRun DEF AssignsQueues
<1> DEFINE w == [worker[s] EXCEPT !.pc = "complete"]
           q == [sync[s] EXCEPT !.queued = sync[s].requestVersion]
<1>1. worker' = [worker EXCEPT ![s] = w] /\ sync' = [sync EXCEPT ![s] = q]
  BY DEF AssignsQueues, Goto, IInv, TypeOK
<1>2. /\ w \in Worker /\ w.pc = "complete" /\ w.fetched = worker[s].fetched
      /\ w.base = worker[s].base /\ w.requestVersion = worker[s].requestVersion
      /\ w.result = worker[s].result
  BY <1>f DEF Worker
<1>3. /\ q \in Sync /\ q.status = sync[s].status /\ q.asked = sync[s].asked
      /\ q.queued = sync[s].requestVersion /\ q.requestVersion = sync[s].requestVersion
  BY OfOneRun DEF Sync
<1> HIDE DEF w, q
<1>4. StepInv(w, q)
  BY <1>f, <1>2, <1>3, OfOneRun DEF StepInv, FilesAreFetched, BaseIsBehind,
     AnswersWhoJoined, RowGoesWithStep, Captured, HasResult
<1> QED BY <1>f, <1>1, <1>2, <1>3, <1>4, WritesInv DEF AssignsQueues

\* The completion finds the version that the pass had captured.
LEMMA CompletesInv == ASSUME IInv, NEW s \in Syncs, Completes(s) PROVE IInv'
<1>f. faults' \in 0..MaxFaults /\ worker[s] \in Worker /\ worker[s].pc = "complete"
  BY OthersTyped, OfOneRun DEF Completes
<1>1. CASE MayComplete(s)
  <2> DEFINE w == [worker[s] EXCEPT !.pc = "return"]
             q == [sync[s] EXCEPT !.status = "completed", !.result = worker[s].result]
  <2>1. worker' = [worker EXCEPT ![s] = w] /\ sync' = [sync EXCEPT ![s] = q]
    BY <1>1 DEF Completes, Goto, IInv, TypeOK
  <2>2. /\ w \in Worker /\ w.pc = "return" /\ w.fetched = worker[s].fetched
        /\ w.base = worker[s].base /\ w.requestVersion = worker[s].requestVersion
    BY <1>f DEF Worker
  <2>3. /\ q \in Sync /\ q.status = "completed" /\ q.asked = sync[s].asked
        /\ q.queued = sync[s].queued /\ q.requestVersion = sync[s].requestVersion
        /\ q.result = worker[s].result
    BY <1>f, OfOneRun DEF Sync, SyncStatus, Worker
  <2>4. worker[s].requestVersion = sync[s].requestVersion
    BY <1>1 DEF MayComplete
  <2> HIDE DEF w, q
  <2>5. StepInv(w, q)
    BY <1>f, <2>2, <2>3, <2>4, OfOneRun DEF StepInv, FilesAreFetched, BaseIsBehind,
       AnswersWhoJoined, RowGoesWithStep, Captured, HasResult
  <2>6. q.status \notin Active
    BY <2>3 DEF Active
  <2> QED BY <1>f, <2>1, <2>2, <2>3, <2>5, <2>6, WritesInv DEF Completes
<1>2. CASE ~MayComplete(s)
  BY <1>f, <1>2, ThrowsInv DEF Completes, others
<1> QED BY <1>1, <1>2

\* A failed start, or an exhausted step, fails the run that is still live.
LEMMA FailsInv ==
  ASSUME IInv, NEW s \in Syncs, StartThrows(s) \/ RecordsFailure(s)
  PROVE  IInv'
<1>f. faults' \in 0..MaxFaults /\ worker[s] \in Worker /\ worker[s].pc # "none"
  BY OthersTyped, OfOneRun, PullRequestSyncAssumption DEF StartThrows, RecordsFailure
<1> DEFINE w == Ended(worker[s])
<1>0. PICK status \in {sync[s].status, "failed"} :
        sync' = [sync EXCEPT ![s].status = status]
  BY OfOneRun DEF StartThrows, RecordsFailure, IInv, TypeOK
<1> DEFINE q == [sync[s] EXCEPT !.status = status]
<1>1. worker' = [worker EXCEPT ![s] = w] /\ sync' = [sync EXCEPT ![s] = q]
  BY <1>0 DEF StartThrows, RecordsFailure, Ends, IInv, TypeOK
<1>2. /\ w \in Worker /\ w.pc = "ended" /\ w.fetched = None
      /\ w.base = 0 /\ w.requestVersion = 0
  BY <1>f, EndedFacts
<1>3. /\ q \in Sync /\ q.status = status /\ q.asked = sync[s].asked
      /\ q.queued = sync[s].queued /\ q.requestVersion = sync[s].requestVersion
      /\ q.result = sync[s].result
  BY OfOneRun DEF Sync, SyncStatus
<1> HIDE DEF w, q
<1>4. StepInv(w, q)
  BY <1>f, <1>2, <1>3, OfOneRun DEF StepInv, FilesAreFetched, BaseIsBehind,
     AnswersWhoJoined, RowGoesWithStep, Captured, HasResult, None
<1>5. q.status \in Active => sync[s].status \in Active
  BY <1>3 DEF Active
<1> QED BY <1>f, <1>1, <1>2, <1>3, <1>4, <1>5, WritesInv DEF StartThrows, RecordsFailure

-----------------------------------------------------------------------------
(* Requests.                                                               *)

\* A request joins the active run, or inserts one while there is none.
LEMMA JoinsOrInsertsInv ==
  ASSUME IInv, JoinsOrInserts,
         UNCHANGED <<remote, row, snapshot, cancel, faults>>,
         refresh' \in [pc: {"idle", "request"}, listed: Maybe, tracked: Maybe],
         requests' \in 0..MaxRequests
  PROVE  IInv'
<1>c. cancel' \in [Syncs -> {"none", "write", "returned"}] /\ faults' \in 0..MaxFaults
  BY OthersTyped
<1>r. remote \in Maybe /\ remote \in Nat /\ remote >= 1
  BY DEF IInv, TypeOK, Maybe, Revision
<1>1. CASE ActiveSyncs # {}
  <2> DEFINE s == Max(ActiveSyncs)
  <2>1. s \in ActiveSyncs /\ s \in Syncs
    <3>1. PICK t \in ActiveSyncs : TRUE
      BY <1>1
    <3>2. \A u \in ActiveSyncs : t >= u
      BY DEF IInv, ActiveIsUnique, ActiveSyncs, Syncs
    <3> QED BY <3>1, <3>2 DEF Max, ActiveSyncs
  <2> HIDE DEF s
  <2> DEFINE w == worker[s]
             n == sync[s].requestVersion + 1
             q == [sync[s] EXCEPT !.requestVersion = n, !.asked = remote]
  <2>2. worker' = [worker EXCEPT ![s] = w] /\ sync' = [sync EXCEPT ![s] = q]
    BY <1>1, <2>1 DEF JoinsOrInserts, s, IInv, TypeOK
  <2>n. n \in Nat /\ n > sync[s].requestVersion
    BY <2>1, OfOneRun
  <2> HIDE DEF n
  <2>3. /\ q \in Sync /\ q.status = sync[s].status /\ q.asked = remote
        /\ q.queued = sync[s].queued /\ q.requestVersion = n
    BY <1>r, <2>1, <2>n, OfOneRun DEF Sync
  <2>4. sync[s].status \in Active
    BY <2>1 DEF ActiveSyncs
  <2> HIDE DEF q
  <2>5. w \in Worker /\ StepInv(w, q)
    BY <1>r, <2>1, <2>n, <2>3, <2>4, OfOneRun DEF StepInv, FilesAreFetched, BaseIsBehind,
       AnswersWhoJoined, RowGoesWithStep, Active
  <2> HIDE DEF w
  <2> QED BY <1>c, <2>1, <2>2, <2>3, <2>4, <2>5, SameRunIsUnique, RunStep
<1>2. CASE ActiveSyncs = {}
  <2>1. PICK s \in Syncs :
          /\ sync[s].status = "absent"
          /\ sync' = [sync EXCEPT ![s].status = "queued",
                                  ![s].requestVersion = 1, ![s].asked = remote]
          /\ Goto(s, "start")
    BY <1>2 DEF JoinsOrInserts
  <2> DEFINE w == [worker[s] EXCEPT !.pc = "start"]
             q == [sync[s] EXCEPT !.status = "queued", !.requestVersion = 1, !.asked = remote]
  <2>2. worker' = [worker EXCEPT ![s] = w] /\ sync' = [sync EXCEPT ![s] = q]
    BY <2>1 DEF Goto, IInv, TypeOK
  <2>3. /\ q \in Sync /\ q.status = "queued" /\ q.asked = remote
        /\ q.queued = sync[s].queued /\ q.requestVersion = 1
    BY <1>r, OfOneRun DEF Sync, SyncStatus, Active
  <2>4. /\ w \in Worker /\ w.pc = "start" /\ w.fetched = worker[s].fetched
        /\ w.base = worker[s].base /\ w.requestVersion = worker[s].requestVersion
    BY OfOneRun DEF Worker
  <2> HIDE DEF w, q
  <2>5. StepInv(w, q)
    BY <1>r, <2>1, <2>3, <2>4, OfOneRun DEF StepInv, FilesAreFetched, BaseIsBehind,
       AnswersWhoJoined, RowGoesWithStep, Captured, HasResult
  <2>6. \A t \in ActiveSyncs : t = s
    BY <1>2
  <2> QED BY <1>c, <2>2, <2>3, <2>4, <2>5, <2>6, RunStep
<1> QED BY <1>1, <1>2

\* A request of a user or webhook, and the one of the refresh.
LEMMA RequestInv == ASSUME IInv, Request \/ RefreshRequests PROVE IInv'
<1>1. CASE Request
  <2>1. requests' \in 0..MaxRequests
    BY <1>1, OthersTyped, PullRequestSyncAssumption DEF Request
  <2> QED BY <1>1, <2>1, OthersTyped, JoinsOrInsertsInv DEF Request
<1>2. CASE RefreshRequests
  <2>1. refresh' \in [pc: {"idle", "request"}, listed: Maybe, tracked: Maybe]
    BY <1>2 DEF RefreshRequests, Idle, Maybe
  <2> QED BY <1>2, <2>1, OthersTyped, JoinsOrInsertsInv DEF RefreshRequests
<1> QED BY <1>1, <1>2

-----------------------------------------------------------------------------
(* The publication, and every step.                                        *)

\* A publication moves the version, so whatever the others had read is behind it.
LEMMA PublishesInv == ASSUME IInv, NEW s \in Syncs, Publishes(s) PROVE IInv'
<1>f. /\ faults' \in 0..MaxFaults /\ worker[s] \in Worker /\ worker[s].pc = "publish"
      /\ UNCHANGED <<remote, sync, others, faults>>
  BY OthersTyped, OfOneRun DEF Publishes
<1>1. CASE MayPublish(worker[s])
  <2> DEFINE w == Passes(worker[s], "latest")
  <2>1. /\ row' = worker[s].fetched /\ worker' = [worker EXCEPT ![s] = w]
        /\ snapshot' = [version |-> snapshot.version + 1,
                        revision |-> worker[s].fetched, files |-> worker[s].files]
    BY <1>1 DEF Publishes
  <2>2. /\ w \in Worker /\ w.pc = "latest" /\ w.fetched = None /\ w.base = 0
        /\ w.requestVersion = worker[s].requestVersion /\ w.result = worker[s].fetched
    BY <1>f, PassesFacts DEF StepPc
  <2> HIDE DEF w
  <2>3. /\ worker[s].fetched \in Maybe /\ worker[s].files = worker[s].fetched
        /\ worker[s].fetched <= remote /\ worker[s].fetched # None
    BY <1>f, OfOneRun DEF StepInv, FilesAreFetched, Worker
  <2>4. snapshot' \in Snapshot /\ snapshot'.version = snapshot.version + 1
    BY <2>1, <2>3, OfOneRun DEF Snapshot
  <2>5. TypeOK'
    BY <1>f, <2>1, <2>2, <2>3, <2>4 DEF IInv, TypeOK, others
  <2>6. ActiveIsUnique'
    BY <1>f DEF IInv, ActiveIsUnique, ActiveSyncs
  <2>7. SnapshotIsReal'
    BY <1>f, <2>1, <2>3 DEF SnapshotIsReal
  <2>8. ASSUME NEW t \in Syncs PROVE StepInv(worker[t], sync[t])'
    <3>1. CASE t = s
      <4>1. worker'[t] = w
        BY <2>1, <3>1 DEF IInv, TypeOK
      <4>2. /\ worker'[t].pc = "latest" /\ worker'[t].fetched = 0 /\ worker'[t].base = 0
            /\ worker'[t].requestVersion = worker[s].requestVersion
            /\ worker'[t].result = worker[s].fetched
        BY <2>2, <4>1 DEF None
      <4> QED BY <1>f, <2>3, <2>4, <3>1, <4>2, OfOneRun DEF StepInv, FilesAreFetched,
                 BaseIsBehind, AnswersWhoJoined, RowGoesWithStep, Captured, HasResult, None
    <3>2. CASE t # s
      <4>1. worker'[t] = worker[t]
        BY <2>1, <3>2 DEF IInv, TypeOK
      <4> QED BY <1>f, <2>4, <4>1, OfOneRun DEF StepInv, FilesAreFetched, BaseIsBehind,
                 AnswersWhoJoined, RowGoesWithStep
    <3> QED BY <3>1, <3>2
  <2> QED BY <2>5, <2>6, <2>7, <2>8 DEF IInv
<1>2. CASE ~MayPublish(worker[s])
  BY <1>f, <1>2, ThrowsInv DEF Publishes, others
<1> QED BY <1>1, <1>2

\* Every step, and stuttering.
LEMMA NextInv == IInv /\ [Next]_vars => IInv'
<1> SUFFICES ASSUME IInv, [Next]_vars PROVE IInv'
  OBVIOUS
<1>1. CASE Push \/ RefreshLists \/ RefreshTracks \/ RefreshWrites \/ RefreshDies
  BY <1>1, OutsideInv
<1>2. CASE Request \/ RefreshRequests
  BY <1>2, RequestInv
<1>3. ASSUME NEW s \in Syncs,
             StepNext(s) \/ StartThrows(s) \/ StepFails(s) \/ CancelKills(s) \/ CancelWrites(s)
      PROVE  IInv'
  BY <1>3, PlainStepInv, ReadingStepInv, ReusesInv, EndsPassInv, CancelKillsInv,
     CancelWritesInv, MarksRunningInv, AssignsQueuesInv, CompletesInv, FailsInv,
     PublishesInv DEF StepNext
<1>4. CASE UNCHANGED vars
  BY <1>4 DEF vars, IInv, TypeOK, ActiveIsUnique, ActiveSyncs, SnapshotIsReal, StepInv,
     FilesAreFetched, BaseIsBehind, AnswersWhoJoined, RowGoesWithStep
<1> QED BY <1>1, <1>2, <1>3, <1>4 DEF Next, RefreshNext

-----------------------------------------------------------------------------
(* Theorems                                                                *)

\* The strengthened invariant: what a step has read, and what its row says, hold
\* together in every reachable state.
THEOREM Inductive == Spec => []IInv
BY InitInv, NextInv, PTL DEF Spec

\* Every variable keeps its type; the passes and attempts of startPullRequestSync's
\* durable step never run past their bounds.
THEOREM TypeCorrect == Spec => []TypeOK
<1>1. IInv => TypeOK
  BY DEF IInv
<1> QED BY <1>1, Inductive, PTL

\* Every request has its one run: at most one is active, and one that has completed
\* has a result for everybody who joined it, and has assigned all their queue items.
THEOREM RequestsAreServed == Spec => []OneRunServesEveryRequest
<1>1. ASSUME IInv PROVE OneActiveSync
  <2>1. CASE ActiveSyncs = {}
    BY <2>1, FS_EmptySet DEF OneActiveSync
  <2>2. CASE ActiveSyncs # {}
    <3>1. PICK s : s \in ActiveSyncs
      BY <2>2
    <3>2. ActiveSyncs = {s}
      BY <1>1, <3>1 DEF IInv, ActiveIsUnique
    <3>3. Cardinality({s}) = 1
      BY FS_Singleton
    <3> QED BY <3>2, <3>3 DEF OneActiveSync
  <2> QED BY <2>1, <2>2
<1>2. ASSUME IInv PROVE CompletedServesEveryRequest
  BY <1>2, OfOneRun DEF CompletedServesEveryRequest, StepInv, RowGoesWithStep
<1>3. IInv => OneRunServesEveryRequest
  BY <1>1, <1>2 DEF OneRunServesEveryRequest
<1> QED BY <1>3, Inductive, PTL

\* Every step leaves the newest snapshot, or publishes a revision that is newer.
LEMMA SnapshotsMoveOn ==
  ASSUME IInv, [Next]_vars
  PROVE  /\ snapshot'.files = snapshot'.revision
         /\ snapshot'.revision >= snapshot.revision
<1>1. CASE \E s \in Syncs : Publishes(s) /\ MayPublish(worker[s])
  <2>1. PICK s \in Syncs : Publishes(s) /\ MayPublish(worker[s])
    BY <1>1
  <2>2. /\ worker[s].pc = "publish"
        /\ snapshot'.revision = worker[s].fetched /\ snapshot'.files = worker[s].files
    BY <2>1 DEF Publishes
  <2>3. worker[s].files = worker[s].fetched /\ snapshot.revision <= worker[s].fetched
    BY <2>1, <2>2, OfOneRun DEF StepInv, FilesAreFetched, BaseIsBehind, MayPublish
  <2> QED BY <2>2, <2>3, OfOneRun
<1>2. CASE UNCHANGED snapshot
  BY <1>2 DEF IInv, TypeOK, SnapshotIsReal, Snapshot, Maybe, Revision, None
<1>3. (\E s \in Syncs : Publishes(s) /\ MayPublish(worker[s])) \/ UNCHANGED snapshot
  BY DEF Next, StepNext, RefreshNext, Push, Request, RefreshLists, RefreshTracks,
     RefreshWrites, RefreshRequests, RefreshDies, Starts, Begins, MarksRunning,
     ObservesRow, LoadsSnapshot, FetchesRevision, Reuses, DownloadsFiles,
     ConfirmsRevision, Publishes, ConfirmsLatest, EndsPass, AssignsQueues, Completes,
     Returns, RecordsFailure, IsStopped, StartThrows, StepFails, CancelKills,
     CancelWrites, database, vars
<1> QED BY <1>1, <1>2, <1>3

\* A published snapshot shows the files of its own revision, and the newest snapshot
\* never goes back, whatever cancelled steps still publish.
THEOREM SnapshotsStayReal == Spec => SnapshotsAreRevisions
BY SnapshotsMoveOn, Inductive, PTL DEF Spec, SnapshotsAreRevisions

-----------------------------------------------------------------------------
(* The promise to whoever asks.                                            *)

\* What a step has for a result, or may take for one, is shown.
ResultIsShown(w, revision) ==
  /\ w.baseRevision <= revision
  /\ w.pc \in HasResult => w.result <= revision

\* Only a run that was started can be cancelled.
CancelKnowsTheRun(w, c) == c # "none" => w.pc # "none"

ShownInv ==
  \A s \in Syncs : /\ ResultIsShown(worker[s], snapshot.revision)
                   /\ CancelKnowsTheRun(worker[s], cancel[s])

\* What does not change a step, or lets go of what it has read, keeps it.
LEMMA ShownOfOthers ==
  ASSUME IInv, ShownInv, NEW s \in Syncs, NEW w \in Worker,
         NEW revision \in Nat, revision >= snapshot.revision,
         w.baseRevision \in {None, worker[s].baseRevision},
         w.pc \in HasResult =>
           worker[s].pc \in HasResult /\ w.result = worker[s].result
  PROVE  ResultIsShown(w, revision)
<1>1. worker[s].baseRevision \in Nat /\ w.baseRevision \in Nat /\ w.result \in Nat
  BY OfOneRun DEF Worker, Maybe, Revision, None
<1> QED BY <1>1, OfOneRun DEF ShownInv, ResultIsShown, None

LEMMA ShownInit == Init => ShownInv
BY DEF Init, ShownInv, ResultIsShown, CancelKnowsTheRun, NewExecution, HasResult, None

\* A step of one run.
LEMMA ShownStep ==
  ASSUME IInv, IInv', ShownInv, NEW s \in Syncs, NEW w \in Worker,
         snapshot'.revision >= snapshot.revision,
         worker' = [worker EXCEPT ![s] = w],
         ResultIsShown(w, snapshot'.revision),
         \A t \in Syncs : cancel'[t] # "none" => worker'[t].pc # "none"
  PROVE  ShownInv'
<1>1. snapshot'.revision \in Nat
  BY DEF IInv, TypeOK, Snapshot, Maybe, Revision, None
<1>2. ASSUME NEW t \in Syncs PROVE ResultIsShown(worker'[t], snapshot'.revision)
  <2>1. CASE t = s
    BY <2>1 DEF IInv, TypeOK
  <2>2. CASE t # s
    <3>1. worker'[t] = worker[t] /\ worker[t] \in Worker
      BY <2>2 DEF IInv, TypeOK
    <3> QED BY <1>1, <3>1, ShownOfOthers
  <2> QED BY <2>1, <2>2
<1> QED BY <1>2 DEF ShownInv, CancelKnowsTheRun, ResultIsShown

\* A step that goes on with what it has, or lets go of it.
KeepsResult(w, v) ==
  /\ v \in Worker /\ v.pc # "none"
  /\ v.baseRevision \in {None, w.baseRevision}
  /\ v.pc \in HasResult => w.pc \in HasResult /\ v.result = w.result

LEMMA ThrownKeeps ==
  ASSUME NEW w \in Worker
  PROVE  KeepsResult(w, Thrown(w)) /\ KeepsResult(w, Ended(w))
BY ThrownFacts, EndedFacts DEF KeepsResult, HasResult

LEMMA GotoKeeps ==
  ASSUME NEW w \in Worker, NEW pc \in StepPc \ {"none"},
         pc \in HasResult => w.pc \in HasResult
  PROVE  KeepsResult(w, [w EXCEPT !.pc = pc])
BY DEF KeepsResult, Worker, StepPc

\* The steps that only go on, fail or end.
LEMMA StepsKeepResults ==
  ASSUME IInv, NEW s \in Syncs,
         Starts(s) \/ MarksRunning(s) \/ ConfirmsRevision(s) \/ ConfirmsLatest(s)
           \/ AssignsQueues(s) \/ Completes(s) \/ Returns(s) \/ RecordsFailure(s)
           \/ IsStopped(s) \/ StartThrows(s) \/ StepFails(s)
  PROVE  \E w \in Worker : /\ worker' = [worker EXCEPT ![s] = w]
                           /\ KeepsResult(worker[s], w)
<1>w. worker[s] \in Worker
  BY OfOneRun
<1>1. CASE Throws(s) \/ Ends(s)
  BY <1>1, <1>w, ThrownKeeps DEF Throws, Ends, KeepsResult
<1>2. ASSUME NEW pc \in StepPc \ {"none"}, Goto(s, pc),
             pc \in HasResult => worker[s].pc \in HasResult
      PROVE  \E w \in Worker : /\ worker' = [worker EXCEPT ![s] = w]
                               /\ KeepsResult(worker[s], w)
  <2>1. KeepsResult(worker[s], [worker[s] EXCEPT !.pc = pc])
    BY <1>2, <1>w, GotoKeeps
  <2>2. worker' = [worker EXCEPT ![s] = [worker[s] EXCEPT !.pc = pc]]
    BY <1>2 DEF Goto
  <2> QED BY <2>1, <2>2 DEF KeepsResult
<1>3. CASE Goto(s, "begin") \/ Goto(s, "observe") \/ Goto(s, "publish") \/ Goto(s, "return")
  BY <1>2, <1>3 DEF StepPc, HasResult
<1>4. CASE worker[s].pc \in HasResult /\ (Goto(s, "passed") \/ Goto(s, "complete"))
  BY <1>2, <1>4 DEF StepPc, HasResult
<1> QED BY <1>1, <1>3, <1>4 DEF Starts, MarksRunning, ConfirmsRevision, ConfirmsLatest,
           AssignsQueues, Completes, Returns, RecordsFailure, IsStopped, StartThrows,
           StepFails, HasResult

\* The steps that read, but for the newest snapshot, and the end of a pass.
LEMMA ReadsKeepResults ==
  ASSUME IInv, NEW s \in Syncs,
         Begins(s) \/ ObservesRow(s) \/ FetchesRevision(s) \/ DownloadsFiles(s)
           \/ EndsPass(s) \/ CancelKills(s)
  PROVE  \E w \in Worker : /\ worker' = [worker EXCEPT ![s] = w]
                           /\ KeepsResult(worker[s], w)
<1>w. worker[s] \in Worker /\ remote \in Maybe /\ row \in Maybe
      /\ sync[s].requestVersion \in Nat
  BY OfOneRun DEF IInv, TypeOK, Maybe
<1>1. CASE Throws(s) \/ Ends(s)
  BY <1>1, <1>w, ThrownKeeps DEF Throws, Ends, KeepsResult
<1>2. CASE Begins(s) \/ ObservesRow(s) \/ FetchesRevision(s) \/ DownloadsFiles(s)
             \/ CancelKills(s)
  <2> DEFINE v == worker[s]
  <2>1. CASE Begins(s) /\ sync[s].status \in Active
    <3> DEFINE w == [v EXCEPT !.pc = "mark", !.requestVersion = sync[s].requestVersion]
    <3>1. worker' = [worker EXCEPT ![s] = w] /\ w \in Worker /\ KeepsResult(v, w)
      BY <2>1, <1>w DEF Begins, KeepsResult, Worker, HasResult
    <3> QED BY <3>1
  <2>2. CASE ObservesRow(s)
    <3> DEFINE w == [v EXCEPT !.pc = "load", !.observed = row]
    <3>1. worker' = [worker EXCEPT ![s] = w] /\ w \in Worker /\ KeepsResult(v, w)
      BY <2>2, <1>w DEF ObservesRow, KeepsResult, Worker, HasResult
    <3> QED BY <3>1
  <2>3. CASE FetchesRevision(s)
    <3> DEFINE w == [v EXCEPT !.fetched = remote]
    <3>1. worker' = [worker EXCEPT ![s] = w] /\ w \in Worker /\ KeepsResult(v, w)
      BY <2>3, <1>w DEF FetchesRevision, KeepsResult, Worker, HasResult
    <3> QED BY <3>1
  <2>4. CASE DownloadsFiles(s)
    <3> DEFINE w == [v EXCEPT !.pc = "confirm", !.files = remote]
    <3>1. worker' = [worker EXCEPT ![s] = w] /\ w \in Worker /\ KeepsResult(v, w)
      BY <2>4, <1>w DEF DownloadsFiles, KeepsResult, Worker, HasResult
    <3> QED BY <3>1
  <2>5. CASE CancelKills(s)
    <3> DEFINE w == [v EXCEPT !.killed = TRUE]
    <3>1. worker' = [worker EXCEPT ![s] = w] /\ w \in Worker /\ KeepsResult(v, w)
      BY <2>5, <1>w DEF CancelKills, KeepsResult, Worker, HasResult
    <3> QED BY <3>1
  <2> QED BY <1>1, <1>2, <2>1, <2>2, <2>3, <2>4, <2>5 DEF Begins
<1>3. CASE EndsPass(s)
  <2>1. CASE Goto(s, "queue")
    <3>1. KeepsResult(worker[s], [worker[s] EXCEPT !.pc = "queue"])
      BY <1>3, <1>w, GotoKeeps DEF EndsPass, StepPc, HasResult
    <3>2. worker' = [worker EXCEPT ![s] = [worker[s] EXCEPT !.pc = "queue"]]
      BY <2>1 DEF Goto
    <3> QED BY <3>1, <3>2 DEF KeepsResult
  <2>2. CASE /\ sync[s].requestVersion # worker[s].requestVersion
             /\ worker[s].pass # MAX_PASSES
    <3> DEFINE p == NewPass(worker[s], "observe")
               w == [p EXCEPT !.pass = @ + 1, !.requestVersion = sync[s].requestVersion]
    <3>1. worker' = [worker EXCEPT ![s] = w]
      BY <1>3, <2>2 DEF EndsPass
    <3>2. p \in Worker /\ p.pc = "observe" /\ p.baseRevision = None
      BY <1>w, NewPassFacts DEF StepPc
    <3>3. p.pass \in 1..MAX_PASSES /\ p.pass # MAX_PASSES
      BY <1>w, <2>2 DEF NewPass, NewExecution, Worker
    <3> HIDE DEF p
    <3>4. p.pass + 1 \in 1..MAX_PASSES
      BY <3>3, PullRequestSyncAssumption
    <3>5. w \in Worker /\ KeepsResult(worker[s], w)
      BY <1>w, <3>2, <3>4 DEF KeepsResult, Worker, HasResult
    <3> QED BY <3>1, <3>5
  <2> QED BY <1>1, <1>3, <2>1, <2>2 DEF EndsPass
<1> QED BY <1>2, <1>3

\* The steps that take up the newest snapshot, or write it.
LEMMA SnapshotStepsShow ==
  ASSUME IInv, ShownInv, NEW s \in Syncs,
         LoadsSnapshot(s) \/ Reuses(s) \/ Publishes(s)
  PROVE  \E w \in Worker :
           /\ worker' = [worker EXCEPT ![s] = w] /\ w.pc # "none"
           /\ KeepsResult(worker[s], w) \/ ResultIsShown(w, snapshot'.revision)
<1>w. worker[s] \in Worker /\ snapshot.revision \in Maybe
      /\ snapshot.version \in Nat
  BY OfOneRun DEF IInv, TypeOK, Snapshot
<1>1. CASE Throws(s)
  BY <1>1, <1>w, ThrownKeeps DEF Throws, KeepsResult
<1>2. CASE LoadsSnapshot(s)
  <2> DEFINE base == IF worker[s].observed = None THEN 0 ELSE snapshot.version
             revision == IF worker[s].observed = None THEN None ELSE snapshot.revision
             w == [worker[s] EXCEPT !.loaded = TRUE, !.base = base, !.baseRevision = revision]
  <2>1. worker' = [worker EXCEPT ![s] = w] /\ worker[s].pc = "load"
        /\ snapshot' = snapshot
    BY <1>2 DEF LoadsSnapshot, database
  <2>2. base \in Nat /\ revision \in Maybe /\ revision <= snapshot.revision
    BY <1>w DEF Maybe, Revision, None
  <2> HIDE DEF base, revision
  <2>3. w \in Worker /\ w.pc = "load" /\ w.baseRevision = revision
    BY <1>w, <2>1, <2>2 DEF Worker
  <2> HIDE DEF w
  <2> QED BY <2>1, <2>2, <2>3 DEF ResultIsShown, HasResult
<1>3. CASE Reuses(s) /\ worker' = [worker EXCEPT ![s] = Passes(@, "passed")]
  <2> DEFINE w == Passes(worker[s], "passed")
  <2>1. /\ w \in Worker /\ w.pc = "passed" /\ w.baseRevision = None
        /\ w.result = worker[s].fetched
    BY <1>w, PassesFacts DEF StepPc
  <2>2. worker[s].fetched <= snapshot.revision /\ snapshot' = snapshot
    BY <1>3 DEF Reuses, Reusable, ShownInv, ResultIsShown, database
  <2>3. worker' = [worker EXCEPT ![s] = w]
    BY <1>3
  <2> HIDE DEF w
  <2>4. ResultIsShown(w, snapshot'.revision)
    BY <1>w, <2>1, <2>2 DEF ResultIsShown, Maybe, Revision, None
  <2>5. w.pc # "none"
    BY <2>1
  <2> QED BY <2>1, <2>3, <2>4, <2>5
<1>4. CASE Publishes(s) /\ MayPublish(worker[s])
  <2> DEFINE w == Passes(worker[s], "latest")
  <2>1. /\ w \in Worker /\ w.pc = "latest" /\ w.baseRevision = None
        /\ w.result = worker[s].fetched
    BY <1>w, PassesFacts DEF StepPc
  <2>2. worker' = [worker EXCEPT ![s] = w] /\ snapshot'.revision = worker[s].fetched
    BY <1>4 DEF Publishes
  <2>3. worker[s].fetched \in Nat
    BY OfOneRun
  <2> HIDE DEF w
  <2>4. ResultIsShown(w, snapshot'.revision)
    BY <2>1, <2>2, <2>3 DEF ResultIsShown, None
  <2>5. w.pc # "none"
    BY <2>1
  <2> QED BY <2>1, <2>2, <2>4, <2>5
<1> QED BY <1>1, <1>2, <1>3, <1>4 DEF Reuses, Publishes

\* A run that is about to be started, or is joined.
LEMMA AskedRuns ==
  ASSUME IInv, JoinsOrInserts
  PROVE  \E s \in Syncs :
           /\ \/ /\ sync[s].status \in Active
                 /\ \E n \in Nat :
                      sync' = [sync EXCEPT ![s].requestVersion = n, ![s].asked = remote]
                 /\ UNCHANGED worker
              \/ /\ sync[s].status = "absent" /\ ActiveSyncs = {}
                 /\ sync' = [sync EXCEPT ![s].status = "queued",
                                         ![s].requestVersion = 1, ![s].asked = remote]
                 /\ Goto(s, "start")
<1>1. CASE ActiveSyncs # {}
  <2> DEFINE s == Max(ActiveSyncs)
  <2>1. s \in ActiveSyncs /\ s \in Syncs
    <3>1. PICK t \in ActiveSyncs : TRUE
      BY <1>1
    <3>2. \A u \in ActiveSyncs : t >= u
      BY DEF IInv, ActiveIsUnique, ActiveSyncs, Syncs
    <3> QED BY <3>1, <3>2 DEF Max, ActiveSyncs
  <2> DEFINE n == sync[s].requestVersion + 1
  <2>2. sync' = [sync EXCEPT ![s].requestVersion = n, ![s].asked = remote]
        /\ UNCHANGED worker
    BY <1>1 DEF JoinsOrInserts
  <2> HIDE DEF s
  <2>3. n \in Nat /\ sync[s].status \in Active
    BY <2>1, OfOneRun DEF ActiveSyncs
  <2> HIDE DEF n
  <2> QED BY <2>1, <2>2, <2>3
<1>2. CASE ActiveSyncs = {}
  BY <1>2 DEF JoinsOrInserts
<1> QED BY <1>1, <1>2

LEMMA ShownNext == IInv /\ IInv' /\ ShownInv /\ [Next]_vars => ShownInv'
<1> SUFFICES ASSUME IInv, IInv', ShownInv, [Next]_vars PROVE ShownInv'
  OBVIOUS
<1>g. snapshot'.revision >= snapshot.revision /\ snapshot'.revision \in Nat
  BY SnapshotsMoveOn DEF IInv, TypeOK, Snapshot, Maybe, Revision, None
<1>1. CASE /\ UNCHANGED worker
           /\ \A t \in Syncs : cancel'[t] # "none" => cancel[t] # "none"
  <2>1. ASSUME NEW t \in Syncs PROVE ResultIsShown(worker[t], snapshot'.revision)
    BY <1>g, OfOneRun, ShownOfOthers
  <2> QED BY <1>1, <2>1 DEF ShownInv, CancelKnowsTheRun, ResultIsShown
\* One run's step, which a cancel request knows to have begun.
<1>2. ASSUME NEW s \in Syncs, NEW w \in Worker,
             worker' = [worker EXCEPT ![s] = w], w.pc # "none",
             KeepsResult(worker[s], w) \/ ResultIsShown(w, snapshot'.revision),
             \A t \in Syncs : t # s => cancel'[t] = cancel[t]
      PROVE  ShownInv'
  <2>1. ResultIsShown(w, snapshot'.revision)
    BY <1>2, <1>g, ShownOfOthers DEF KeepsResult
  <2>2. \A t \in Syncs : cancel'[t] # "none" => worker'[t].pc # "none"
    BY <1>2 DEF IInv, TypeOK, ShownInv, CancelKnowsTheRun
  <2> QED BY <1>2, <1>g, <2>1, <2>2, ShownStep
<1>3. CASE Push \/ RefreshLists \/ RefreshTracks \/ RefreshWrites \/ RefreshDies
           \/ UNCHANGED vars \/ \E s \in Syncs : CancelWrites(s)
  <2>1. UNCHANGED worker
    BY <1>3 DEF Push, RefreshLists, RefreshTracks, RefreshWrites, RefreshDies, vars,
       CancelWrites
  <2>2. UNCHANGED cancel \/ \E s \in Syncs : CancelWrites(s)
    BY <1>3 DEF Push, RefreshLists, RefreshTracks, RefreshWrites, RefreshDies, vars, others
  <2>3. \A t \in Syncs : cancel'[t] # "none" => cancel[t] # "none"
    BY <2>2 DEF CancelWrites, IInv, TypeOK
  <2> QED BY <1>1, <2>1, <2>3
<1>4. CASE Request \/ RefreshRequests
  <2>1. JoinsOrInserts /\ UNCHANGED cancel
    BY <1>4 DEF Request, RefreshRequests
  <2>2. CASE UNCHANGED worker
    BY <1>1, <2>1, <2>2
  <2>3. ASSUME NEW s \in Syncs, Goto(s, "start") PROVE ShownInv'
    <3> DEFINE w == [worker[s] EXCEPT !.pc = "start"]
    <3>1. worker[s] \in Worker
      BY OfOneRun
    <3>2. KeepsResult(worker[s], w)
      BY <3>1, GotoKeeps DEF StepPc, HasResult
    <3>3. worker' = [worker EXCEPT ![s] = w]
      BY <2>3 DEF Goto
    <3> HIDE DEF w
    <3>4. w \in Worker /\ w.pc # "none"
      BY <3>2 DEF KeepsResult
    <3> QED BY <1>2, <2>1, <3>2, <3>3, <3>4
  <2> QED BY <2>1, <2>2, <2>3, AskedRuns
<1>5. ASSUME NEW s \in Syncs, StepNext(s) \/ StartThrows(s) \/ StepFails(s) \/ CancelKills(s)
      PROVE  ShownInv'
  <2>1. \A t \in Syncs : t # s => cancel'[t] = cancel[t]
    BY <1>5 DEF StepNext, Starts, Begins, MarksRunning, ObservesRow, LoadsSnapshot,
       FetchesRevision, Reuses, DownloadsFiles, ConfirmsRevision, Publishes,
       ConfirmsLatest, EndsPass, AssignsQueues, Completes, Returns, RecordsFailure,
       IsStopped, StartThrows, StepFails, CancelKills, others, IInv, TypeOK
  <2>2. \E w \in Worker :
          /\ worker' = [worker EXCEPT ![s] = w] /\ w.pc # "none"
          /\ KeepsResult(worker[s], w) \/ ResultIsShown(w, snapshot'.revision)
    BY <1>5, StepsKeepResults, ReadsKeepResults, SnapshotStepsShow DEF StepNext, KeepsResult
  <2> QED BY <1>2, <2>1, <2>2
<1> QED BY <1>3, <1>4, <1>5 DEF Next, RefreshNext

\* What a run has for a result is shown by then, by itself or by another run.
THEOREM ResultsAreShown == Spec => []ShownInv
BY ShownInit, ShownNext, Inductive, PTL DEF Spec

\* What the abstract specification sees of the rows.
Stages == [s \in Syncs |-> Stage(sync[s].status)]
Askeds == [s \in Syncs |-> sync[s].asked]

\* The stages that the statuses stand for.
LEMMA StageFacts ==
  /\ Stage("absent") = "none" /\ Stage("queued") = "serving"
  /\ Stage("running") = "serving" /\ Stage("completed") = "served"
  /\ Stage("failed") = "given up" /\ Stage("cancelled") = "given up"
  /\ \A status \in SyncStatus : /\ Stage(status) = "serving" <=> status \in Active
                                /\ Stage(status) = "none" <=> status = "absent"
BY DEF Stage, Active, SyncStatus

\* A row that is written changes its own stage and nothing else.
LEMMA WrittenStage ==
  ASSUME IInv, NEW s \in Syncs, NEW q \in Sync, sync' = [sync EXCEPT ![s] = q]
  PROVE  /\ Stages' = [Stages EXCEPT ![s] = Stage(q.status)]
         /\ Askeds' = [Askeds EXCEPT ![s] = q.asked]
<1>1. \A t \in Syncs : sync'[t] = IF t = s THEN q ELSE sync[t]
  BY DEF IInv, TypeOK
<1>2. Stages' = [Stages EXCEPT ![s] = Stage(q.status)]
  <2>1. Stages' = [t \in Syncs |-> IF t = s THEN Stage(q.status) ELSE Stage(sync[t].status)]
    BY <1>1 DEF Stages
  <2> QED BY <2>1 DEF Stages
<1>3. Askeds' = [Askeds EXCEPT ![s] = q.asked]
  <2>1. Askeds' = [t \in Syncs |-> IF t = s THEN q.asked ELSE sync[t].asked]
    BY <1>1 DEF Askeds
  <2> QED BY <2>1 DEF Askeds
<1> QED BY <1>2, <1>3

\* The same of a row whose stage stays.
LEMMA SameStage ==
  ASSUME IInv, NEW s \in Syncs, NEW q \in Sync, sync' = [sync EXCEPT ![s] = q],
         Stage(q.status) = Stage(sync[s].status), q.asked = sync[s].asked
  PROVE  Stages' = Stages /\ Askeds' = Askeds
BY WrittenStage DEF Stages, Askeds

\* Rows that are not written.
LEMMA SameRows == UNCHANGED sync => Stages' = Stages /\ Askeds' = Askeds
BY DEF Stages, Askeds

\* The steps that write no row of a run show a newer snapshot, or nothing.
LEMMA OtherStepsServe ==
  ASSUME IInv, [Next]_vars, UNCHANGED sync
  PROVE  [Service!Next]_(Service!vars)
<1>1. Stages' = Stages /\ Askeds' = Askeds
  BY SameRows
<1>2. /\ remote \in Nat /\ remote' \in Nat
      /\ snapshot.revision \in Nat /\ snapshot'.revision \in Nat
  BY NextInv DEF IInv, TypeOK, Snapshot, Maybe, Revision, None
<1>3. CASE Push
  <2>1. remote' > remote /\ snapshot' = snapshot
    BY <1>2, <1>3 DEF Push, database
  <2>2. Service!Moves
    BY <1>1, <1>2, <2>1 DEF Service!Moves, Stages, Askeds
  <2> QED BY <2>2 DEF Service!Next
<1>4. CASE UNCHANGED remote
  <2>1. snapshot'.revision \in snapshot.revision..remote
    BY <1>2, <1>4, SnapshotsMoveOn, NextInv DEF IInv, SnapshotIsReal
  <2>2. Service!Shows
    BY <1>1, <1>4, <2>1 DEF Service!Shows, Stages, Askeds
  <2> QED BY <2>2 DEF Service!Next
<1>5. Push \/ UNCHANGED remote
  BY DEF Next, StepNext, RefreshNext, Request, RefreshLists, RefreshTracks,
     RefreshWrites, RefreshRequests, RefreshDies, Starts, Begins, MarksRunning,
     ObservesRow, LoadsSnapshot, FetchesRevision, Reuses, DownloadsFiles,
     ConfirmsRevision, Publishes, ConfirmsLatest, EndsPass, AssignsQueues, Completes,
     Returns, RecordsFailure, IsStopped, StartThrows, StepFails, CancelKills,
     CancelWrites, vars
<1> QED BY <1>3, <1>4, <1>5

\* A request joins the run that serves, or begins one while none does.
LEMMA RequestsAsk ==
  ASSUME IInv, JoinsOrInserts, UNCHANGED <<remote, snapshot>>
  PROVE  Service!Next
<1>1. PICK s \in Syncs :
        \/ /\ sync[s].status \in Active
           /\ \E n \in Nat :
                sync' = [sync EXCEPT ![s].requestVersion = n, ![s].asked = remote]
        \/ /\ sync[s].status = "absent" /\ ActiveSyncs = {}
           /\ sync' = [sync EXCEPT ![s].status = "queued",
                                   ![s].requestVersion = 1, ![s].asked = remote]
  BY AskedRuns
<1>t. sync[s] \in Sync /\ remote \in Maybe /\ sync \in [Syncs -> Sync]
  BY OfOneRun DEF IInv, TypeOK, Maybe
<1>2. PICK q \in Sync : /\ sync' = [sync EXCEPT ![s] = q]
                        /\ q.asked = remote /\ Stage(q.status) = "serving"
  <2>1. ASSUME NEW n \in Nat, sync[s].status \in Active,
               sync' = [sync EXCEPT ![s].requestVersion = n, ![s].asked = remote]
        PROVE  \E q \in Sync : /\ sync' = [sync EXCEPT ![s] = q]
                               /\ q.asked = remote /\ Stage(q.status) = "serving"
    <3> DEFINE q == [sync[s] EXCEPT !.requestVersion = n, !.asked = remote]
    <3>1. sync' = [sync EXCEPT ![s] = q]
      BY <2>1
    <3>2. q \in Sync /\ q.asked = remote /\ q.status = sync[s].status
      BY <2>1, <1>t DEF Sync
    <3>3. Stage(q.status) = "serving"
      BY <2>1, <3>2, StageFacts DEF Sync
    <3> HIDE DEF q
    <3> QED BY <3>1, <3>2, <3>3
  <2>2. ASSUME sync' = [sync EXCEPT ![s].status = "queued",
                                    ![s].requestVersion = 1, ![s].asked = remote]
        PROVE  \E q \in Sync : /\ sync' = [sync EXCEPT ![s] = q]
                               /\ q.asked = remote /\ Stage(q.status) = "serving"
    <3> DEFINE q == [sync[s] EXCEPT !.status = "queued", !.requestVersion = 1,
                                    !.asked = remote]
    <3>1. sync' = [sync EXCEPT ![s] = q]
      BY <2>2
    <3>2. q \in Sync /\ q.asked = remote /\ q.status = "queued"
      BY <1>t DEF Sync, SyncStatus, Active
    <3>3. Stage(q.status) = "serving"
      BY <3>2, StageFacts
    <3> HIDE DEF q
    <3> QED BY <3>1, <3>2, <3>3
  <2> QED BY <1>1, <2>1, <2>2
<1>3. /\ Stages' = [Stages EXCEPT ![s] = "serving"]
      /\ Askeds' = [Askeds EXCEPT ![s] = remote]
  BY <1>2, WrittenStage
<1>4. \/ Stages[s] = "serving"
      \/ Stages[s] = "none" /\ \A r \in Syncs : Stages[r] # "serving"
  <2>1. \A r \in Syncs : /\ Stages[r] = "serving" <=> r \in ActiveSyncs
                         /\ Stages[r] = "none" <=> sync[r].status = "absent"
    BY <1>t, StageFacts DEF Stages, ActiveSyncs, Sync
  <2> QED BY <1>1, <2>1 DEF ActiveSyncs
<1>5. Service!Asks(s)
  BY <1>3, <1>4 DEF Service!Asks, Service!Serving, Stages, Askeds
<1> QED BY <1>5 DEF Service!Next

\* A written row whose stage and request stay is not seen.
LEMMA SameStageStutters ==
  ASSUME IInv, NEW s \in Syncs, NEW q \in Sync, sync' = [sync EXCEPT ![s] = q],
         Stage(q.status) = Stage(sync[s].status), q.asked = sync[s].asked,
         UNCHANGED <<remote, snapshot>>
  PROVE  [Service!Next]_(Service!vars)
<1>1. Stages' = Stages /\ Askeds' = Askeds
  BY SameStage
<1> QED BY <1>1 DEF Service!vars, Stages, Askeds

\* A run that has failed, or is cancelled, is given up.
LEMMA EndingsGiveUp ==
  ASSUME IInv, NEW s \in Syncs, NEW status \in {"failed", "cancelled"},
         sync[s].status # "absent",
         sync' = [sync EXCEPT ![s].status = status],
         UNCHANGED <<remote, snapshot>>
  PROVE  [Service!Next]_(Service!vars)
<1> DEFINE q == [sync[s] EXCEPT !.status = status]
<1>1. /\ q \in Sync /\ q.asked = sync[s].asked /\ q.status = status
      /\ sync' = [sync EXCEPT ![s] = q]
  BY OfOneRun DEF Sync, SyncStatus
<1>2. Stage(q.status) = "given up"
  BY <1>1, StageFacts
<1> HIDE DEF q
<1>3. /\ Stages' = [Stages EXCEPT ![s] = Stage(q.status)]
      /\ Askeds' = [Askeds EXCEPT ![s] = q.asked]
  BY <1>1, WrittenStage, Zenon
<1>4. Askeds' = Askeds /\ Stages' = [Stages EXCEPT ![s] = "given up"]
  BY <1>1, <1>2, <1>3 DEF Askeds
<1>5. Stages[s] # "none"
  BY StageFacts, OfOneRun DEF Stages, Sync
<1>6. Service!GivesUp(s)
  BY <1>1, <1>4, <1>5 DEF Service!GivesUp, Stages, Askeds
<1> QED BY <1>6 DEF Service!Next

\* A run that completes has answered whoever joined it, and that is shown.
LEMMA CompletionsServe ==
  ASSUME IInv, ShownInv, NEW s \in Syncs, Completes(s), MayComplete(s)
  PROVE  [Service!Next]_(Service!vars)
<1> DEFINE q == [sync[s] EXCEPT !.status = "completed", !.result = worker[s].result]
<1>1. /\ q \in Sync /\ q.asked = sync[s].asked /\ q.status = "completed"
      /\ sync' = [sync EXCEPT ![s] = q] /\ UNCHANGED <<remote, snapshot>>
  BY OfOneRun DEF Completes, Sync, SyncStatus, Worker
<1> HIDE DEF q
<1>2. Stages' = [Stages EXCEPT ![s] = "served"]
  <2>1. Stages' = [Stages EXCEPT ![s] = Stage(q.status)]
    BY <1>1, WrittenStage, Zenon
  <2> QED BY <1>1, <2>1, StageFacts
<1>3. Askeds' = Askeds
  BY <1>1, WrittenStage DEF Askeds
<1>4. Stages[s] = "serving"
  BY StageFacts DEF MayComplete, Stages
<1>5. sync[s].asked <= worker[s].result /\ worker[s].result <= snapshot.revision
  BY OfOneRun DEF Completes, MayComplete, StepInv, AnswersWhoJoined, Captured, HasResult,
     ShownInv, ResultIsShown
<1>6. Askeds[s] <= snapshot.revision
  BY <1>5, OfOneRun DEF Askeds
<1>7. Service!Serves(s)
  BY <1>1, <1>2, <1>3, <1>4, <1>6 DEF Service!Serves, Stages, Askeds
<1> QED BY <1>7 DEF Service!Next

\* Every step of the code is one of the promise, or none.
LEMMA StepsServe ==
  ASSUME IInv, ShownInv, [Next]_vars
  PROVE  [Service!Next]_(Service!vars)
<1>1. CASE Request \/ RefreshRequests
  BY <1>1, RequestsAsk DEF Request, RefreshRequests
<1>2. ASSUME NEW s \in Syncs, MarksRunning(s) PROVE [Service!Next]_(Service!vars)
  <2>1. CASE UNCHANGED sync
    BY <2>1, OtherStepsServe
  <2>2. CASE sync[s].status \in Active
    <3> DEFINE q == [sync[s] EXCEPT !.status = "running"]
    <3>1. /\ q \in Sync /\ q.asked = sync[s].asked /\ q.status = "running"
          /\ sync' = [sync EXCEPT ![s] = q] /\ UNCHANGED <<remote, snapshot>>
      BY <1>2, <2>2, OfOneRun DEF MarksRunning, Sync, SyncStatus, Active
    <3>2. Stage(q.status) = Stage(sync[s].status)
      BY <2>2, <3>1, StageFacts DEF Active
    <3> HIDE DEF q
    <3> QED BY <3>1, <3>2, SameStageStutters
  <2> QED BY <1>2, <2>1, <2>2 DEF MarksRunning
<1>3. ASSUME NEW s \in Syncs, AssignsQueues(s) PROVE [Service!Next]_(Service!vars)
  <2> DEFINE q == [sync[s] EXCEPT !.queued = sync[s].requestVersion]
  <2>1. /\ q \in Sync /\ q.asked = sync[s].asked /\ q.status = sync[s].status
        /\ sync' = [sync EXCEPT ![s] = q] /\ UNCHANGED <<remote, snapshot>>
    BY <1>3, OfOneRun DEF AssignsQueues, Sync
  <2> HIDE DEF q
  <2> QED BY <2>1, SameStageStutters
<1>4. ASSUME NEW s \in Syncs, Completes(s) PROVE [Service!Next]_(Service!vars)
  <2>1. CASE MayComplete(s)
    BY <1>4, <2>1, CompletionsServe
  <2>2. CASE UNCHANGED sync
    BY <2>2, OtherStepsServe
  <2> QED BY <1>4, <2>1, <2>2 DEF Completes
<1>5. ASSUME NEW s \in Syncs, StartThrows(s) \/ RecordsFailure(s)
      PROVE  [Service!Next]_(Service!vars)
  <2>1. worker[s].pc # "none" /\ UNCHANGED <<remote, snapshot>>
    BY <1>5 DEF StartThrows, RecordsFailure
  <2>2. CASE sync' = [sync EXCEPT ![s].status = "failed"]
    BY <2>1, <2>2, OfOneRun, EndingsGiveUp
  <2>3. CASE sync' = [sync EXCEPT ![s].status = @]
    <3>1. sync' = [sync EXCEPT ![s] = sync[s]]
      BY <2>3, OfOneRun DEF Sync
    <3> QED BY <2>1, <3>1, OfOneRun, SameStageStutters
  <2> QED BY <1>5, <2>2, <2>3 DEF StartThrows, RecordsFailure
<1>6. ASSUME NEW s \in Syncs, CancelWrites(s) PROVE [Service!Next]_(Service!vars)
  <2>1. sync[s].status # "absent"
    BY <1>6, OfOneRun DEF CancelWrites, ShownInv, CancelKnowsTheRun
  <2> QED BY <1>6, <2>1, EndingsGiveUp DEF CancelWrites
<1>7. CASE UNCHANGED sync
  BY <1>7, OtherStepsServe
<1> QED BY <1>1, <1>2, <1>3, <1>4, <1>5, <1>6, <1>7 DEF Next, RefreshNext, StepNext,
     Push, RefreshLists, RefreshTracks, RefreshWrites, RefreshDies, Starts, Begins,
     ObservesRow, LoadsSnapshot, FetchesRevision, Reuses, DownloadsFiles,
     ConfirmsRevision, Publishes, ConfirmsLatest, EndsPass, Returns, IsStopped,
     StepFails, CancelKills, database, vars

\* PullRequestSync implements the promise to whoever asks: one run serves, it is done only
\* when the newest snapshot is as new as what was asked for, and what is shown never
\* goes back, whatever is cancelled, fails or is published late.
THEOREM RequestsAreServedByOneRun == Spec => ImplementsServedRequests
<1>1. Init => Service!Init
  <2> SUFFICES ASSUME Init PROVE Service!Init
    OBVIOUS
  <2>1. \A s \in Syncs : Stage(sync[s].status) = "none" /\ sync[s].asked = 0
    BY StageFacts DEF Init, None
  <2>2. remote \in Nat /\ snapshot.revision = 0
    BY DEF Init, None
  <2> QED BY <2>1, <2>2 DEF Service!Init
<1> QED BY <1>1, StepsServe, Inductive, ResultsAreShown, PTL
        DEF Spec, ImplementsServedRequests, Service!Spec

\* Whoever asks is shown a real revision, as new as what was asked for.
THEOREM RequestsAreShownRevisions == Spec => WhatIsShownServes
BY SnapshotsStayReal, RequestsAreServedByOneRun DEF WhatIsShownServes
=============================================================================
