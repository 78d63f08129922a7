---------------------- MODULE RepositoryBranchSyncProofs ----------------------
(***************************************************************************)
(* Theorems about RepositoryBranchSync, for any number of runs, heads,       *)
(* attempts, requests and faults.  Two runs may work at once, and each has     *)
(* read the newest snapshot some time ago.  The argument: whoever finds the   *)
(* version it has read still knows the newest snapshot's head, and has        *)
(* fetched the branch's head after it.                                       *)
(***************************************************************************)
EXTENDS RepositoryBranchSync, TLAPS

\* The types that the argument needs.
Typed ==
  /\ remote \in Heads
  /\ snapshot \in Snapshot
  /\ worker \in [Runs -> Worker]

\* A step that has read the newest snapshot, and one that has fetched the head too.
HasRead == {"fetch", "confirm", "signOffs", "publish"}
HasFetched == {"confirm", "signOffs", "publish"}

\* The newest snapshot is one of the branch.
SnapshotIsOfBranch ==
  /\ snapshot.version > 0 => snapshot.head # None
  /\ snapshot.head # None => snapshot.head <= remote

\* What a step has read is the newest snapshot, or one before it.
ReadIsBehind(w) ==
  w.pc \in HasRead =>
    /\ w.base \in Snapshot
    /\ w.base.version <= snapshot.version
    /\ w.base.version = snapshot.version => w.base.head = snapshot.head
    /\ w.base.head # None => w.base.head <= remote

\* What it has fetched is at least as new.
FetchedIsAhead(w) ==
  w.pc \in HasFetched =>
    /\ w.fetched \in Heads
    /\ w.fetched <= remote
    /\ w.base.head # None => w.base.head <= w.fetched

StepInv(w) == ReadIsBehind(w) /\ FetchedIsAhead(w)

Chain == Typed /\ SnapshotIsOfBranch /\ \A r \in Runs : StepInv(worker[r])

IInv == TypeOK /\ Chain

-----------------------------------------------------------------------------
(* What a step may do to the invariant.                                    *)

\* The types of one step's values.
LEMMA OfOneStep ==
  ASSUME IInv, NEW r \in Runs
  PROVE  /\ worker[r] \in Worker /\ StepInv(worker[r])
         /\ remote \in Heads /\ remote \in Nat
         /\ snapshot \in Snapshot /\ snapshot.version \in Nat
  BY DEF IInv, Chain, Typed, Heads, Snapshot

\* Only the workflow of one run moves.
LEMMA WorkerStep ==
  ASSUME IInv, NEW r \in Runs, NEW w \in Worker,
         worker' = [worker EXCEPT ![r] = w],
         StepInv(w),
         UNCHANGED <<remote, snapshot>>
  PROVE  Chain'
<1>1. Typed' /\ SnapshotIsOfBranch'
  BY DEF IInv, Chain, Typed, SnapshotIsOfBranch
<1>2. ASSUME NEW q \in Runs PROVE StepInv(worker[q])'
  <2>1. worker'[q] = IF q = r THEN w ELSE worker[q]
    BY DEF IInv, Chain, Typed
  <2>2. StepInv(worker'[q])
    BY <2>1 DEF IInv, Chain
  <2> QED BY <2>2 DEF StepInv, ReadIsBehind, FetchedIsAhead
<1> QED BY <1>1, <1>2 DEF Chain

\* It moves to a place where nothing that was read is used.
LEMMA LeavesStep ==
  ASSUME IInv, NEW r \in Runs, NEW w \in Worker,
         worker' = [worker EXCEPT ![r] = w],
         w.pc \notin HasRead,
         UNCHANGED <<remote, snapshot>>
  PROVE  Chain'
<1>1. StepInv(w)
  BY DEF StepInv, ReadIsBehind, FetchedIsAhead, HasRead, HasFetched
<1> QED BY <1>1, WorkerStep

\* The same, where only its place changes.
LEMMA LeavesByGoto ==
  ASSUME IInv, NEW r \in Runs,
         NEW pc \in {"starting", "begin", "abandoned", "complete", "catch", "tell"},
         Goto(r, pc),
         UNCHANGED <<remote, snapshot>>
  PROVE  Chain'
<1> DEFINE w == [worker[r] EXCEPT !.pc = pc]
<1>1. w \in Worker /\ w.pc \notin HasRead
  BY OfOneStep DEF Worker, InStep, HasRead
<1>2. worker' = [worker EXCEPT ![r] = w]
  BY DEF Goto
<1> HIDE DEF w
<1> QED BY <1>1, <1>2, LeavesStep

\* Nothing that the invariant speaks of changes.
LEMMA Unmoved == ASSUME IInv, UNCHANGED <<remote, snapshot, worker>> PROVE Chain'
  BY DEF IInv, Chain, Typed, SnapshotIsOfBranch, StepInv, ReadIsBehind, FetchedIsAhead

\* A workflow that is over, and the next execution of a step, have read nothing.
LEMMA RestingFacts ==
  ASSUME NEW w \in Worker
  PROVE  /\ Resting \in Worker /\ Resting.pc = "resting"
         /\ [Resting EXCEPT !.pc = "starting"] \in Worker
         /\ [Resting EXCEPT !.pc = "starting"].pc = "starting"
         /\ NextAttempt(w) \in Worker /\ NextAttempt(w).pc \in {"begin", "exhausted"}
<1> USE RepositoryBranchSyncAssumption
<1>1. Resting \in Worker /\ Resting.pc = "resting"
  BY DEF Resting, Worker, InStep, Maybe
<1> DEFINE n == IF w.attempt < MAX_ATTEMPTS THEN w.attempt + 1 ELSE w.attempt
           pc == IF w.attempt < MAX_ATTEMPTS THEN "begin" ELSE "exhausted"
<1>2. n \in 1..MAX_ATTEMPTS /\ pc \in {"begin", "exhausted"}
  BY DEF Worker
<1>3. NextAttempt(w) = [Resting EXCEPT !.pc = pc, !.attempt = n]
  BY DEF NextAttempt
<1> HIDE DEF n, pc
<1> QED BY <1>1, <1>2, <1>3 DEF Worker, InStep

-----------------------------------------------------------------------------
(* The initial states, and the steps.                                      *)

\* No step has read anything.
LEMMA InitInv == Init => IInv
<1> SUFFICES ASSUME Init PROVE IInv
  OBVIOUS
<1> USE RepositoryBranchSyncAssumption
<1>1. 1 \in Heads /\ 1 # None /\ 0 # None
  BY DEF Heads
<1>2. snapshot \in Snapshot /\ SnapshotIsOfBranch
  <2>1. snapshot = NoSnapshot \/ \E outdated \in BOOLEAN :
          snapshot = [version |-> 1, head |-> 1, base |-> 1,
                      outdated |-> outdated, signed |-> FALSE]
    BY DEF Init
  <2>2. CASE snapshot = NoSnapshot
    BY <1>1, <2>2 DEF NoSnapshot, Snapshot, Maybe, SnapshotIsOfBranch
  <2>3. ASSUME NEW outdated \in BOOLEAN,
               snapshot = [version |-> 1, head |-> 1, base |-> 1,
                           outdated |-> outdated, signed |-> FALSE]
        PROVE  snapshot \in Snapshot /\ SnapshotIsOfBranch
    BY <1>1, <2>3 DEF Init, Snapshot, Maybe, SnapshotIsOfBranch
  <2> QED BY <2>1, <2>2, <2>3
<1>4. Typed
  BY <1>1, <1>2 DEF Init, Typed, Resting, Worker, InStep, Maybe
<1>5. TypeOK
  <2>1. monitor \in Monitor
    BY <1>2 DEF Init, Monitor, Snapshot
  <2>2. run \in [Runs -> Run] /\ newer \subseteq Runs \X Runs
    <3>1. [status |-> "none", force |-> FALSE] \in Run
      BY DEF Run
    <3> QED BY <3>1 DEF Init
  <2>3. pass \in [pc: {"idle", "check", "request", "start"}, known: Maybe,
                  run: Runs \union {None}]
    BY DEF Init, IdlePass, Maybe
  <2>4. signed \in BOOLEAN
    BY DEF Init
  <2>6. forced \in 0..MaxForced /\ faults \in 0..MaxFaults
    <3>1. forced = 0 /\ faults = 0
      BY DEF Init
    <3> QED BY <3>1, RepositoryBranchSyncAssumption
  <2>5. remote \in Heads
    BY <1>1 DEF Init
  <2> QED BY <1>4, <2>1, <2>2, <2>3, <2>4, <2>5, <2>6 DEF TypeOK, Typed
<1>3. ASSUME NEW r \in Runs PROVE StepInv(worker[r])
  <2>1. worker[r].pc = "resting"
    BY DEF Init, Resting
  <2> QED BY <2>1 DEF StepInv, ReadIsBehind, FetchedIsAhead, HasRead, HasFetched
<1> QED BY <1>2, <1>3, <1>4, <1>5 DEF IInv, Chain

\* A request joins a run, at most taking over its start, or inserts one.
LEMMA RequestsInv ==
  ASSUME IInv, NEW r \in Runs, NEW force \in BOOLEAN, Requests(r, force),
         UNCHANGED <<remote, snapshot>>
  PROVE  Chain'
<1>1. CASE Joins(r)
  <2>1. CASE worker[r].pc = "abandoned"
    <3>1. Goto(r, "starting")
      BY <1>1, <2>1 DEF Joins, Goto
    <3> QED BY <3>1, LeavesByGoto
  <2>2. CASE worker[r].pc # "abandoned"
    BY <1>1, <2>2, Unmoved DEF Joins
  <2> QED BY <2>1, <2>2
<1>2. CASE Inserts(r, force)
  <2> DEFINE w == [Resting EXCEPT !.pc = "starting"]
  <2>1. w \in Worker /\ w.pc \notin HasRead
    BY OfOneStep, RestingFacts DEF HasRead
  <2>2. worker' = [worker EXCEPT ![r] = w]
    BY <1>2 DEF Inserts
  <2> HIDE DEF w
  <2> QED BY <2>1, <2>2, LeavesStep
<1> QED BY <1>1, <1>2 DEF Requests

\* The steps after which nothing that was read is used.
LEMMA LeavingInv ==
  ASSUME IInv, NEW r \in Runs,
         \/ Starts(r) \/ StartThrows(r) \/ StarterDies(r) \/ Completes(r)
         \/ StepThrows(r) \/ CatchesRun(r) \/ CatchTellsMonitor(r) \/ WorkerDies(r)
         \/ RecordsTerminalFailure(r)
  PROVE  Chain'
<1> USE DEF rows, outside, bounds
<1>1. CASE Starts(r)
  BY <1>1, LeavesByGoto DEF Starts
<1>2. CASE StarterDies(r)
  BY <1>2, LeavesByGoto DEF StarterDies
<1>3. CASE StepThrows(r)
  BY <1>3, LeavesByGoto DEF StepThrows
<1>4. CASE CatchesRun(r)
  BY <1>4, LeavesByGoto DEF CatchesRun
<1>5. CASE StartThrows(r) \/ Completes(r) \/ RecordsTerminalFailure(r)
  <2>1. Resting \in Worker /\ Resting.pc \notin HasRead
    BY OfOneStep, RestingFacts DEF HasRead
  <2>2. worker' = [worker EXCEPT ![r] = Resting] /\ UNCHANGED <<remote, snapshot>>
    BY <1>5 DEF StartThrows, Completes, RecordsTerminalFailure
  <2> QED BY <2>1, <2>2, LeavesStep
<1>6. CASE CatchTellsMonitor(r) \/ WorkerDies(r)
  <2> DEFINE w == NextAttempt(worker[r])
  <2>1. w \in Worker /\ w.pc \notin HasRead
    BY OfOneStep, RestingFacts DEF HasRead
  <2>2. worker' = [worker EXCEPT ![r] = w] /\ UNCHANGED <<remote, snapshot>>
    BY <1>6 DEF CatchTellsMonitor, WorkerDies
  <2> HIDE DEF w
  <2> QED BY <2>1, <2>2, LeavesStep
<1> QED BY <1>1, <1>2, <1>3, <1>4, <1>5, <1>6

\* The steps that read the monitor, the snapshot, the branch and the sign-offs.
LEMMA ReadingInv ==
  ASSUME IInv, NEW r \in Runs,
         Begins(r) \/ ReadsSnapshot(r) \/ FetchesHead(r) \/ ConfirmsHead(r) \/ ReadsSignOffs(r)
  PROVE  Chain'
<1> USE DEF rows, outside, bounds
<1>w. worker[r] \in Worker /\ StepInv(worker[r]) /\ snapshot \in Snapshot /\ remote \in Heads
      /\ remote \in Nat /\ snapshot.version \in Nat
  BY OfOneStep
<1>1. CASE Begins(r)
  <2> DEFINE w == [worker[r] EXCEPT !.pc = "load", !.known = monitor.head]
  <2>1. w \in Worker /\ w.pc \notin HasRead
    BY <1>w DEF IInv, TypeOK, Monitor, Worker, InStep, HasRead
  <2>2. worker' = [worker EXCEPT ![r] = w]
    BY <1>1 DEF Begins
  <2> HIDE DEF w
  <2> QED BY <1>1, <2>1, <2>2, LeavesStep DEF Begins
<1>2. CASE ReadsSnapshot(r)
  <2> DEFINE w == [worker[r] EXCEPT !.pc = "fetch", !.base = snapshot]
  <2>1. w \in Worker /\ w.pc = "fetch" /\ w.base = snapshot
    BY <1>w DEF Worker, InStep
  <2>2. worker' = [worker EXCEPT ![r] = w]
    BY <1>2 DEF ReadsSnapshot
  <2> HIDE DEF w
  <2>3. StepInv(w)
    BY <1>w, <2>1 DEF IInv, Chain, SnapshotIsOfBranch, StepInv, ReadIsBehind,
       FetchedIsAhead, HasRead, HasFetched
  <2> QED BY <1>2, <2>1, <2>2, <2>3, WorkerStep DEF ReadsSnapshot
<1>3. CASE FetchesHead(r)
  <2>1. CASE IsUnchanged(r) /\ Goto(r, "complete")
    BY <1>3, <2>1, LeavesByGoto DEF FetchesHead
  <2>2. CASE worker' = [worker EXCEPT ![r].pc = "confirm", ![r].fetched = remote]
    <3> DEFINE w == [worker[r] EXCEPT !.pc = "confirm", !.fetched = remote]
    <3>1. w \in Worker /\ w.pc = "confirm" /\ w.base = worker[r].base /\ w.fetched = remote
      BY <1>w DEF Worker, InStep, Maybe
    <3>2. worker' = [worker EXCEPT ![r] = w]
      BY <2>2
    <3> HIDE DEF w
    <3>3. StepInv(w)
      BY <1>3, <1>w, <3>1 DEF FetchesHead, StepInv, ReadIsBehind, FetchedIsAhead, HasRead,
         HasFetched
    <3> QED BY <1>3, <3>1, <3>2, <3>3, WorkerStep DEF FetchesHead
  <2> QED BY <1>3, <2>1, <2>2 DEF FetchesHead
<1>4. CASE ConfirmsHead(r)
  <2>1. CASE worker[r].fetched = remote
    <3> DEFINE w == [worker[r] EXCEPT !.pc = "signOffs"]
    <3>1. w \in Worker /\ w.pc = "signOffs" /\ w.base = worker[r].base
          /\ w.fetched = worker[r].fetched
      BY <1>w DEF Worker, InStep
    <3>2. worker' = [worker EXCEPT ![r] = w]
      BY <1>4, <2>1 DEF ConfirmsHead, Goto
    <3> HIDE DEF w
    <3>3. StepInv(w)
      BY <1>4, <1>w, <3>1 DEF ConfirmsHead, StepInv, ReadIsBehind, FetchedIsAhead, HasRead,
         HasFetched
    <3> QED BY <1>4, <3>1, <3>2, <3>3, WorkerStep DEF ConfirmsHead
  <2>2. CASE worker[r].fetched # remote
    BY <1>4, <2>2, LeavesByGoto DEF ConfirmsHead
  <2> QED BY <2>1, <2>2
<1>5. CASE ReadsSignOffs(r)
  <2> DEFINE signs == worker[r].base.version = snapshot.version /\ snapshot.signed
             w == [worker[r] EXCEPT !.pc = "publish", !.signed = signs]
  <2>1. signs \in BOOLEAN
    BY <1>w DEF Snapshot
  <2>2. worker' = [worker EXCEPT ![r] = w]
    BY <1>5 DEF ReadsSignOffs
  <2> HIDE DEF signs
  <2>3. w \in Worker /\ w.pc = "publish" /\ w.base = worker[r].base
        /\ w.fetched = worker[r].fetched
    BY <1>w, <2>1 DEF Worker, InStep
  <2> HIDE DEF w
  <2>4. StepInv(w)
    BY <1>5, <1>w, <2>3 DEF ReadsSignOffs, StepInv, ReadIsBehind, FetchedIsAhead, HasRead,
       HasFetched
  <2> QED BY <1>5, <2>2, <2>3, <2>4, WorkerStep DEF ReadsSignOffs
<1> QED BY <1>1, <1>2, <1>3, <1>4, <1>5

\* What a publication writes, and from which state.
LEMMA WhatIsPublished ==
  ASSUME IInv, NEW r \in Runs, Publishes(r), snapshot' # snapshot
  PROVE  LET w == worker[r] IN
         /\ w.pc = "publish"
         /\ snapshot.version = w.base.version
         /\ snapshot' = [version |-> snapshot.version + 1, head |-> w.fetched,
                         base |-> IF w.base.head = None THEN w.fetched ELSE w.base.head,
                         outdated |-> FALSE, signed |-> w.signed]
         /\ monitor' = [head |-> w.fetched, due |-> FALSE, error |-> FALSE]
         /\ Goto(r, "complete")
  BY DEF Publishes, rows, SnapshotReplaced

\* A publication moves the version, so that everybody else is behind it.
LEMMA PublishesInv == ASSUME IInv, NEW r \in Runs, Publishes(r) PROVE Chain'
<1>w. worker[r] \in Worker /\ StepInv(worker[r]) /\ snapshot \in Snapshot /\ remote \in Heads
      /\ remote \in Nat /\ snapshot.version \in Nat /\ UNCHANGED remote
  BY OfOneStep DEF Publishes, outside
<1>1. CASE snapshot' = snapshot
  <2>1. Goto(r, "catch") \/ Goto(r, "complete")
    BY DEF Publishes
  <2> QED BY <1>w, <1>1, <2>1, LeavesByGoto
<1>2. CASE snapshot' # snapshot
  <2> DEFINE n == snapshot.version + 1
             base == IF worker[r].base.head = None THEN worker[r].fetched
                     ELSE worker[r].base.head
             w == [worker[r] EXCEPT !.pc = "complete"]
  <2>1. /\ snapshot' = [version |-> n, head |-> worker[r].fetched, base |-> base,
                        outdated |-> FALSE, signed |-> worker[r].signed]
        /\ worker' = [worker EXCEPT ![r] = w]
        /\ worker[r].pc = "publish"
    BY <1>2, WhatIsPublished DEF Goto
  <2>2. /\ worker[r].fetched \in Heads /\ worker[r].fetched <= remote
        /\ worker[r].base \in Snapshot
    BY <1>w, <2>1 DEF StepInv, ReadIsBehind, FetchedIsAhead, HasRead, HasFetched
  <2>3. base \in Maybe /\ worker[r].fetched \in Maybe /\ worker[r].signed \in BOOLEAN
    BY <1>w, <2>2 DEF Snapshot, Maybe, Worker
  <2>4. n \in Nat /\ n > snapshot.version
    BY <1>w
  <2>5. w \in Worker /\ w.pc = "complete"
    BY <1>w DEF Worker, InStep
  <2> HIDE DEF n, base, w
  <2>6. snapshot' \in Snapshot /\ snapshot'.version = n /\ snapshot'.head = worker[r].fetched
    BY <2>1, <2>3, <2>4 DEF Snapshot
  <2>7. Typed'
    BY <1>w, <2>1, <2>5, <2>6 DEF IInv, Chain, Typed
  <2>8. SnapshotIsOfBranch'
    BY <1>w, <2>2, <2>6, RepositoryBranchSyncAssumption DEF SnapshotIsOfBranch, Heads
  <2>9. ASSUME NEW q \in Runs PROVE StepInv(worker[q])'
    <3>1. CASE q = r
      <4>1. worker'[q].pc = "complete"
        BY <2>1, <2>5, <3>1 DEF IInv, Chain, Typed
      <4> QED BY <4>1 DEF StepInv, ReadIsBehind, FetchedIsAhead, HasRead, HasFetched
    <3>2. CASE q # r
      <4>1. worker'[q] = worker[q]
        BY <2>1, <3>2 DEF IInv, Chain, Typed
      <4>2. StepInv(worker[q])
        BY OfOneStep
      <4>3. worker[q].pc \in HasRead => worker[q].base.version \in Nat
        BY <4>2 DEF StepInv, ReadIsBehind, Snapshot
      <4> QED BY <1>w, <2>4, <2>6, <4>1, <4>2, <4>3 DEF StepInv, ReadIsBehind, FetchedIsAhead
    <3> QED BY <3>1, <3>2
  <2> QED BY <2>7, <2>8, <2>9 DEF Chain
<1> QED BY <1>1, <1>2

\* A push, a sign-off, and the passes that request.
LEMMA OutsideInv ==
  ASSUME IInv,
         \/ UserRequests \/ Push \/ BecomesDue \/ SignsOff
         \/ PassNext \/ PassFails \/ PassEndsEarly
  PROVE  Chain'
<1> USE DEF rows, bounds
<1>1. CASE UserRequests
  BY <1>1, RequestsInv DEF UserRequests
<1>2. CASE PassRequests
  BY <1>2, RequestsInv DEF PassRequests
<1>3. CASE BecomesDue \/ PassReads \/ PassChecks \/ PassFails \/ PassEndsEarly
  BY <1>3, Unmoved DEF BecomesDue, PassReads, PassChecks, PassFails, PassEndsEarly
<1>4. CASE Push
  <2>1. /\ remote' \in Heads /\ remote < remote' /\ remote \in Nat /\ remote' \in Nat
        /\ UNCHANGED <<snapshot, worker>>
    BY <1>4, RepositoryBranchSyncAssumption DEF Push, IInv, Chain, Typed, Heads
  <2>2. Typed'
    BY <2>1 DEF IInv, Chain, Typed
  <2>3. snapshot.head \in Maybe
    BY DEF IInv, Chain, Typed, Snapshot
  <2>4. SnapshotIsOfBranch'
    BY <2>1, <2>3 DEF IInv, Chain, SnapshotIsOfBranch, Maybe, Heads
  <2>5. ASSUME NEW r \in Runs PROVE StepInv(worker[r])'
    <3>1. StepInv(worker[r])
      BY OfOneStep
    <3> QED BY <2>1, <3>1 DEF StepInv, ReadIsBehind, FetchedIsAhead, Snapshot, Maybe, Heads
  <2> QED BY <2>2, <2>4, <2>5 DEF Chain
<1>5. CASE SignsOff
  <2>1. /\ snapshot' \in Snapshot /\ snapshot'.version = snapshot.version
        /\ snapshot'.head = snapshot.head /\ UNCHANGED <<remote, worker>>
    BY <1>5 DEF SignsOff, IInv, Chain, Typed, Snapshot
  <2> QED BY <2>1 DEF IInv, Chain, Typed, SnapshotIsOfBranch, StepInv, ReadIsBehind,
             FetchedIsAhead
<1> QED BY <1>1, <1>2, <1>3, <1>4, <1>5 DEF PassNext

\* What the monitor is written to.
LEMMA MonitorTyped ==
  ASSUME IInv, [Next]_vars
  PROVE  monitor' \in Monitor
<1>1. CASE \E r \in Runs : Publishes(r)
  <2>1. PICK r \in Runs : Publishes(r)
    BY <1>1
  <2>2. worker[r].pc = "publish" => worker[r].fetched \in Heads
    BY OfOneStep DEF StepInv, FetchedIsAhead, HasFetched
  <2>3. \/ monitor' = monitor
        \/ /\ worker[r].pc = "publish"
           /\ monitor' = [head |-> worker[r].fetched, due |-> FALSE, error |-> FALSE]
    BY <2>1 DEF Publishes, rows
  <2>4. worker[r].fetched \in Heads
          => [head |-> worker[r].fetched, due |-> FALSE, error |-> FALSE] \in Monitor
    BY DEF Monitor, Maybe
  <2> QED BY <2>2, <2>3, <2>4 DEF IInv, TypeOK
<1>2. CASE monitor' = monitor \/ \E due, error \in BOOLEAN :
             monitor' = [monitor EXCEPT !.due = due, !.error = error]
  BY <1>2 DEF IInv, TypeOK, Monitor
<1>3. CASE \E r \in Runs : StepNext(r) /\ ~Publishes(r)
  BY <1>3, <1>2 DEF StepNext, Starts, Begins, ReadsSnapshot, FetchesHead, ConfirmsHead,
     ReadsSignOffs, Completes, CatchesRun, CatchTellsMonitor, RecordsTerminalFailure,
     rows, outside
<1>4. CASE \E r \in Runs : StartThrows(r) \/ StarterDies(r) \/ StepThrows(r) \/ WorkerDies(r)
  BY <1>4, <1>2 DEF StartThrows, StarterDies, StepThrows, WorkerDies, rows
<1>5. CASE PassNext \/ PassFails \/ PassEndsEarly \/ UserRequests \/ Push \/ SignsOff
  BY <1>5, <1>2 DEF PassNext, PassReads, PassChecks, PassRequests, PassFails,
     PassEndsEarly, UserRequests, Push, SignsOff, rows
<1>6. CASE BecomesDue
  BY <1>6 DEF BecomesDue, IInv, TypeOK, Monitor
<1>7. CASE UNCHANGED vars
  BY <1>7, <1>2 DEF vars
<1> QED BY <1>1, <1>3, <1>4, <1>5, <1>6, <1>7 DEF Next

\* The rows of the runs, and the order in which they were created.
LEMMA RunsTyped ==
  ASSUME IInv, [Next]_vars
  PROVE  run' \in [Runs -> Run] /\ newer' \subseteq Runs \X Runs
<1> USE DEF rows, bounds, outside
<1>t. run \in [Runs -> Run] /\ newer \subseteq Runs \X Runs
  BY DEF IInv, TypeOK
<1>1. ASSUME NEW r \in Runs, NEW status \in {"running", "completed", "failed"},
             run' = run \/ Writes(r, status), UNCHANGED newer
      PROVE  run' \in [Runs -> Run] /\ newer' \subseteq Runs \X Runs
  BY <1>t, <1>1 DEF Writes, Run, Active
<1>2. ASSUME NEW r \in Runs, NEW force \in BOOLEAN, Requests(r, force)
      PROVE  run' \in [Runs -> Run] /\ newer' \subseteq Runs \X Runs
  <2>1. CASE Joins(r)
    BY <1>t, <2>1 DEF Joins
  <2>2. CASE Inserts(r, force)
    <3>1. [status |-> "queued", force |-> force] \in Run
      BY DEF Run, Active
    <3>2. run' \in [Runs -> Run]
      BY <1>t, <2>2, <3>1 DEF Inserts
    <3>3. newer' \subseteq newer \union ({r} \X Runs)
      BY <2>2 DEF Inserts
    <3> QED BY <1>t, <3>2, <3>3
  <2> QED BY <1>2, <2>1, <2>2 DEF Requests
<1>3. CASE UserRequests \/ PassRequests
  BY <1>2, <1>3 DEF UserRequests, PassRequests
<1>4. ASSUME NEW r \in Runs,
             StepNext(r) \/ StartThrows(r) \/ StarterDies(r) \/ StepThrows(r) \/ WorkerDies(r)
      PROVE  run' \in [Runs -> Run] /\ newer' \subseteq Runs \X Runs
  <2>1. CASE StartThrows(r)
    BY <1>t, <2>1 DEF StartThrows, Run
  <2>2. CASE Begins(r) \/ Completes(r) \/ CatchesRun(r) \/ RecordsTerminalFailure(r)
    BY <1>1, <2>2 DEF Begins, Completes, CatchesRun, RecordsTerminalFailure
  <2>3. CASE \/ Starts(r) \/ ReadsSnapshot(r) \/ FetchesHead(r) \/ ConfirmsHead(r)
             \/ ReadsSignOffs(r) \/ Publishes(r) \/ CatchTellsMonitor(r)
             \/ StarterDies(r) \/ StepThrows(r) \/ WorkerDies(r)
    BY <1>t, <2>3 DEF Starts, ReadsSnapshot, FetchesHead, ConfirmsHead, ReadsSignOffs,
       Publishes, CatchTellsMonitor, StarterDies, StepThrows, WorkerDies
  <2> QED BY <1>4, <2>1, <2>2, <2>3 DEF StepNext
<1>5. CASE \/ Push \/ BecomesDue \/ SignsOff \/ PassReads \/ PassChecks
           \/ PassFails \/ PassEndsEarly \/ UNCHANGED vars
  BY <1>t, <1>5 DEF Push, BecomesDue, SignsOff, PassReads, PassChecks, PassFails,
     PassEndsEarly, vars
<1> QED BY <1>3, <1>4, <1>5 DEF Next, PassNext

\* The pass, the history of the reviewer, and what is spent of the bounds.
LEMMA OutsideTyped ==
  ASSUME IInv, [Next]_vars
  PROVE  /\ pass' \in [pc: {"idle", "check", "request", "start"}, known: Maybe,
                       run: Runs \union {None}]
         /\ signed' \in BOOLEAN
         /\ forced' \in 0..MaxForced /\ faults' \in 0..MaxFaults
<1> DEFINE Pass == [pc: {"idle", "check", "request", "start"}, known: Maybe,
                    run: Runs \union {None}]
           Safe == pass' \in Pass /\ signed' \in BOOLEAN
                   /\ forced' \in 0..MaxForced /\ faults' \in 0..MaxFaults
<1> USE DEF rows, bounds, outside
<1>t. /\ pass \in Pass /\ signed \in BOOLEAN /\ monitor.head \in Maybe
      /\ forced \in 0..MaxForced /\ faults \in 0..MaxFaults /\ IdlePass \in Pass
  BY DEF IInv, TypeOK, Monitor, IdlePass, Maybe
<1>a. MaxForced \in Nat /\ MaxFaults \in Nat
  BY RepositoryBranchSyncAssumption
<1>1. CASE UserRequests
  BY <1>t, <1>a, <1>1 DEF UserRequests
<1>2. CASE PassRequests
  BY <1>t, <1>2 DEF PassRequests
<1>3. CASE PassReads \/ PassChecks
  <2>1. [pc |-> "check", known |-> monitor.head, run |-> None] \in Pass
    BY <1>t
  <2> QED BY <1>t, <1>3, <2>1 DEF PassReads, PassChecks
<1>4. CASE PassFails \/ PassEndsEarly
  BY <1>t, <1>a, <1>4 DEF PassFails, PassEndsEarly, Fault
<1>5. CASE Push \/ BecomesDue \/ SignsOff \/ UNCHANGED vars
  BY <1>t, <1>5 DEF Push, BecomesDue, SignsOff, vars
<1>6. ASSUME NEW r \in Runs,
             Starts(r) \/ StartThrows(r) \/ StarterDies(r) \/ StepThrows(r) \/ WorkerDies(r)
      PROVE  Safe
  BY <1>t, <1>a, <1>6
     DEF Starts, StartThrows, StarterDies, StepThrows, WorkerDies, PassIsTold, Fault
<1>7. ASSUME NEW r \in Runs, StepNext(r), ~Starts(r)
      PROVE  UNCHANGED <<pass, signed, forced, faults>>
  BY <1>7 DEF StepNext, Begins, ReadsSnapshot, FetchesHead, ConfirmsHead, ReadsSignOffs,
     Publishes, Completes, CatchesRun, CatchTellsMonitor, RecordsTerminalFailure
<1> QED BY <1>t, <1>1, <1>2, <1>3, <1>4, <1>5, <1>6, <1>7 DEF Next, PassNext

\* Types are kept, those of the step's values together with the chain.
LEMMA TypeStep == ASSUME IInv, [Next]_vars, Chain' PROVE TypeOK'
BY MonitorTyped, RunsTyped, OutsideTyped DEF TypeOK, Chain, Typed

\* Every step, and stuttering.
LEMMA NextInv == IInv /\ [Next]_vars => IInv'
<1> SUFFICES ASSUME IInv, [Next]_vars PROVE Chain'
  BY TypeStep DEF IInv
<1>1. CASE UserRequests \/ Push \/ BecomesDue \/ SignsOff \/ PassNext \/ PassFails
             \/ PassEndsEarly
  BY <1>1, OutsideInv
<1>2. ASSUME NEW r \in Runs,
             StepNext(r) \/ StartThrows(r) \/ StarterDies(r) \/ StepThrows(r) \/ WorkerDies(r)
      PROVE  Chain'
  BY <1>2, LeavingInv, ReadingInv, PublishesInv DEF StepNext
<1>3. CASE UNCHANGED vars
  BY <1>3, Unmoved DEF vars
<1> QED BY <1>1, <1>2, <1>3 DEF Next

-----------------------------------------------------------------------------
(* Theorems                                                                *)

\* What the steps have read is the newest snapshot or behind it, and what they have
\* fetched is ahead of what they have read, in every reachable state.
THEOREM Inductive == Spec => []IInv
BY InitInv, NextInv, PTL DEF Spec

\* Every variable keeps its type; in particular no step is executed more often than
\* the runtime allows.
THEOREM TypeCorrect == Spec => []TypeOK
<1>1. IInv => TypeOK
  BY DEF IInv
<1> QED BY <1>1, Inductive, PTL

\* Whatever runs work at once and are executed again, every snapshot of the branch
\* follows the one before it, and none goes back.
THEOREM ChainIsKept == Spec => SnapshotsFormAChain
<1> DEFINE Follows ==
      snapshot'.version # snapshot.version
        => /\ snapshot'.version = snapshot.version + 1
           /\ snapshot.version > 0
                => snapshot'.base = snapshot.head /\ snapshot'.head >= snapshot.head
<1>1. ASSUME IInv, [Next]_vars PROVE Follows
  <2>1. CASE \E r \in Runs : Publishes(r) /\ snapshot' # snapshot
    <3>1. PICK r \in Runs : Publishes(r) /\ snapshot' # snapshot
      BY <2>1
    <3> DEFINE w == worker[r]
    <3>2. /\ w.pc = "publish" /\ snapshot.version = w.base.version
          /\ snapshot'.version = snapshot.version + 1 /\ snapshot'.head = w.fetched
          /\ snapshot'.base = IF w.base.head = None THEN w.fetched ELSE w.base.head
      BY <1>1, <3>1, WhatIsPublished
    <3>3. /\ w.base.head = snapshot.head
          /\ w.base.head # None => w.base.head <= w.fetched
          /\ w.fetched \in Heads /\ snapshot.head \in Maybe
          /\ snapshot.version > 0 => snapshot.head # None
      BY <1>1, <3>1, <3>2, OfOneStep DEF StepInv, ReadIsBehind, FetchedIsAhead, HasRead,
         HasFetched, IInv, Chain, SnapshotIsOfBranch, Snapshot
    <3> HIDE DEF w
    <3> QED BY <3>2, <3>3 DEF Maybe, Heads
  <2>2. CASE snapshot'.version = snapshot.version
    BY <2>2
  <2>3. \/ \E r \in Runs : Publishes(r) /\ snapshot' # snapshot
        \/ snapshot'.version = snapshot.version
    <3>1. CASE SignsOff
      BY <1>1, <3>1 DEF SignsOff, IInv, Chain, Typed, Snapshot
    <3>2. CASE UNCHANGED snapshot
      BY <3>2
    <3>3. (\E r \in Runs : Publishes(r)) \/ SignsOff \/ UNCHANGED snapshot
      BY <1>1 DEF Next, UserRequests, Push, BecomesDue, PassNext, PassReads, PassChecks,
         PassRequests, PassFails, PassEndsEarly, StepNext, Starts, Begins, ReadsSnapshot,
         FetchesHead, ConfirmsHead, ReadsSignOffs, Completes, CatchesRun,
         CatchTellsMonitor, RecordsTerminalFailure, StartThrows, StarterDies, StepThrows,
         WorkerDies, rows, outside, vars
    <3> QED BY <3>1, <3>2, <3>3
  <2> QED BY <2>1, <2>2, <2>3
<1> QED BY <1>1, Inductive, PTL DEF Spec, SnapshotsFormAChain
=============================================================================
