# Open Review Duck: a verification project

TLA+ models of the durable workflows of Open Review Duck, checked with TLC, and
theorems about them proved with TLAPS.  Paths are relative to the repository.

## 1. The system

Open Review Duck is a code review application: a Next.js server over one
PostgreSQL database, code hosting providers (GitHub, GitLab, Bitbucket, ...)
behind REST clients, an AI provider, a store of source blobs, and a *durable
workflow runtime* that executes the functions marked `"use workflow"` as a
sequence of journaled steps.  A step whose worker dies is replayed from its
start; a step that has returned is never run again.

All protocol state is in rows of the database.  No process keeps any, and
transactions are short, so that the hard behaviour lies *between* transactions:
a request, a workflow step, a cancel request, a webhook and a timer work on the
same rows, and each may die between any two statements.

| Component | State it keeps | Operations | What must hold |
|---|---|---|---|
| Durable start (`workflows/start-reservation.ts`, `run-link.ts`, `service.ts`) | token, lease and run id on the target row | reserve, start, link, compensate | one run per target; a dead starter blocks nobody |
| AI job (`ai/agent-loop.ts`, `workflows/ai-job.ts`, `ai/service.ts`) | status, result, usage, settlement of a row of `aiJobs`; quota in `aiUsage` | turns, accept, fail, settle, cancel | charge once, never too much; a result is final; a cancel stops |
| Deep review (`workflows/pull-request-review.ts`, `review/deep/*`) | parent job, child jobs, coverage items, dedupe checkpoint | seal, turns in lanes, survey, dedupe, finalize, cancel | coverage closes once and honestly; the tree is charged once, for what its calls have counted |
| Pull request sync (`workflows/sync-pull-request.ts`, `sync/service.ts`) | sync run with a request version, snapshots | request, passes, publish, complete, fail | no request is lost; published snapshots move forward |
| Branch monitors (`repo-reviews/*`, `workflows/repository-branch-sync.ts`) | monitor, its snapshots and runs | pass over the monitors, request, step, terminal failure | snapshots form a chain; the monitor catches up |
| Intake and webhooks (`providers/intake*.ts`, `webhook-pull-request.ts`, `pull-request-state.ts`, `review/queue*.ts`) | the pull request's row, deliveries, the queue item | deliver, refresh, take in, assign, remove, restore | an accepted event has its effect; the queue follows its owner |
| Sign-off and waiting (`review/sign-off.ts`, `waiting.ts`, `sync/persist-snapshot-analysis.ts`) | sign-offs and waits per unit and snapshot | sign off, undo, reset, wait, release, carry over | an approval stands with its code, once; what was undone stays undone |
| Comment publication (`review/publish-comment.ts`, `comments.ts`) | the comment's row with its lease, conversations at the provider | publish, retry, delete | one conversation per row, and per finding |
| Provider credentials (`providers/user-credentials.ts`) | the row of tokens, the grant at the provider | connect, renew, disconnect | a one-time token is used once; the row shows its grant; what is reported revoked is dead |
| Source blobs (`storage/source-blobs.ts`) and retention (`sync/retention.ts`) | blob rows with leases, the object store, referencing rows | persist, read, prune | a referenced blob is readable; garbage is collected |
| Evaluations (`workflows/evaluation.ts`, `evaluations/execute.ts`, router) | runs and per-case results | start, execute case, complete, fail, cancel, grade | one active run; completed means every case has a result |
| Static analysis, prompts, finding text, UI | none that outlives a call | | pure data |

Components interact through rows (the job's token and status, the sync run's
request version, snapshot references to blobs), through `start` and `cancel` of
the workflow runtime, and through advisory locks (`ai-tree`, `<repository>:<number>`,
`repository-branch:<monitor>`, `review-signoffs:<pull request>:<user>`,
`user-oauth-refresh:<credential>`, `sync-workflow:<repository>:<number>`, ...).


The behaviours that are hard to test, each at its line, are the `hazards` of
`PROJECT.json`; each names the properties that would catch it going wrong.

## 2. The modules

| Module | Models | Refers to |
|---|---|---|
| `OneRunPerTarget` | abstract: a target adopts one run, once, and only that run works | |
| `WorkflowStart` | the lease, start, link and compensation of one AI job, and the fence of its runs | implements `OneRunPerTarget` |
| `AiLimits` | the limit of turns that `WorkflowStart` and `AiJob` share | |
| `OneCharge` | abstract: calls use tokens, and one settlement charges no more than was used by then | |
| `AiJob` | turns, terminal writes, usage, settlement and cancel of one explanation or question job | implements `OneCharge`; takes from `WorkflowStart` that the job has one run |
| `DeepReview` | the tree of jobs and coverage items of one deep review, its lanes, closers and charge | same |
| `ServedRequests` | abstract: one run serves whoever asks, and is done when what is shown is as new as what was asked for | |
| `PullRequestSync` | the runs, snapshots and the row of one pull request, its requests, cancels and refresh | implements `ServedRequests`; takes a start as something that succeeds or fails |
| `SourceBlobs` | the row and the object of one content digest: calls that persist it, pruning, references, checks | takes a synchronization as something that references the row or never does |
| `RepositoryBranchSync` | one monitored branch: passes, requests, the durable step, and a reviewer who signs off | takes from `WorkflowStart` that a start succeeds, fails or is abandoned |
| `PullRequestIntake` | one pull request's row, its deliveries, refresh and intake, and the owner's queue item | takes from `PullRequestSync` that one run is active and reads what the provider has |
| `SignOff` | sign-offs and waits of one reviewer, and the publications that carry them over | takes from `PullRequestSync` that publications are one after another |
| `CommentPublication` | one comment, the requests that publish it and its conversations at the provider | |
| `ProviderCredentials` | one reviewer's credential, the grants behind it and the requests that renew it | |
| `DurableWorkProofs` | theorems about `WorkflowStart`, `AiJob` and `PullRequestIntake`, in three parts | extends all three |
| `DeepReviewProofs`, `PullRequestSyncProofs`, `SourceBlobsProofs`, `RepositoryBranchSyncProofs`, `SignOffProofs`, `CommentPublicationProofs`, `ProviderCredentialsProofs` | theorems about these seven | each extends its module |
| `MC*` | the small instances that the `.cfg` files check | |

The modules compose by assumption and guarantee.  `WorkflowStart` establishes
that a target has one working run, whatever starters, leases and deaths do; the
other modules begin with one run that is about to link, and so need not carry
the states of `WorkflowStart` along.  Its conclusions are proved (section 4), so that
what the others build on holds for any number of requests and runs.  In the same way
`PullRequestSync` guarantees one active run whose snapshots move forward, and
`PullRequestIntake` and `SignOff` begin there: the first adds who asks for runs and who
else writes the row, the second what a publication does to approvals.
`RepositoryBranchSync` has both sides in one module, since its runs are not one at a time.

A common reading of the code: *every transaction, and every single statement
outside one, is an action; whatever a step has read before is a local value that
may be stale by then.*  Two neighbouring actions are merged only when nothing
that another process does can be told apart in between, and a comment in the
module says so.  A replay of a durable step starts from the step's beginning with
what it held in memory gone; the rows, and the results of steps that returned,
stay.

### 2.1 `WorkflowStart`

| State | In the code |
|---|---|
| `status`, `token`, `lease`, `linkedRun` | `aiJobs.status`, `workflowStartToken`, `workflowStartLeaseExpiresAt` (null, ahead, past), the run behind `workflowRunId` |
| `caller` | a request inside `establishReservedWorkflow` |
| `run` | a run of `aiJobWorkflow`, with the token it was started with |

`ReserveFindsLink`, `ReserveClaims` and `ReserveRefused` are the three ways out of
the reservation transaction.  `StartRun` and `StartThrows` are `start()`, which may
throw and still have created a run (`ProviderCreates`).  `LinkStarted`, `FailStart`
and `FailStartedJob` finish the request.  `EnsureLink` is the link transaction, used
by the request and by every step of a run.  The `Run*` actions are the statements of
`executeDurableAiTurn` and of the turn that change the row, with its catch block.
Time is only `LeaseExpires`.  A target is an AI job; the two other kinds of target
run the same functions, with other columns.

### 2.2 `AiJob`

`job` is the row of `aiJobs` (status, timestamps, result, usage, `quotaSettledAt`),
`charged` what settlements have added to `aiUsage`, `step` the step in flight with
its local values, `cancel` the cancel requests, `paid` a history of what the calls
have cost.  A turn reads the job (`TurnReads`), writes *running* (`TurnAnnounces`),
asks whether it was cancelled (`TurnStopsShort`, `TurnCallsModel`), calls
(`ModelAnswers`, `CallThrows`), writes *streaming* (`TurnStreams`), counts its usage
(`TurnCountsUsage`) and accepts, fails or leaves the rest to the next turn.  `TurnThrows`
is a throw anywhere else, also behind the answer and before the count, and goes to the
catch of `executeDurableAiTurn`; `lost` is a history of what no count has reached, because
the call threw or the turn did.  The last step has no catch and nothing catches for the
catch: there a throw is `StepCrashes`, for the runtime executes the step again.
`StepAccepts`, `StepFails`, `StepReadsTotal` and `StepSettles` are the terminal
writes and the one-shot settlement.  The four actions of a cancel request are its
statements, so that the request itself may be overtaken.

### 2.3 `DeepReview`

`parent` is the review's job, `items` and `child` the coverage item and job of every
agent (the files and the survey), `counted` the children's usage, `dedupe` the
checkpoint, `main` the workflow body with its journaled results, `agent` the turns.
The seal step links (`LinkRun`), looks for a plan under the plan's own lock (`SealPlan`),
commits one (`CreatePlan`), inserts the survey's item (`AddSurveyItem`) and returns; the lanes are `Lane` and `MayTakeTurn`; a turn reads, calls, counts and
closes; `DedupeFindings`, `SaveDedupe` and `PersistDedupe` are the three parts of the
merge; `FinalizeTree` is the transaction that sweeps the items, rolls the usage up
and writes the terminal state.

The closers of the tree (`closeItem`, finalize, a cancel request) take one lock, so that a
transaction of theirs would be one action, were it not for the seal step: neither the plan
nor the survey's item is written under that lock.  The two transactions of a cancel request
therefore show each statement (`CancelClosesTree`, `CancelClosesItems`; `CancelSweeps`,
`CancelReadsCoverage`, `CancelFinalizes`), `closing` is what it has locked and read, and
everybody who takes the lock waits (`TreeLocked`).  The run's own finalize comes behind its
own seal step and stays one action.

Usage that no count reaches is `lost`: of calls that throw or time out, of a plan, look
or validation that fails, of an answer whose messages or count cannot be written
(`TurnFails`, `Uncounted`), and of a dedupe call that throws.

### 2.4 `PullRequestSync`

A revision (head and base) is a number that grows with every push.  `row` is the
revision in `pullRequests`, `snapshot` the newest row of `reviewSnapshots` with the
revision that its files were really downloaded at, `sync` the rows of `syncRuns`,
`worker` the durable step of each with its local values, `refresh` the pass of
`refreshRepositoryPullRequestStates`.  `JoinsOrInserts` is the reservation;
`Begins` to `Completes` are the statements of `executeSynchronization` and of the
`syncPullRequest` it calls; the two concurrent reads of a pass come in either order.
`Throws` is any failure: the runtime executes the step again until its attempts are
used up, and `RecordsFailure` is the catch of the workflow function.

The refresh models the list and the tracked rows, which are read concurrently, and
the unconditional write of the row.  `RefreshWrites` may write although the revision
agrees, because another column may differ.

### 2.5 `SourceBlobs`

`row` is the row of `sourceBlobs` for the digest, `store` the objects, `refs` the
snapshots (one for each call's caller) whose files reference the row, `call` the calls
of `persistSourceBlob` with the row that each has read, `prune` the jobs of
`pruneOrphanSourceBlobs` with what their claiming transaction has copied, `check` a pass
of `reviewSnapshotSourcesAvailable`.  A call reads (`Prefetches`, `ReadsRow`), doubts
(`Probes`, `Touches`), claims (`ClaimsReady`, `Inserts`, `ClaimsAbandoned`), waits
(`Polls`, `GivesUp`) and uploads (`Puts` to `Fails`); its caller `References` the row, and
`DropsReference` is retention.  A job claims, confirms, deletes the object, then the row.

Time is the age of the row since its last update, in the four classes that the code
tells apart; `Tick` moves it on.  The only assumption about durations is
`WithinTheHour`: nobody spends an hour between a claim and its end, or between a
returned row and its transaction.  An upload may outlive its lease of four minutes at any
point.  `kind` chooses between keys that derive from the content (`storage/local.ts`)
and keys that belong to the upload lease (`storage/uploadthing.ts`).

### 2.6 `RepositoryBranchSync`

`monitor`, `snapshot` and `run` are the rows of `repositoryBranchMonitors`,
`reviewSnapshots` (the newest) and `repositoryBranchSyncRuns`; `newer` is their
`createdAt`; `worker` the workflow of each run with what its step has read; `pass` the
pass of `reconcileRepositoryBranchMonitors`.  `Requests` is the reservation: it joins the
latest active run (`Joins`) or inserts one (`Inserts`).  `Begins` to `Completes` are the
statements of `executeRepositoryBranchSync` and of the `syncRepositoryBranch` it calls.
Its catch block writes the run (`CatchesRun`) and the monitor (`CatchTellsMonitor`)
before the runtime executes the step again (`NextAttempt`), so that a failed run may come
back beside its successor.  `SignsOff` is `persistSignOffs` for a unit that no push
changes.  A run whose workflow has rested lends its row to a later one, so that liveness
does not rest on a bound.

### 2.7 `PullRequestIntake`

`remote` is the pull request at the provider, `row` its row, `mail` the provider's events
with their rows of `webhookDeliveries`, `sync` the newest run in outline, `pass` the
periodic refresh and the intake behind it, `item` the queue item, `assigning` the
transaction of `assignPullRequestToQueue` between its read and its write, `wish` what
the owner last asked for.  A delivery is claimed (`Receives`), handled (`Applies`) and
answered (`Answers`, `Fails`); it may come twice, late or out of order.  The names of its
state predicates and of its specification begin with `Intake`, since it shares a module of
theorems with two others.  The synchronization reads the provider, publishes or reuses, and assigns; `Adds`, `Removes`
and `Restores` are the owner's procedures.

### 2.8 `SignOff`

A unit is a stable key in one snapshot, `snapshots` their codes, `signOffs` and `waits`
the active rows, `publication` the publishing transaction with what it has read, `work`
the transaction of every tab between its locks and its writes.  `Meaning` says which codes
share a semantic hash, so that formatting carries over and a change does not.
`StartSignOff` resolves the shown units in the newest snapshot and `CommitSignOff`
writes; `StartUnreview` and `StartReset` collect the rows of a decision over the lineage
of snapshots, `CommitUndo` invalidates them; `BeginPublish` reads what it will carry,
`CommitPublish` writes the snapshot and the carried rows, whose instant has lost its
microseconds (`Truncated`).

### 2.9 `CommentPublication`

`rows` are the comment's rows with status, lease and the conversation they name,
`threads` the conversations at the provider with the marker of the row that posted them,
`request` the calls of `publishReviewComment`, `late` the posts whose caller has given up
and which the provider may still apply.  A call finds or leases the row (`Asks`,
`Claims`, `ClaimsNothing`, `Rereads`, `Inserts`), looks for the conversation a retry may
have opened (`Lists`), posts (`Posts`, `PostFails`) and records (`Records`, `Fails`).
Whether the provider honours idempotency keys is chosen at the start.  `Ages` is the five
minutes after which a lease may be taken over.

### 2.10 `ProviderCredentials`

`row` is the row of `userProviderCredentials`, `grants` the grants at the provider with
their kind (`github_user`, `oauth` of GitLab, `pat`) and the generation of their tokens: a
renewal ends the tokens before it.  A request that
finds the token expired (`ReadsExpired`) waits for the credential's lock and reads again
(`Locks`), presents the refresh token (`Rotates`, `IsRefused`, `LosesAnswer`) and writes
by the row's id (`Writes`).  `Connects` saves a grant; a disconnection reads
(`StartsDisconnect`), presents the access token (`RevokesAccess`), for GitLab the refresh
token too (`RevokesRefresh`), and deletes the row (`DeletesRow`).  That a provider ends the
whole grant with any live token of it, and answers "unknown" for a token that has run out or
been replaced, is taken from the providers and marked external; whether it still knows an
access token that has run out is a choice (`EndsByAccess`).

## 3. What the runs check

| Run | Instance | States | Shows |
|---|---|---|---|
| `workflow_start` | 2 requests, 3 runs, 2 faults, 1 failing link, 1 turn | 122 000 | one run is adopted and works; nobody waits for ever |
| `ai_job` | 2 turns, prices 1 and 2, 2 cancel requests, 2 deaths | 636 000 | charged once and not too much; a cancel stops the run |
| `deep_review` | 2 files and the survey, 2 lanes, 2 turns each, 1 cancel request, 1 fault, late or not, or 1 lost token | 650 000 | coverage, children and charge stay consistent |
| `pull_request_sync` | 2 revisions, 2 runs, 1 further request, refresh, 1 fault, 1 cancel, 2 attempts of 2 passes | 102 000 | no request is lost, snapshots move forward, every run ends |
| `repository_branch_sync` | 2 run rows, 2 heads, 2 attempts, 1 forced request, 1 fault | 781 000 | snapshots form a chain, the monitor catches up |
| `repository_branch_sign_off` | same | | finding 2 |
| `pull_request_intake` | modes `manual` and `all`, 2 revisions, 2 deliveries, 3 upsets | 1 247 000 | an accepted event has its effect, the queue follows its owner |
| `sign_off` | 2 tabs, 1 key of 3 codes, 3 snapshots, 2 revisions, 2 decisions, 3 requests | 330 000 | an approval stands once, with its code; an undone one stays undone |
| `sign_off_undo` | same | | finding 1 |
| `comment_publication` | comments of both kinds, 2 callers, 2 rows, 1 deletion, 2 faults | 121 000 | one conversation per row and per finding, and asking again publishes |
| `provider_credentials` | 2 callers, 3 grants, 2 expiries, 2 faults | 4 848 000 | a one-time token is used once, a disconnection revokes |
| `source_blobs` | 2 calls, 1 pruning job, both kinds of store, 2 faults | 102 000 | row, object and references agree; an orphan is collected |

Each property is stated in words above its definition.  The ones that say most:

- `LatecomersOnlyFail` is three promises about whoever comes late, and the worst of it is
  a failure.  `CompletedStands`: a completed job stays completed.
  `FailedStartSparesOthers`: the compensation of a start that threw first writes a job that
  no run has worked on, although a start may throw and still create its run; by its second
  write, which asks only whether the job is completed or cancelled, that run may have begun,
  and its work is failed under it (section 5), but no other request's run is met.
  `FencedRunNeverWrites`: a run writes the status of a job only with the job's token; the one
  way around the fence is the catch block of a turn whose link transaction failed, and it
  writes only a failure.
- `LinkIsUnique`, `ImplementsOneRun`: although a starter may die or be slow at any point,
  two runs never work on one job, and every request names the run that does.
- `OutcomeStands`, `UsageIsCharged`: the settlement is bounded by what the calls cost.
  Without a crash or a cancel request it comes to that, less what was used by a call that
  threw or whose count did: nothing else is forgotten, and a job that completes is charged
  in full (a review may have such a loss in any of its files).
- `JobIsPaidOnce` contains `JobImplementsOneCharge`, `ClosersAgree` contains
  `ReviewImplementsOneCharge`: whoever settles, and however often a step is replayed or a
  cancel request repeated, the month is charged once; and no call is begun for a job whose
  row says cancelled (`NoPaidCallAfterCancel`).
- `CoverageIsConsistent`, `ClosersAgree`: run, cancel request and late turns close one
  tree, and its summary stays that of its items, also when the cancel request closes the
  tree between the statements of the seal step.  That such a request leaves the tree closed
  (`CancelClosesTheReview`) is promised only when the seal step is behind its writes.  Part of it is that the number of items
  which finalize asserts is right for every plan whose step did not die behind its last write.
- `OneRunServesEveryRequest`: a completed synchronization also answers the request that
  joined it last.
- `WhatIsShownServes` is two promises.  `ImplementsServedRequests` is the same seen from
  outside: the run completes only when the *newest snapshot*, whoever published it, is as
  new as what was asked for, and a run that was given up is never taken up again by a step
  in flight.
- Its other part `SnapshotsAreRevisions`, and `SnapshotsFormAChain`: although the step of a cancelled run, or
  of a run that was taken for failed, publishes beside its successor, the newest snapshot
  shows one revision and never an older one than before.
- `AcceptedUpdateIsShown`, `EndIsShown`: what the provider was told is accepted is in a
  snapshot or on its way, and a pull request that ended is not shown open for good.
- `ApprovalsStandWithTheCode`, `TakenBackStays`: an approval is neither lost nor doubled
  nor moved to other code by a publication that overtakes it.
- `OneConversation`, `PublishedIsFinal`: a row, and a finding of a review over all the rows
  it ever had, gets two conversations only from a provider that ignores the key *and* a
  retry that overlapped a slow post.  A reviewer's own comment is one row only as long as
  two calls do not insert one each (section 5).
- `OneTimeTokensAreUsedOnce`: a refresh token is presented again only if the answer to
  the first time was never stored.
- `DisconnectRevokesTheGrant`: a grant that was reported as revoked is dead, whatever
  renewals, lost answers and reconnections ran beside the disconnection, with the exceptions
  that the code leaves: one renewed or replaced meanwhile, one whose tokens had been lost,
  and a GitHub grant whose access token had run out.
- `RowsNameTheObjects`, `VerifiedReferencesStay`: no clean-up, of a writer that lost its
  lease or of pruning, takes an object that a ready row names or a verified reference
  needs.

**Bounds.**  Two of each actor give every pair of interleavings; the third run in
`WorkflowStart` is the one that a second fault makes necessary, so that two
superseded runs meet.  Two turns are a first turn, whose tools continue the loop, and
a last one.  Two files are the fewest that run beside each other and give a partial
result, and the survey is a third agent.  Two revisions are an older and a newer one;
two requests instead of one, without a fault or with one and a single attempt, were
checked once and found nothing else.  Three codes are the original, one that means the
same and one that does not, and three snapshots let code change and change back; three
grants are one that is renewed, one that replaces it and one that follows a
disconnection.  Tokens that a review's calls lose are counted against the bound of its
faults, and what the calls of one turn use is one number; three upsets are an event, an error and a wish of the owner.  The bounds on faults, crashes and requests are guards of the actions that they
count.

`CHECK_DEADLOCK FALSE` is in every configuration since every one of these protocols
ends: the job is terminal, the run has returned, and nothing is left to do.

**Fairness.**  Weak fairness of the steps of a run: the workflow runtime replays a
step whose worker died and schedules the next one, which is its contract.  Weak
fairness of a request once it has begun, that is of a process that is not killed
(`WorkflowStart` and `RepositoryBranchSync` have an action that kills it).  Weak fairness
of the clock where a lease or an interval waits for it (`LeaseExpires`, `Ages`,
`BecomesDue`, `Tick`).  Of periodic work: pruning, the passes over the monitors (the
maintenance job), and the passes of the refresh and the intake while a signed-in reviewer
keeps a page open (the interval in `components/app-shell.tsx`).  In
`CommentPublication` a reviewer keeps asking, which is what its liveness is about.  No
fairness for pushes, deliveries, faults, deaths or the wishes of users.

The liveness results are `StartsFinish`, `CancelStopsTheRun`, `CancelClosesTheReview`,
`SynchronizationEnds`, `MonitorCatchesUp`, `EndIsShown`, `AskingAgainPublishes` and
`OrphansAreCollected`; the last one uses besides strong fairness of the end of a wait,
which has a deadline of thirty seconds.

## 4. What is proved

The first part of `DurableWorkProofs` is about `WorkflowStart`, for any set of requests and runs, any number of turns
and of faults, from `WorkflowStartAssumption` (the null run is not a run, the bounds
are naturals) alone:

| Theorem | States |
|---|---|
| `TypeCorrect` | `Spec => []TypeOK` |
| `Invariance` | `Spec => []IInv` |
| `OneWorker` | `Spec => []OnlyTheLinkedRunWorks` |
| `OneAnswer` | `Spec => []RequestsAgree` |
| `NoConflict` | `Spec => []LinkNeverConflicts` |
| `UniqueLink` | `Spec => []LinkIsUnique`, the three before it together |
| `OnlyFailedLinksPassTheFence` | `Spec => FencedRunNeverWrites` |
| `LateInductive` | `Spec => [](IInv /\ LateIInv)` |
| `ResultsSurvive` | `Spec => CompletedStands` |
| `FailedStartsFailTheirOwn` | `Spec => FailedStartSparesOthers` |
| `LatecomersFailAtMost` | `Spec => LatecomersOnlyFail` |
| `Refinement` | `Spec => ImplementsOneRun` |

The properties are not inductive: from a state in which two runs carry the current
token both could link and work.  `IInv` says why that never comes to be.  Tokens
count the claims (`TokensInOrder`), so that a new one is larger than any in use; a
token belongs to one request (`OneClaimPerToken`) and to one run, which exists only
once that request has started it (`OneRunPerToken`); a request about to link knows
that run (`RequestKnowsItsRun`).  The fence compares tokens, hence whoever passes it
presents the run of the current token, and the link, once made, holds the run of the
current token (`LinkHoldsToken`) and stops all claims; so that what a request has
returned and what works is the linked run (`LinkIsShared`).  `CatchAfterFence` is
what `OnlyFailedLinksPassTheFence` needs besides: until a link transaction has failed, a run
in its catch block has been linked, so that a failed link is the only way by which a
superseded run writes the status of a job that another run owns.
The other two need `LateIInv`: the first write of a turn is made with the link, and ends
the queue for good (`WorkLeavesQueue`), so that a request that finds its start failed, and
the job still in the queue, finds it untouched; whoever has worked is the linked run
(`WorkIsLinked`), and between its two writes such a request still holds the token
(`FailedClaimIsHeld`), so that what it meets is the run of its own start; and a job is
completed only by a turn of the linked run, which then closes (`CompletedIsClosed`).

The second part of `DurableWorkProofs`, about `AiJob`, from `AiJobAssumption`, for any
number of cancel requests, turns and crashes, and any prices of calls:

| Theorem | Establishes |
|---|---|
| `JobInductive` | `JobSpec => []JobIInv` |
| `JobTypeCorrect` | `JobSpec => []JobTypeOK` |
| `OutcomeAndPriceStand` | `JobSpec => []OutcomeStands` |
| `CancelStopsPaying` | `JobSpec => NoPaidCallAfterCancel` |
| `JobChargesOnce` | `JobSpec => JobImplementsOneCharge` |
| `JobsArePaidOnce` | `JobSpec => JobIsPaidOnce` |

What the calls have cost is in the row's counters, in the step that is about to count
it, or lost with a call or turn that threw or a worker that died, and the settlement takes the counters once
(`CountersAreCovered`).  That nothing but such a throw loses anything unless somebody
interferes is a statement
about a whole run: `StatusFollowsStep` and `PriceFollowsStep` say for each place of the
step what the row must show there, as long as there has been no crash and no cancel
(`Undisturbed`), and disturbances are never undone.  `JobChargesOnce` maps each call to
`Use`, each settlement that finds the job unsettled to `Settle`, and every other step to
a stutter; that a settlement takes no more than what was used is `CountersAreCovered` again.

The third part is about `PullRequestIntake`, from `PullRequestIntakeAssumption`, for any
number of revisions, deliveries, passes and upsets, and both modes:

| Theorem | Establishes |
|---|---|
| `IntakeInductive` | `IntakeSpec => []IntakeIInv` |
| `IntakeTypeCorrect` | `IntakeSpec => []IntakeTypeOK` |
| `AcceptedUpdatesAreShown` | `IntakeSpec => []AcceptedUpdateIsShown` |
| `QueueDoesAsAsked` | `IntakeSpec => []QueueFollowsTheOwner` |

Whether an accepted event has its effect depends on what is under way: the row, the
newest snapshot, a run that has fetched or has still to fetch, a pass that has listed.  None
of them is ever ahead of the provider (`NothingIsAhead`), and what a run or a pass holds goes
with the place it is in (`SyncGoesWithStep`, `PassGoesWithStep`).  An event that was answered
is then in the snapshot, or in a run that will fetch after it, or was overtaken in one of the
ways that the property names (`EventsAreFollowed`).  The queue item is the other half: there
is one only with a row, and an assignment only of a step that waits for it
(`PlaceIsOfTheRow`); a removal is known to whoever could assign again, for they hold the
revision that it remembers (`RemovalIsKnown`); and an addition is done, or a run is on its
way that carries the wish and cannot complete without it (`AdditionIsUnderWay`).

`DeepReviewProofs`, from `DeepReviewAssumption`, for any number of files, lanes, turns,
cancel requests and faults, and any prices of calls:

| Theorem | Establishes |
|---|---|
| `Inductive` | `Spec => []IInv` |
| `TypeCorrect` | `Spec => []TypeOK` |
| `CoverageStaysConsistent` | `Spec => []CoverageIsConsistent` |
| `UsageIsChargedInFull` | `Spec => []UsageIsCharged` |
| `FirstCloserWins` | `Spec => CoverageIsFinal /\ SettlementSeesTheTree` |
| `ReviewChargesOnce` | `Spec => ReviewImplementsOneCharge` |
| `ClosersRespectEachOther` | `Spec => ClosersAgree` |

Those who close files and the tree do so under one lock, which each of them holds for one
transaction; the seal step writes without it.  So the proof is of single statements:
`RequestsHoldTheTree` says that what a cancel request has read of the tree still holds when
it writes (the children it closes are live, the items it sweeps selected, and the state it
commits is that of the items it leaves, but for the survey's), and `PlanIsNew` that a plan
about to be committed finds no rows, whoever has closed the tree since it was read.
`Coverage` is the order that is left: a plan, once read, is
that of the items (`PlanIsRead`), replays of the seal step included; whoever passes a
stage has waited for its agents (`StagesAreWaitedFor`); and an agent that is done has
closed its item and its child (`AgentsCloseTheirItems`).  Hence the sweep of a run without
a failure finds nothing left over (`LeftoversHaveACause`), and the state that finalize has
written stays that of the items, but for the survey's item that a replay adds behind a
cancellation (`SurveyIsLate`).  `PlanSealsOnce` says that the count which the seal step
carries is that of the items, as long as no step has died behind its last write.

The account is about all agents at once.  `PaidIsCounted` says that there are prefix sums
of what the agents have yet to count, and that these, what is counted, what the dedupe
step owes and what throws have lost come to what was paid, or to less after a fault.  `SurveyRests` is needed for
it: a survey that started over while its call was out would lose its usage without a
fault.  `UndisturbedStages` says, as in `AiJob`, what an undisturbed run shows in each
place.  `FirstCloserWins` needs besides that a request which is behind its
finalize finds the run settled (`RequestsSettle`).  `ReviewChargesOnce` is the refinement:
run and cancel requests settle in three places, each of which charges what is counted by
then, or nothing if `settled` is set, and what is counted is never more than what was used.

`PullRequestSyncProofs`, from `PullRequestSyncAssumption`, for any number of revisions,
runs, requests, attempts, passes and faults:

| Theorem | Establishes |
|---|---|
| `Inductive` | `Spec => []IInv` |
| `TypeCorrect` | `Spec => []TypeOK` |
| `RequestsAreServed` | `Spec => []OneRunServesEveryRequest` |
| `SnapshotsStayReal` | `Spec => SnapshotsAreRevisions` |
| `ResultsAreShown` | `Spec => []ShownInv` |
| `RequestsAreServedByOneRun` | `Spec => ImplementsServedRequests` |
| `RequestsAreShownRevisions` | `Spec => WhatIsShownServes` |

A completed run serves its requests only if the revision it ends with is as new as the
last of them, and nothing in a completed row says so: the invariant ties the request
version that a pass captured to what it fetched afterwards (`AnswersWhoJoined`).  A
snapshot is a real revision because a download is bracketed by two reads of the
provider's head (`FilesAreFetched`), and is not replaced by an older one because a
publication compares the version that it read *before* it fetched (`BaseIsBehind`).
`RowGoesWithStep` and `ActiveIsUnique` are the row's side of it.

The refinement needs more than the row's result: that this result is *shown*.  `ShownInv`
has it for a snapshot that the pass published, for one that it reused, and for one that
another run has replaced since, because the newest snapshot only moves on
(`SnapshotsMoveOn`).  A publication is then a step of `ServedRequests` that shows more,
a completion one that serves, a failed start, an exhausted step and a cancel request are
steps that give up (also a run that had completed, which `cancelSync` overwrites), and
everything else that a run does is a stutter.

`RepositoryBranchSyncProofs`, from `RepositoryBranchSyncAssumption`:

| Theorem | Establishes |
|---|---|
| `Inductive` | `Spec => []IInv` |
| `TypeCorrect` | `Spec => []TypeOK` |
| `ChainIsKept` | `Spec => SnapshotsFormAChain` |

Two runs of one monitor may work at once, so the argument uses no exclusion between them:
whoever still finds the version that it has read knows the newest head (`ReadIsBehind`),
and has fetched the branch after it (`FetchedIsAhead`).

`ProviderCredentialsProofs`, from `ProviderCredentialsAssumption`:

| Theorem | Establishes |
|---|---|
| `Inductive` | `Spec => []IInv` |
| `TypeCorrect` | `Spec => []TypeOK` |
| `TokensAreUsedOnce` | `Spec => []OneTimeTokensAreUsedOnce` |
| `RowShowsTheLatestGrant` | `Spec => []RowIsTheLatestGrant` |
| `DisconnectRevokes` | `Spec => []DisconnectRevokesTheGrant` |

The advisory lock is of a row's id, while tokens belong to a grant.  `OneRenewal` says
that the two come to the same: no two renewals are of one row or of one grant, and the
renewal of the grant that the row shows is of that row.  With it, a spent token that the
row still shows is either lost for good or about to be replaced by the one request that
holds the successor (`SpentTokensAreReplaced`); `GenerationsAreCounted` makes successors
distinct from what has been spent.  `RowIsCurrent` and `DisconnectKnowsTheGrant` carry
this to a disconnection, which presents the tokens it has read: the access token is current
or the grant was renewed, replaced or lost, so that the provider ends the grant with it, or
it had run out, and then a GitLab grant still has its refresh token (`KindsAreKnown`).

`CommentPublicationProofs`, from `CommentPublicationAssumption`:

| Theorem | Establishes |
|---|---|
| `Inductive` | `Spec => [](IInv /\ Holders)` |
| `TypeCorrect` | `Spec => []TypeOK` |
| `OneConversationPerComment` | `Spec => []OneConversation` |
| `PublishedStays` | `Spec => PublishedIsFinal` |

A conversation comes from a request about to post, or from a post whose caller has given
up, and may be there already.  Unless a retry ran while an older attempt could still post
(`overlapped`), these are at most one for a row (`OneSource`): the claim excludes a second
request, and the listing before a post excludes a conversation that is there.  A provider
that honours the key needs none of that (`KeysAreHonoured`).  Over several rows the argument
is about deletion: a finding has one row that is not deleted (`RowsMatch`), and for a row
that is published or deleted nobody can still open a conversation (`OneHolder`), so that the
deleted rows have none that lives.

`SourceBlobsProofs`, from `SourceBlobsAssumption`:

| Theorem | Establishes |
|---|---|
| `Inductive` | `Spec => []IInv` |
| `TypeCorrect` | `Spec => []TypeOK` |
| `RowsAndObjectsAgree` | `Spec => []RowsNameTheObjects` |
| `NothingIsDeletedUnderAReference` | `Spec => VerifiedReferencesStay` |

There is no lock between the calls that persist a blob and the pruning: only the row's
state, its token and its hour.  As long as no row has been dated back while someone relied
on that hour (`rushed`), calls at work keep the row young and out of the pruning
(`WorkersHoldTheRow`), a pruning job under way owns it alone (`PrunersOwnTheRow`), and a
row that a call has verified is left alone until the reference is there
(`VerifiedIsKept`).  `ObjectsAreThere` follows each of them through the store.

`SignOffProofs`, from `SignOffAssumption`, for any number of tabs, units, snapshots and
decisions:

| Theorem | Establishes |
|---|---|
| `Inductive` | `Spec => []IInv` |
| `TypeCorrect` | `Spec => []TypeOK` |
| `ApprovalsStand` | `Spec => []ApprovalsStandWithTheCode` |
| `TakenBackForGood` | `Spec => []TakenBackStays` |

What a transaction has read must still say which rows it may write when it writes them.
The reviewer's lock keeps a second sign-off or undo away (`LockIsHeldOnce`), the shared
side of the publication lock keeps a publication away from a sign-off
(`SignOffsAreResolved`).  An undo and a publication do meet, and `PublicationIsRight` is
what is left then: what the publication is about to insert is what it would read now, but
for what was taken back meanwhile.  `ApprovalsStandWithTheCode` asks for some approval of
the newest code; the invariant needs that it is the same decision that reached it, or that
somebody has withdrawn it (`DecisionsAreShown`).

`WorkflowStart`, `AiJob` and `PullRequestIntake` meet in one module of theorems, which is
why the latter two name their specifications `JobSpec` and `IntakeSpec` and the limit of
turns is a module of its own.

The proofs have one lemma for each action that disturbs the invariant, and under it
one step for each conjunct.  Each `IInv` has been checked by TLC on the instances
of section 3.

Every invariant and action property of the runs that pass, and each of the four
refinements, is the statement of a theorem.  Model-checked only: the liveness properties of
all modules, which the prover's reach excludes; and the two properties of section 5,
which do not hold.

## 5. Findings

Each is the one property of a run in which TLC finds it violated.

1. `UndoTakesBackTheDecision` (`sync/persist-snapshot-analysis.ts:316`).  A carried
   sign-off has lost the microseconds of its instant, by which undo recognizes the rows of
   one decision: undoing it in the new snapshot leaves the original active.
2. `SignOffIsCarriedOrFollows` (`repo-reviews/sync.ts:606`).  A branch synchronization
   publishes under another lock than sign-offs share, from sign-offs that it read before
   its transaction: one given in between stays on the superseded snapshot.

Seen while modelling.  The models have these behaviours, and the properties are stated so
that they say exactly what holds beside them.

*Starts and jobs.*  A superseded run whose link transaction fails marks the job failed
before it asks whose the job is (`workflows/ai-job.ts:58`): the newer run, which owns the job
by then, finds it terminal and stops.  `workflows/start-reservation.ts:82` says that the token
"fences a delayed older workflow before it performs application work";
`FencedRunNeverWrites` without its second disjunct is violated by the instance of
`workflow_start`, and holds with `MaxLinkFaults = 0`.  A worker that dies between
`failAiJob`'s status and its settlement leaves a failed job that no replay settles
(`ai/agent-loop.ts:647`).  A turn that read the job before a cancel request wrote it
announces itself over `cancelled` (`ai/agent-loop.ts:113`).  A start that threw although the
run was created is compensated in two writes; when the run has begun between them, the second
(`workflows/service.ts:400`, through `failAiJob`) writes `failed` over a job that is running.
The usage of a call is lost when its worker dies before counting it, when the call throws or
times out, and when the turn throws behind the answer, as it does when the streaming write or
a message cannot be stored (`ai/agent-loop.ts:518`): the catch then fails and settles the job
with counters that do not have it.

*Deep review.*  A seal step replayed after it inserted the survey item counts the survey
twice: `readSealedPlan` reads the item back, `sealDeepReviewPlan` adds 1 for the survey again
(`workflows/pull-request-review.ts:219`), and the review fails over its own denominator
(`review/deep/finalize.ts:336`), although `plan.ts:211` has a replayed step "seal nothing
twice".  `DenominatorCoversTheItems` is violated there by the instance of `deep_review`, which
is why `PlanSealedOnceIsCovered` asks for it only without such a death.  A cancel request between the plan
and the survey item leaves that item `selected` for ever
(`workflows/pull-request-review.ts:208`).  The plan is written under a lock of its own
(`review/deep/plan.ts:443`) and the survey's item under none, although `cancel.ts:42` has
"one writer per tree": a cancel request whose finalize commits between the plan's read and
its commit leaves a killed run whose parent the plan has marked running, without a terminal
state and with its items selected; and one whose finalize sees the survey's item added
between its sweep and its read throws.  `CancelClosesTheReview` is stated for requests that
come when the seal step is behind its writes.  Usage is lost without a crash: by an answer
whose messages or count cannot be written (`review/deep/file-agent.ts:670`), by calls that
throw and are retried or given up (`:427`), by pre-scans, validations and a dedupe call that
fail and are treated as no answer (`:992`, `dedupe.ts:578`).  A review whose finalize fails is settled from a
parent that no roll-up has reached.

*Synchronization and intake.*  A refresh that listed the provider before a push puts an
older revision back into the row, and runs then refuse to reuse their own snapshot
(`providers/pull-request-state.ts:182`); one that dies between the row and the
synchronization it owes leaves a revision that looks known.  A delivery whose handler
died stays `received`, and the provider's next attempt is answered as a duplicate.  A
close that is delivered after the reopening closes the row, which in manual mode nothing
reopens until the next event or refresh by hand.  An assignment that has read the queue
item undoes a removal; an automatic request replaces an explicit one of the same user and
run.

*Branch monitors.*  The catch block marks a run failed before the runtime executes it
again, so that two runs may work on one monitor (the chain of snapshots holds all the
same); a forced step replayed after its commit publishes the same head twice; a forced
request that joins a run which is not forced loses its force; after a deployment with a
newer analysis an unchanged head is downloaded and analysed but not published
(`repo-reviews/sync.ts:453` and `:625` disagree).

*Sign-off.*  Undo takes no publication lock, so that a publication which has read the
row carries it on; signing off checks the waits of carried successors only, so that a
single unit or a batch shown in the newest snapshot is signed off although it waits.

*Comments and credentials.*  Two requests that find no row of a reviewer's own comment insert
one each, and post a conversation each, with any provider and without any retry
(`review/publish-comment.ts:159`; the unique index is of a review's findings alone).  Of a
GitHub grant only the access token is presented for revocation, and the answer 404 counts as
success (`providers/github-app-authorization.ts:310`): once the access token has run out, the
grant is reported as revoked while its refresh token can still be exchanged.  A grant connected during a renewal is overwritten by
the renewal of the old one, `refreshVersion` being counted and never compared; a renewal
whose answer is lost leaves a spent token in the row.

*Source blobs.*  A ready row older than an hour is returned on the strength of an earlier
verification without being renewed; pruning may claim it before the caller's transaction
references it, deletes the object under the reference, and only then meets the foreign key
(`storage/source-blobs.ts:164`).  Two calls that find the same object missing may restore it
one after the other.  With keys of the upload lease, the object of a writer that died is
lost to pruning as soon as another claim overwrites `customId`.  A row that is referenced
while it is being deleted stays `deleting` if the job dies.  Dating a row back to 1970 to
have it probed also ends its grace period: `rushed` marks the behaviours in which this
happens to a row that somebody is about to use, and the properties exclude them.

## 6. Not modelled

Inside the modelled components: prompts, tool bodies, the text of findings, their
validation, anchoring and clustering (data inside one step); the reservation of the
monthly quota; deployments without the secrets of the OAuth clients, which revoke nothing; waived files; reviewers assigned at the provider and several repositories
of one delivery; review sessions and statistics; which snapshots retention deletes; the
download of a repository's tree; rules, listing and removal of monitors; stores of two
kinds beside each other and the rows of `syncArtifacts`; progress, metrics and the mirror
of the status in `workflowRuns`, which steer nothing.

More than half of the repository's lines are the user interface, parsers and analysis
heuristics, provider clients and prompts: text in, text out, without state that outlives
a call.  Other components are listed with their reason in `PROJECT.json`: single-statement
state (rate limit, OAuth states), calls of external services around one row (managed
keys), and evaluations, which the plan has left.

## 7. Plan

1. `Evaluations`: one active run of a workspace, replayed cases, cancel, grading; a
   completed run has a result for every case.
2. The reservation of the monthly quota, which would make `OneCharge` one of reserve, charge
   and release.
3. An abstract specification of a chain of snapshots that `PullRequestSync` and
   `RepositoryBranchSync` share.
4. Removal of a monitor or a repository while its runs are in flight.
5. The pure helpers (`lib/concurrency.ts`, coverage's terminal state), as functions
   checked against a reference definition.
