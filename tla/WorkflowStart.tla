---------------------------- MODULE WorkflowStart ----------------------------
(***************************************************************************)
(* Starting one externally hosted durable workflow from a database lease:  *)
(* establishReservedWorkflow and reserveWorkflowStart (start-reservation.ts)*)
(* run by concurrent requests, ensureWorkflowRunLink (run-link.ts) run both *)
(* by the request and by the started run itself, and the step bodies of    *)
(* aiJobWorkflow (ai-job.ts) that fence a run before it works.             *)
(*                                                                         *)
(* The provider's start cannot commit with the target row, so a request    *)
(* may die, or merely outlive its 30 s lease, between claiming, starting   *)
(* and linking.  Every transaction of the code is one action; time is only *)
(* the moment at which an unexpired lease becomes an expired one.          *)
(***************************************************************************)
EXTENDS Naturals, FiniteSets, AiLimits

CONSTANTS
  Callers,             \* requests that call startAiJob for the job
  Runs,                \* identities the workflow provider hands out
  NoRun,               \* a null workflowRunId
  MaxFaults,           \* bound: deaths, failed starts and outlived leases
  MaxLinkFaults        \* bound: link transactions that a run sees fail

ASSUME WorkflowStartAssumption ==
  /\ NoRun \notin Runs
  /\ AI_MAX_MODEL_STEPS \in Nat \ {0}
  /\ MaxFaults \in Nat
  /\ MaxLinkFaults \in Nat

VARIABLES
  status,      \* aiJobs.status
  token,       \* aiJobs.workflowStartToken; 0 is null, tokens are never reused
  lease,       \* aiJobs.workflowStartLeaseExpiresAt: null, ahead of now, past
  linkedRun,   \* the run of aiJobs.workflowRunId
  caller,      \* each request's progress through establishReservedWorkflow
  run,         \* each provider run's progress through aiJobWorkflow
  claims,      \* leases taken so far: the last token handed out
  faults,      \* faults spent of MaxFaults
  linkFaults,  \* faults spent of MaxLinkFaults
  worked       \* history: runs that have taken or completed a turn

target == <<status, token, lease, linkedRun>>
vars == <<target, caller, run, claims, faults, linkFaults, worked>>

JobStatus == {"queued", "running", "waiting_for_provider", "streaming",
              "completed", "failed"}
Terminal == {"completed", "failed"}
Startable == {"queued", "waiting_for_provider"}
CallerPc == {"reserve", "start", "link", "fail", "failJob", "returned", "threw",
             "dead"}
RunPc == {"unborn", "link", "read", "write", "call", "model", "close", "failing",
          "failLink", "superseded", "done", "failed"}

\* The pcs at which a run has passed the fence and is working on the job.
Working == {"read", "write", "call", "model", "close"}

TypeOK ==
  /\ status \in JobStatus
  /\ token \in Nat
  /\ lease \in {"none", "held", "expired"}
  /\ linkedRun \in Runs \union {NoRun}
  /\ caller \in [Callers -> [pc: CallerPc, token: Nat,
                             run: Runs \union {NoRun}]]
  /\ run \in [Runs -> [pc: RunPc, token: Nat,
                       turn: 0..AI_MAX_MODEL_STEPS]]
  /\ claims \in Nat
  /\ faults \in 0..MaxFaults
  /\ linkFaults \in 0..MaxLinkFaults
  /\ worked \subseteq Runs

Init ==
  /\ status = "queued"
  /\ token = 0
  /\ lease = "none"
  /\ linkedRun = NoRun
  /\ caller = [c \in Callers |-> [pc |-> "reserve", token |-> 0, run |-> NoRun]]
  /\ run = [r \in Runs |-> [pc |-> "unborn", token |-> 0, turn |-> 0]]
  /\ claims = 0
  /\ faults = 0
  /\ linkFaults = 0
  /\ worked = {}

-----------------------------------------------------------------------------
(* ensureWorkflowRunLink, one transaction under the target's lock.         *)

\* The presented token is no longer the target's.
Fenced(t) == token # t

\* Another run holds the link.
Conflicts(r) == linkedRun \notin {NoRun, r}

\* Mutant: the result of the fence is not looked at.
LinkOutcomeUnfenced(r, t) == IF ~Fenced(t) /\ Conflicts(r) THEN "throws"
                             ELSE "linked"

\* Mutant: a run only confirms a link that its starter has made.
LinkOutcomeStarterOnly(r, t) == IF Fenced(t) \/ linkedRun = NoRun THEN "null"
                                ELSE IF Conflicts(r) THEN "throws" ELSE "linked"

\* null for a fenced caller, an error ("Workflow target is already linked to
\* another run") on a conflict, the link otherwise.
LinkOutcome(r, t) == IF Fenced(t) THEN "null"
                     ELSE IF Conflicts(r) THEN "throws" ELSE "linked"

\* The row is written only by the caller that creates the link.
EnsureLink(r, t) ==
  /\ IF LinkOutcome(r, t) = "linked" /\ linkedRun = NoRun
       THEN linkedRun' = r /\ lease' = "none"
       ELSE UNCHANGED <<linkedRun, lease>>
  /\ UNCHANGED <<status, token>>

\* failAiJob: the WHERE spares a completed job.
FailAiJob == status' = IF status = "completed" THEN status ELSE "failed"

-----------------------------------------------------------------------------
(* A request inside establishReservedWorkflow.                             *)

\* What reserveWorkflowStart and startAiJob's claim ask of the row.
CanClaim == linkedRun = NoRun /\ lease # "held" /\ status \in Startable

\* The job is linked: the reservation returns the linked run.
ReserveFindsLink(c) ==
  /\ caller[c].pc = "reserve"
  /\ linkedRun # NoRun
  /\ caller' = [caller EXCEPT ![c].pc = "returned", ![c].run = linkedRun]
  /\ UNCHANGED <<target, run, claims, faults, linkFaults, worked>>

\* No link and no unexpired lease: take a new token.  While another request
\* holds an unexpired lease the reservation is pending and the request sleeps
\* and asks again, so that no action is enabled for it.
ReserveClaims(c) ==
  /\ caller[c].pc = "reserve"
  /\ CanClaim
  /\ claims' = claims + 1
  /\ status' = "queued"
  /\ token' = claims + 1
  /\ lease' = "held"
  /\ caller' = [caller EXCEPT ![c].pc = "start", ![c].token = claims + 1]
  /\ UNCHANGED <<linkedRun, run, faults, linkFaults, worked>>

\* The claim refuses a job in any other status: "Cannot start an AI job".
ReserveRefused(c) ==
  /\ caller[c].pc = "reserve"
  /\ linkedRun = NoRun
  /\ lease # "held"
  /\ status \notin Startable
  /\ caller' = [caller EXCEPT ![c].pc = "threw"]
  /\ UNCHANGED <<target, run, claims, faults, linkFaults, worked>>

\* The provider creates a run that carries the request's token.
ProviderCreates(r, t) ==
  /\ run[r].pc = "unborn"
  /\ run' = [run EXCEPT ![r].pc = "link", ![r].token = t]

StartRun(c) ==
  /\ caller[c].pc = "start"
  /\ \E r \in Runs :
       /\ ProviderCreates(r, caller[c].token)
       /\ caller' = [caller EXCEPT ![c].pc = "link", ![c].run = r]
  /\ UNCHANGED <<target, claims, faults, linkFaults, worked>>

\* start throws: the provider refused, or it created the run and its answer
\* was lost.
StartThrows(c) ==
  /\ caller[c].pc = "start"
  /\ faults < MaxFaults
  /\ faults' = faults + 1
  /\ caller' = [caller EXCEPT ![c].pc = "fail"]
  /\ \/ UNCHANGED run
     \/ \E r \in Runs : ProviderCreates(r, caller[c].token)
  /\ UNCHANGED <<target, claims, linkFaults, worked>>

\* Mutant: the compensation does not ask that the job is still queued.
StillOwnsClaimAnyStatus(c) == token = caller[c].token

\* The WHERE of the compensating update.
StillOwnsClaim(c) == status = "queued" /\ token = caller[c].token

\* The compensating write: only over the request's own, still queued claim.
FailStart(c) ==
  /\ caller[c].pc = "fail"
  /\ IF StillOwnsClaim(c)
       THEN /\ status' = "failed"
            /\ lease' = "none"
            /\ caller' = [caller EXCEPT ![c].pc = "failJob"]
       ELSE /\ UNCHANGED <<status, lease>>
            /\ caller' = [caller EXCEPT ![c].pc = "threw"]
  /\ UNCHANGED <<token, linkedRun, run, claims, faults, linkFaults, worked>>

\* The owner then settles through failAiJob, which writes the status again:
\* over whatever a run whose start was not seen has made of it meanwhile.
FailStartedJob(c) ==
  /\ caller[c].pc = "failJob"
  /\ FailAiJob
  /\ caller' = [caller EXCEPT ![c].pc = "threw"]
  /\ UNCHANGED <<token, lease, linkedRun, run, claims, faults, linkFaults,
                 worked>>

\* The request links the run it started; fenced, it goes round the loop.
LinkStarted(c) ==
  LET outcome == LinkOutcome(caller[c].run, caller[c].token)
  IN  /\ caller[c].pc = "link"
      /\ EnsureLink(caller[c].run, caller[c].token)
      /\ caller' = [caller EXCEPT ![c].pc = IF outcome = "null" THEN "reserve"
                                       ELSE IF outcome = "throws" THEN "threw"
                                       ELSE "returned"]
      /\ UNCHANGED <<run, claims, faults, linkFaults, worked>>

\* The process serving the request dies.
CallerDies(c) ==
  /\ caller[c].pc \in {"reserve", "start", "link", "fail", "failJob"}
  /\ faults < MaxFaults
  /\ faults' = faults + 1
  /\ caller' = [caller EXCEPT ![c].pc = "dead"]
  /\ UNCHANGED <<target, run, claims, linkFaults, worked>>

\* The request that took the current lease is still about to use it.
HolderAlive == \E c \in Callers : /\ caller[c].pc \in {"start", "link", "fail"}
                                  /\ caller[c].token = token

\* Thirty seconds pass on a claim: a fault if its holder is merely slow.
LeaseExpires ==
  /\ lease = "held"
  /\ lease' = "expired"
  /\ \/ ~HolderAlive /\ UNCHANGED faults
     \/ HolderAlive /\ faults < MaxFaults /\ faults' = faults + 1
  /\ UNCHANGED <<status, token, linkedRun, caller, run, claims, linkFaults,
                 worked>>

-----------------------------------------------------------------------------
(* A provider run executing the steps of aiJobWorkflow.  Steps below        *)
(* AI_MAX_MODEL_STEPS are executeDurableAiTurn, the last one is             *)
(* finishDurableAiJobAtLimit; each begins with ensureWorkflowRunLink.       *)

LastStep(r) == run[r].turn = AI_MAX_MODEL_STEPS

\* A step begins by linking with the run's own token.  A throw goes to the
\* catch block of a turn; the last step has none and is retried.
RunLinks(r) ==
  LET outcome == LinkOutcome(r, run[r].token)
  IN  /\ run[r].pc = "link"
      /\ EnsureLink(r, run[r].token)
      /\ run' = [run EXCEPT ![r].pc = IF outcome = "null" THEN "superseded"
                                 ELSE IF outcome = "linked" THEN "read"
                                 ELSE IF LastStep(r) THEN "link" ELSE "failing"]
      /\ UNCHANGED <<caller, claims, faults, linkFaults, worked>>

\* The link transaction itself fails (a lost connection, a deadlock victim):
\* a turn catches it like any other error.  The last step would be retried.
RunLinkFails(r) ==
  /\ run[r].pc = "link"
  /\ ~LastStep(r)
  /\ linkFaults < MaxLinkFaults
  /\ linkFaults' = linkFaults + 1
  /\ run' = [run EXCEPT ![r].pc = "failing"]
  /\ UNCHANGED <<target, caller, claims, faults, worked>>

\* The job is read; a terminal one ends the run.
RunReads(r) ==
  /\ run[r].pc = "read"
  /\ run' = [run EXCEPT ![r].pc = IF status \in Terminal THEN "close"
                                  ELSE IF LastStep(r) THEN "model" ELSE "write"]
  /\ UNCHANGED <<target, caller, claims, faults, linkFaults, worked>>

\* The turn announces itself, whatever the status has become since the read.
RunMarksRunning(r) ==
  /\ run[r].pc = "write"
  /\ status' = "running"
  /\ run' = [run EXCEPT ![r].pc = "call"]
  /\ worked' = worked \union {r}
  /\ UNCHANGED <<token, lease, linkedRun, caller, claims, faults, linkFaults>>

\* The last look before the paid call: the turn ends the run if the job is no
\* longer running.
RunCallsModel(r) ==
  /\ run[r].pc = "call"
  /\ status' = IF status = "running" THEN "waiting_for_provider" ELSE status
  /\ run' = [run EXCEPT ![r].pc = IF status = "running" THEN "model" ELSE "close"]
  /\ UNCHANGED <<token, lease, linkedRun, caller, claims, faults, linkFaults,
                 worked>>

\* An answer with text is announced, whatever the status.
RunStreams(r) ==
  /\ run[r].pc = "model"
  /\ ~LastStep(r)
  /\ status' = "streaming"
  /\ UNCHANGED <<token, lease, linkedRun, caller, run, claims, faults, linkFaults,
                 worked>>

\* Mutant: the loop is not cut at AI_MAX_MODEL_STEPS.
RunContinuesUncut(r) ==
  /\ run[r].pc = "model"
  /\ run' = [run EXCEPT ![r].pc = "link", ![r].turn = @ + 1]
  /\ UNCHANGED <<target, caller, claims, faults, linkFaults, worked>>

\* The model answers without a final submission: the loop takes another step.
RunContinues(r) ==
  /\ run[r].pc = "model"
  /\ ~LastStep(r)
  /\ run' = [run EXCEPT ![r].pc = "link", ![r].turn = @ + 1]
  /\ UNCHANGED <<target, caller, claims, faults, linkFaults, worked>>

\* A submission, or the partial answer of a limit, completes the job: the limits
\* of a turn are looked at before it announces itself, the number of turns by the
\* last step, the context and the reservation just before the call.
RunCompletes(r) ==
  /\ run[r].pc \in {"write", "call", "model"}
  /\ status' = "completed"
  /\ run' = [run EXCEPT ![r].pc = "close"]
  /\ worked' = worked \union {r}
  /\ UNCHANGED <<token, lease, linkedRun, caller, claims, faults, linkFaults>>

\* The end of a run: the settlement of its job and the row of the run itself.
RunCloses(r) ==
  /\ run[r].pc = "close"
  /\ run' = [run EXCEPT ![r].pc = "done"]
  /\ UNCHANGED <<target, caller, claims, faults, linkFaults, worked>>

\* Whatever a turn does may throw into its catch block, its closing included.
RunThrows(r) ==
  /\ run[r].pc \in Working
  /\ ~LastStep(r)
  /\ faults < MaxFaults
  /\ faults' = faults + 1
  /\ run' = [run EXCEPT ![r].pc = "failing"]
  /\ UNCHANGED <<target, caller, claims, linkFaults, worked>>

\* The catch block fails the job first ...
RunFailsJob(r) ==
  /\ run[r].pc = "failing"
  /\ FailAiJob
  /\ run' = [run EXCEPT ![r].pc = "failLink"]
  /\ UNCHANGED <<token, lease, linkedRun, caller, claims, faults, linkFaults,
                 worked>>

\* ... and checks the fence afterwards.  A conflict throws out of the catch
\* block, and the step is retried.
RunFailLinks(r) ==
  LET outcome == LinkOutcome(r, run[r].token)
  IN  /\ run[r].pc = "failLink"
      /\ EnsureLink(r, run[r].token)
      /\ run' = [run EXCEPT ![r].pc = IF outcome = "null" THEN "superseded"
                                 ELSE IF outcome = "linked" THEN "failed"
                                 ELSE "link"]
      /\ UNCHANGED <<caller, claims, faults, linkFaults, worked>>

\* The worker dies inside a step; the durable runtime replays the whole step.
RunDies(r) ==
  /\ run[r].pc \in Working \union {"failing", "failLink"}
  /\ faults < MaxFaults
  /\ faults' = faults + 1
  /\ run' = [run EXCEPT ![r].pc = "link"]
  /\ UNCHANGED <<target, caller, claims, linkFaults, worked>>

-----------------------------------------------------------------------------
CallerNext(c) ==
  \/ ReserveFindsLink(c) \/ ReserveClaims(c) \/ ReserveRefused(c)
  \/ StartRun(c) \/ StartThrows(c) \/ FailStart(c)
  \/ FailStartedJob(c) \/ LinkStarted(c) \/ CallerDies(c)

RunNext(r) ==
  \/ RunLinks(r) \/ RunLinkFails(r) \/ RunReads(r) \/ RunMarksRunning(r)
  \/ RunCallsModel(r) \/ RunStreams(r) \/ RunContinues(r) \/ RunCompletes(r)
  \/ RunCloses(r) \/ RunThrows(r) \/ RunFailsJob(r) \/ RunFailLinks(r) \/ RunDies(r)

Next == \/ \E c \in Callers : CallerNext(c)
        \/ \E r \in Runs : RunNext(r)
        \/ LeaseExpires

Spec == Init /\ [][Next]_vars

\* A live request keeps running, the provider keeps executing a run it has
\* accepted, and the clock goes on.  Dying and failing are never required.
Fairness ==
  /\ \A c \in Callers : WF_vars(CallerNext(c))
  /\ \A r \in Runs : WF_vars(RunNext(r))
  /\ WF_vars(LeaseExpires)

FairSpec == Spec /\ Fairness

-----------------------------------------------------------------------------
(* Properties                                                              *)

\* Two runs never work on one job, however starts, leases and crashes
\* interleave: a run past its fence is the run the job is linked to.
OnlyTheLinkedRunWorks ==
  \A r \in Runs : run[r].pc \in Working => linkedRun = r

\* Every request that returns reports the same run: the linked one.
RequestsAgree ==
  \A c \in Callers : caller[c].pc = "returned" => caller[c].run = linkedRun

\* "Workflow target is already linked to another run" is unreachable for a
\* holder of the current token, be it the request or its run.
LinkNeverConflicts ==
  /\ \A r \in Runs : run[r].pc \in {"link", "failLink"} /\ ~Fenced(run[r].token)
                       => ~Conflicts(r)
  /\ \A c \in Callers : caller[c].pc = "link" /\ ~Fenced(caller[c].token)
                       => ~Conflicts(caller[c].run)

\* The link is unique, and everybody goes by it.
LinkIsUnique == OnlyTheLinkedRunWorks /\ RequestsAgree /\ LinkNeverConflicts

\* A completed job stays completed, whoever still compensates, catches or replays.
CompletedStands == [][status = "completed" => status' = "completed"]_vars

\* A request whose start threw takes the job for failed before any run has worked on
\* it.  It writes failed once more when it settles (startAiJob, failAiJob), and then
\* the run that it created though the start threw may have begun to work: that
\* work it may write over, another request's never.
FailedStartSparesOthers ==
  [][\A c \in Callers :
       /\ caller[c].pc = "fail" /\ caller'[c].pc = "failJob" => worked = {}
       /\ caller[c].pc = "failJob" /\ caller'[c].pc = "threw"
            => \A r \in worked : run[r].token = caller[c].token]_vars

\* start-reservation.ts: "the persisted token fences a delayed older workflow
\* before it performs application work".  A run that changes the job's status
\* carries the job's token.  One way leads around the fence: the catch block of a
\* turn whose link transaction has failed writes before it asks whose the job is,
\* and what it writes is a failure.
FencedRunNeverWrites ==
  [][\A r \in Runs : run'[r] # run[r] /\ status' # status =>
       \/ run[r].token = token
       \/ linkFaults > 0 /\ run[r].pc = "failing" /\ status' = "failed"]_vars

\* The worst that comes late is a failure, and never over a result: the compensation
\* of a start that threw fails at most the run that this start created, and a run that
\* lost the token can only fail the job, and only after its link transaction failed.
LatecomersOnlyFail ==
  CompletedStands /\ FailedStartSparesOthers /\ FencedRunNeverWrites

\* The abstract specification: one run per target, and only it works.
Abstract == INSTANCE OneRunPerTarget WITH owner <- linkedRun
ImplementsOneRun == Abstract!Spec

\* A request that is not killed returns or throws: the lease of a dead starter
\* is recovered by whoever still waits.
RequestsFinish ==
  \A c \in Callers : <>(caller[c].pc \in {"returned", "threw", "dead"})

\* A run whose starter died before linking it links itself, unless the job was
\* claimed again in the meantime: an accepted start is never lost.
AcceptedStartIsNotLost ==
  \A r \in Runs : (run[r].pc = "link" /\ run[r].token = token)
                    ~> (linkedRun = r \/ run[r].token # token)

\* A job for which some request has returned a run reaches a terminal status.
ReturnedJobFinishes ==
  (\E c \in Callers : caller[c].pc = "returned") ~> (status \in Terminal)

\* What was begun comes to an end, whoever dies or throws on the way.
StartsFinish == RequestsFinish /\ AcceptedStartIsNotLost /\ ReturnedJobFinishes
=============================================================================
