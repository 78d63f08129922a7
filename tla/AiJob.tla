-------------------------------- MODULE AiJob --------------------------------
(***************************************************************************)
(* One AI job (an explanation or a question) from its linked run to its     *)
(* charge: the turns of executeAiTurn (agent-loop.ts), the two terminal     *)
(* writes acceptAiJobResult (ai/service.ts) and failAiJob, the one-shot     *)
(* settlement settleAiJobQuota, and the cancel procedure of the router      *)
(* (routers/ai.ts), which runs beside a step that is in flight.             *)
(*                                                                         *)
(* Which run may work is WorkflowStart's subject: here the job has one run. *)
(* Between two statements that touch the row anything else may happen, so   *)
(* that every read and every write of the row is an action of its own.      *)
(***************************************************************************)
EXTENDS Naturals, FiniteSetsExt, AiLimits

CONSTANTS
  Cancellers,          \* requests of the job's owner that cancel it
  Cost,                \* tokens that one model call may use
  MaxCrashes           \* bound: deaths of the worker inside a step

ASSUME AiJobAssumption ==
  /\ AI_MAX_MODEL_STEPS \in Nat \ {0}
  /\ Cost \subseteq Nat \ {0}
  /\ MaxCrashes \in Nat

VARIABLES
  job,        \* the row of aiJobs
  charged,    \* tokens that settlements of the job have added to aiUsage
  linked,     \* aiJobs.workflowRunId is set
  killed,     \* the provider run is cancelled: no further step is scheduled
  step,       \* the step in flight: its place, turn and local values
  cancel,     \* each cancel request's progress
  crashes,    \* crashes spent of MaxCrashes
  paid,       \* history: tokens that the model calls have used
  lost        \* history: those of calls whose turn threw before it counted them

jobVars == <<job, charged, linked, killed, step, cancel, crashes, paid, lost>>

TerminalStatus == {"completed", "failed", "cancelled"}
Result == {"none", "answer", "partial"}
StepPc == {"link", "turn", "announce", "guard", "model", "stream", "usage",
           "accept", "fail", "total", "settle", "ended"}

Job == [status: {"queued", "running", "waiting_for_provider", "streaming"}
                  \union TerminalStatus,
        startedAt: BOOLEAN,      \* startedAt is not null
        cancelledAt: BOOLEAN,    \* cancelledAt is not null
        result: Result,
        tokens: Nat,             \* the usage counters of the row
        settled: BOOLEAN]        \* quotaSettledAt is not null

Step == [pc: StepPc,
         turn: 0..AI_MAX_MODEL_STEPS,
         used: Nat,              \* usage that the provider reported
         result: Result,         \* what the step is about to accept
         total: Nat]             \* what totalUsage read

CancelPc == {"read", "kill", "write", "settle", "returned"}

\* Types; the loop is bounded by AI_MAX_MODEL_STEPS.
JobTypeOK ==
  /\ job \in Job
  /\ charged \in Nat
  /\ linked \in BOOLEAN
  /\ killed \in BOOLEAN
  /\ step \in Step
  /\ cancel \in [Cancellers -> CancelPc]
  /\ crashes \in 0..MaxCrashes
  /\ paid \in Nat
  /\ lost \in Nat

JobInit ==
  /\ job = [status |-> "queued", startedAt |-> FALSE, cancelledAt |-> FALSE,
            result |-> "none", tokens |-> 0, settled |-> FALSE]
  /\ charged = 0
  /\ linked = FALSE
  /\ killed = FALSE
  /\ step = [pc |-> "link", turn |-> 0, used |-> 0, result |-> "none",
             total |-> 0]
  /\ cancel = [c \in Cancellers |-> "read"]
  /\ crashes = 0
  /\ paid = 0
  /\ lost = 0

Goto(pc) == step' = [step EXCEPT !.pc = pc]

\* The worker dies.  The runtime replays the step from its start, with nothing
\* of what the dead worker held in memory.
Dies ==
  /\ crashes < MaxCrashes
  /\ crashes' = crashes + 1
  /\ step' = [step EXCEPT !.pc = "turn", !.used = 0, !.result = "none",
                          !.total = 0]

\* The turns are over: what runs is finishDurableAiJobAtLimit.
LastTurn == step.turn = AI_MAX_MODEL_STEPS

\* The model has answered and its usage is not in the row yet.
Uncounted == IF step.pc \in {"stream", "usage"} THEN step.used ELSE 0

\* Whether a throw is caught: the last step has no catch, and nothing catches for the
\* catch.  An uncaught throw has the runtime execute the step again, as a death has.
MayThrow == ~LastTurn /\ (step.pc \in {"total", "settle"} => step.result # "none")

\* The catch of a turn fails the job.
Caught == step' = [step EXCEPT !.pc = "fail", !.used = 0, !.result = "none", !.total = 0]

-----------------------------------------------------------------------------
(* The writes that steps and requests share.                               *)

\* Mutant: a settled job is settled again.
SettlesAgain(reported) ==
  /\ job' = [job EXCEPT !.tokens = Max({job.tokens, reported}),
                        !.settled = TRUE]
  /\ charged' = charged + Max({job.tokens, reported})

\* settleAiJobQuota, one transaction: charge the larger of the row's counters
\* and the report, once.
Settles(reported) ==
  IF job.settled THEN UNCHANGED <<job, charged>>
  ELSE /\ job' = [job EXCEPT !.tokens = Max({job.tokens, reported}),
                             !.settled = TRUE]
       /\ charged' = charged + Max({job.tokens, reported})

-----------------------------------------------------------------------------
(* The steps of the run.                                                   *)

RunIsLinked ==
  /\ step.pc = "link"
  /\ linked' = TRUE
  /\ Goto("turn")
  /\ UNCHANGED <<job, charged, killed, cancel, crashes, paid, lost>>

\* A cancelled provider run gets no further step.
RunIsStopped ==
  /\ step.pc = "turn"
  /\ killed
  /\ Goto("ended")
  /\ UNCHANGED <<job, charged, linked, killed, cancel, crashes, paid, lost>>

\* A turn that may go on: the job is not cancelled and the loop not exhausted.
TakesTurn == ~LastTurn /\ ~job.cancelledAt

\* A step that may close with what there is: a cancelled job, the last step, or
\* a turn past the time, token or tool limit of a job that has started.
Closes == LastTurn \/ job.cancelledAt \/ job.startedAt

\* Mutant: the loop is not cut at AI_MAX_MODEL_STEPS.
TurnReadsUncut ==
  /\ step.pc = "turn"
  /\ ~killed
  /\ Goto(IF job.status \in TerminalStatus THEN "ended" ELSE "announce")
  /\ UNCHANGED <<job, charged, linked, killed, cancel, crashes, paid, lost>>

\* The step reads the job; a terminal one ends the run.
TurnReads ==
  /\ step.pc = "turn"
  /\ ~killed
  /\ IF job.status \in TerminalStatus THEN Goto("ended")
     ELSE \/ TakesTurn /\ Goto("announce")
          \/ /\ Closes
             /\ step' = [step EXCEPT !.pc = "accept", !.result = "partial"]
  /\ UNCHANGED <<job, charged, linked, killed, cancel, crashes, paid, lost>>

\* The turn announces itself, whatever the status has become since the read.
TurnAnnounces ==
  /\ step.pc = "announce"
  /\ job' = [job EXCEPT !.status = "running", !.startedAt = TRUE]
  /\ Goto("guard")
  /\ UNCHANGED <<charged, linked, killed, cancel, crashes, paid, lost>>

\* The conversation has outgrown the context, or the reservation the next call.
TurnStopsShort ==
  /\ step.pc = "guard"
  /\ step' = [step EXCEPT !.pc = "accept", !.result = "partial"]
  /\ UNCHANGED <<job, charged, linked, killed, cancel, crashes, paid, lost>>

\* Mutant: the last look before the call is at the status alone.
MayCallStatusOnly == job.status = "running"

\* The WHERE of the last look before the paid call.
MayCall == job.status = "running" /\ ~job.cancelledAt

TurnCallsModel ==
  /\ step.pc = "guard"
  /\ IF MayCall
       THEN /\ job' = [job EXCEPT !.status = "waiting_for_provider"]
            /\ Goto("model")
       ELSE UNCHANGED job /\ Goto("ended")
  /\ UNCHANGED <<charged, linked, killed, cancel, crashes, paid, lost>>

\* The provider answers, with or without text and a submission.
ModelAnswers ==
  /\ step.pc = "model"
  /\ \E used \in Cost, pc \in {"stream", "usage"},
        result \in {"none", "answer"} :
       /\ paid' = paid + used
       /\ step' = [step EXCEPT !.pc = pc, !.used = used, !.result = result]
  /\ UNCHANGED <<job, charged, linked, killed, cancel, crashes, lost>>

\* The call throws or times out, which may cost tokens that nobody reports.
CallThrows ==
  /\ step.pc = "model"
  /\ \E used \in {0} \union Cost : paid' = paid + used /\ lost' = lost + used
  /\ Caught
  /\ UNCHANGED <<job, charged, linked, killed, cancel, crashes>>

\* Anything else throws: a read, a write, a settlement.
TurnThrows ==
  /\ step.pc \in {"turn", "announce", "guard", "stream", "usage", "accept", "total", "settle"}
  /\ step.pc = "turn" => ~killed
  /\ MayThrow
  /\ lost' = lost + Uncounted
  /\ Caught
  /\ UNCHANGED <<job, charged, linked, killed, cancel, crashes, paid>>

\* Text is announced, whatever the status.
TurnStreams ==
  /\ step.pc = "stream"
  /\ job' = [job EXCEPT !.status = "streaming"]
  /\ Goto("usage")
  /\ UNCHANGED <<charged, linked, killed, cancel, crashes, paid, lost>>

\* What accumulateAiUsage adds to the row.
Counted == step.used

\* The report is added to the counters.  Without a submission the step returns, or
\* dies before the runtime hears of it, and the loop takes another turn.
TurnCountsUsage ==
  /\ step.pc = "usage"
  /\ job' = [job EXCEPT !.tokens = @ + Counted]
  /\ \/ step.result = "answer" /\ Goto("accept") /\ UNCHANGED crashes
     \/ /\ step.result = "none"
        /\ step' = [step EXCEPT !.pc = "turn", !.turn = @ + 1]
        /\ UNCHANGED crashes
     \/ step.result = "none" /\ Dies
  /\ UNCHANGED <<charged, linked, killed, cancel, paid, lost>>

\* acceptAiJobResult: not over another result nor over a cancelled job.
StepAccepts ==
  /\ step.pc = "accept"
  /\ job' = IF job.result = "none" /\ job.status # "cancelled"
              THEN [job EXCEPT !.status = "completed", !.result = step.result]
              ELSE job
  /\ Goto("total")
  /\ UNCHANGED <<charged, linked, killed, cancel, crashes, paid, lost>>

\* failAiJob: not over a completed or a cancelled job.
StepFails ==
  /\ step.pc = "fail"
  /\ job' = IF job.status \in {"completed", "cancelled"} THEN job
            ELSE [job EXCEPT !.status = "failed"]
  /\ Goto("total")
  /\ UNCHANGED <<charged, linked, killed, cancel, crashes, paid, lost>>

\* totalUsage reads the counters in a statement of its own ...
StepReadsTotal ==
  /\ step.pc = "total"
  /\ step' = [step EXCEPT !.pc = "settle", !.total = job.tokens]
  /\ UNCHANGED <<job, charged, linked, killed, cancel, crashes, paid, lost>>

\* ... and they are the report with which the step settles.  Then it returns, or it
\* throws where it closes its run, or dies before the runtime hears of it.
StepSettles ==
  /\ step.pc = "settle"
  /\ Settles(step.total)
  /\ \/ Goto("ended") /\ UNCHANGED crashes
     \/ MayThrow /\ Caught /\ UNCHANGED crashes
     \/ Dies
  /\ UNCHANGED <<linked, killed, cancel, paid, lost>>

StepCrashes ==
  /\ step.pc \notin {"link", "turn", "ended"}
  /\ Dies
  /\ UNCHANGED <<job, charged, linked, killed, cancel, paid, lost>>

-----------------------------------------------------------------------------
(* A cancel request.                                                       *)

\* The request reads the job, and kills its run if it sees one.
CancelReads(c) ==
  /\ cancel[c] = "read"
  /\ cancel' = [cancel EXCEPT ![c] = IF linked THEN "kill" ELSE "write"]
  /\ UNCHANGED <<job, charged, linked, killed, step, crashes, paid, lost>>

CancelKills(c) ==
  /\ cancel[c] = "kill"
  /\ killed' = TRUE
  /\ cancel' = [cancel EXCEPT ![c] = "write"]
  /\ UNCHANGED <<job, charged, linked, step, crashes, paid, lost>>

\* The status is written without a condition, over a finished job too.
CancelWrites(c) ==
  /\ cancel[c] = "write"
  /\ job' = [job EXCEPT !.status = "cancelled", !.cancelledAt = TRUE]
  /\ cancel' = [cancel EXCEPT ![c] = "settle"]
  /\ UNCHANGED <<charged, linked, killed, step, crashes, paid, lost>>

\* Mutant: a request that killed the run leaves the job unsettled.
CancelLeavesUnsettled(c) ==
  /\ cancel[c] = "settle"
  /\ cancel' = [cancel EXCEPT ![c] = "returned"]
  /\ UNCHANGED <<job, charged, linked, killed, step, crashes, paid, lost>>

\* The request settles from the row alone.
CancelSettles(c) ==
  /\ cancel[c] = "settle"
  /\ Settles(0)
  /\ cancel' = [cancel EXCEPT ![c] = "returned"]
  /\ UNCHANGED <<linked, killed, step, crashes, paid, lost>>

-----------------------------------------------------------------------------
StepNext ==
  \/ RunIsLinked \/ RunIsStopped \/ TurnReads \/ TurnAnnounces \/ TurnStopsShort
  \/ TurnCallsModel \/ ModelAnswers \/ CallThrows \/ TurnThrows
  \/ TurnStreams \/ TurnCountsUsage \/ StepAccepts \/ StepFails \/ StepReadsTotal
  \/ StepSettles \/ StepCrashes

CancelNext(c) ==
  \/ CancelReads(c) \/ CancelKills(c) \/ CancelWrites(c) \/ CancelSettles(c)

JobNext == StepNext \/ \E c \in Cancellers : CancelNext(c)

JobSpec == JobInit /\ [][JobNext]_jobVars

\* The runtime keeps executing the steps of a run, and a request that has been
\* read goes on.  Nobody has to cancel, and no worker has to crash.
JobFairness ==
  /\ WF_jobVars(StepNext)
  /\ \A c \in Cancellers : WF_jobVars(cancel[c] # "read" /\ CancelNext(c))

JobFairSpec == JobSpec /\ JobFairness

-----------------------------------------------------------------------------
(* Properties                                                              *)

Cancelling == \E c \in Cancellers : cancel[c] \in {"kill", "write", "settle"}

\* A job is never charged for more than its calls have used, however often
\* steps are replayed and cancel requests repeated.
NeverOvercharged == charged <= paid

\* A call that costs money is not begun once a cancel request has written.
NoPaidCallAfterCancel ==
  [][step.pc # "model" /\ step'.pc = "model" => ~job.cancelledAt]_jobVars

\* A result is final: nothing but a cancel request takes its job out of
\* "completed", not even the replay of the step that accepted it.
ResultIsFinal ==
  job.result # "none" => job.status \in {"completed", "cancelled"}

\* A run that nobody cancelled and no crash disturbed ends terminal and settled, also
\* when it throws where nobody expects it.  It is charged for what its calls used but for
\* the call whose turn threw before it counted: the job is failed then, while a completed
\* job is charged for all of it.
UndisturbedRunIsCharged ==
  step.pc = "ended" /\ crashes = 0 /\ ~job.cancelledAt /\ ~Cancelling /\ ~killed
    => /\ job.status \in TerminalStatus /\ job.settled
       /\ charged + lost = paid
       /\ job.status = "completed" => lost = 0

\* The outcome and its price stand.
OutcomeStands == NeverOvercharged /\ ResultIsFinal /\ UndisturbedRunIsCharged

\* The abstract specification: whoever settles the job, and however often, the month is
\* charged once, for no more than the calls have used by then, and the charge stands.
Charge == INSTANCE OneCharge WITH used <- paid, settled <- job.settled
JobImplementsOneCharge == Charge!Spec

\* A job costs what it should: no call is begun for a cancelled job, and what the calls
\* have used is charged once.
JobIsPaidOnce == NoPaidCallAfterCancel /\ JobImplementsOneCharge

\* After a cancel request the run comes to a stop and the job is settled.
CancelStopsTheRun == job.cancelledAt ~> (step.pc = "ended" /\ job.settled)
=============================================================================
