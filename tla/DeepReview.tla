------------------------------ MODULE DeepReview ------------------------------
(***************************************************************************)
(* One deep review: a parent job whose run seals a plan, reviews the files  *)
(* in parallel lanes, surveys the whole pull request, merges the findings   *)
(* and finalizes (workflows/pull-request-review.ts and review/deep), while  *)
(* cancel requests (routers/ai.ts) close the same tree of jobs and items.   *)
(*                                                                         *)
(* Waived files are terminal from the start and are left out.  Closers of a *)
(* file and of the tree wait for the tree's lock; the plan and the survey's *)
(* item are written without it, so that a cancel request that overlaps the  *)
(* seal step shows each of its statements.  The two reads a turn starts     *)
(* with are one action, for either order of them leads to the same close,   *)
(* which reads its item again under the lock.                               *)
(***************************************************************************)
EXTENDS Naturals, FiniteSets, FiniteSetsExt, Functions

CONSTANTS
  NFiles,         \* files that the plan selects
  Slots,          \* DEEP_REVIEW_EXECUTION_SLOTS: lanes that run in parallel
  MAX_TURNS,      \* DEEP_REVIEW_FILE_MAX_TURNS
  Cost,           \* tokens that one model call may use
  Cancellers,     \* requests of the job's owner that cancel the review
  MaxFaults,      \* bound: deaths of a worker, steps that fail for good, and tokens
                  \* of calls that throw, or whose count throws
  MaxLateFaults   \* bound: those of them that strike once a plan is committed

ASSUME DeepReviewAssumption ==
  /\ NFiles \in Nat \ {0}
  /\ Slots \in Nat \ {0}
  /\ MAX_TURNS \in Nat \ {0}
  /\ Cost \subseteq Nat \ {0}
  /\ MaxFaults \in Nat
  /\ MaxLateFaults \in Nat

\* Every agent is one child job with one coverage item; the survey is the last.
FileAgents == 1..NFiles
Survey == NFiles + 1
Agents == FileAgents \union {Survey}

VARIABLES
  parent,     \* the parent's row of aiJobs
  items,      \* aiReviewItems: state and failure class of each agent's item
  child,      \* the children's rows of aiJobs: their status ...
  counted,    \* ... and their usage counters, added up
  charged,    \* tokens that the parent's settlement has added to aiUsage
  dedupe,     \* the dedupe checkpoint of the survey job
  main,       \* the workflow body: its place, the journaled plan, runFailure
  agent,      \* the turns of each agent
  linked,     \* the parent's workflowRunId is set
  killed,     \* the provider run is cancelled: no further step is scheduled
  cancel,     \* each cancel request's progress
  closing,    \* what the request that holds the tree lock has locked and read
  faults,     \* faults spent of MaxFaults
  lateFaults, \* those of them that count against MaxLateFaults too
  paid,       \* history: tokens of the model calls that were made
  lost        \* history: those of calls that threw, or whose count did

vars == <<parent, items, child, counted, charged, dedupe, main, agent, linked,
          killed, cancel, closing, faults, lateFaults, paid, lost>>

\* "swept": failed, class unknown, with finalize's own reason.
\* "cancelled": failed, class cancelled.  "failed": any other class.
Failed == {"failed", "swept", "cancelled"}
Done == {"completed"} \union Failed
ItemState == {"absent", "selected"} \union Done
Live == {"queued", "running"}
JobStatus == Live \union {"completed", "failed", "cancelled"}
Terminal == {"completed", "failed", "cancelled"}

RunState == {"none", "skipped", "complete", "partial", "failed"}

Parent == [status: JobStatus, cancelledAt: BOOLEAN, result: BOOLEAN,
           terminalState: RunState,
           tokens: Nat, settled: BOOLEAN]
Dedupe == [status: {"absent", "running", "completed"}, used: Nat]
Main == [pc: {"link", "seal", "plan", "surveyItem", "sealed", "agents", "survey",
              "dedupe", "dedupeSave", "dedupePersist", "finalize", "accept",
              "fail", "settle", "ended"},
         files: 0..NFiles + 1,    \* children the plan lists, in plan order
         survey: BOOLEAN,         \* the plan names a survey job
         count: 0..NFiles + 2,    \* expectedItemCount
         sealed: BOOLEAN,         \* the seal step has returned
         failure: BOOLEAN,        \* runFailure
         used: Nat]
Agent == [pc: {"rest", "call", "count", "close", "dead"},
          turn: 0..MAX_TURNS, done: BOOLEAN, used: Nat,
          close: {"none", "completed", "failed", "cancelled"}]
CancelPc == {"read", "write", "tree", "items", "finalize", "coverage", "commit",
             "accept", "settle", "returned", "threw"}
Held == [rows: SUBSET Agents, state: RunState]

\* Types; a file takes at most MAX_TURNS turns.
TypeOK ==
  /\ parent \in Parent
  /\ items \in [Agents -> ItemState]
  /\ child \in [Agents -> {"absent"} \union JobStatus]
  /\ dedupe \in Dedupe
  /\ main \in Main
  /\ agent \in [Agents -> Agent]
  /\ cancel \in [Cancellers -> CancelPc]
  /\ closing \in Held
  /\ linked \in BOOLEAN /\ killed \in BOOLEAN
  /\ counted \in Nat /\ charged \in Nat /\ paid \in Nat /\ lost \in Nat
  /\ faults \in 0..MaxFaults /\ lateFaults \in 0..MaxLateFaults

Resting == [pc |-> "rest", turn |-> 0, done |-> FALSE, used |-> 0,
            close |-> "none"]

Unlocked == [rows |-> {}, state |-> "none"]

Init ==
  /\ parent = [status |-> "queued", cancelledAt |-> FALSE, result |-> FALSE,
               terminalState |-> "none", tokens |-> 0, settled |-> FALSE]
  /\ items = [a \in Agents |-> "absent"]
  /\ child = [a \in Agents |-> "absent"]
  /\ counted = 0 /\ charged = 0
  /\ dedupe = [status |-> "absent", used |-> 0]
  /\ main = [pc |-> "link", files |-> 0, survey |-> FALSE, count |-> 0,
             sealed |-> FALSE, failure |-> FALSE, used |-> 0]
  /\ agent = [a \in Agents |-> Resting]
  /\ linked = FALSE /\ killed = FALSE
  /\ cancel = [c \in Cancellers |-> "read"] /\ closing = Unlocked
  /\ faults = 0 /\ lateFaults = 0
  /\ paid = 0 /\ lost = 0

Goto(pc) == main' = [main EXCEPT !.pc = pc]

tree == <<parent, items, child, counted, charged>>
money == <<counted, charged>>
run == <<main, agent, linked, killed>>
world == <<linked, killed, cancel, closing>>
bounds == <<faults, lateFaults>>
usage == <<paid, lost>>

Fault == faults + lost < MaxFaults /\ faults' = faults + 1 /\ UNCHANGED lateFaults
LateFault ==
  /\ faults + lost < MaxFaults /\ faults' = faults + 1
  /\ lateFaults < MaxLateFaults /\ lateFaults' = lateFaults + 1

\* Where the runtime replays a step that a worker died in.
Replayed(pc) ==
  CASE pc \in {"dedupeSave", "dedupePersist"} -> "dedupe"
    [] pc = "accept" \/ (pc \in {"fail", "settle"} /\ main.sealed) -> "finalize"
    [] OTHER -> "link"

\* A step makes its last write and returns, or dies before the runtime hears of
\* it and is replayed.
ReturnTo(pc, replay) ==
  \/ Goto(pc) /\ UNCHANGED bounds
  \/ Goto(replay) /\ Fault

-----------------------------------------------------------------------------
(* What closers of the tree share.                                         *)

\* A cancel request is inside a transaction that holds the tree's lock.
TreeLocked == \E c \in Cancellers : cancel[c] \in {"items", "coverage", "commit"}

\* What calls may use that nobody reports: they throw, or time out.
Unreported == 0..(MaxFaults - (faults + lost))

Planned == {a \in Agents : items[a] # "absent"}

\* deepReviewTerminalState.
TerminalState(planned) ==
  LET failed == {a \in DOMAIN planned : planned[a] \in Failed}
  IN  CASE DOMAIN planned = {} -> "skipped"
        [] DOMAIN planned # {} /\ failed = {} -> "complete"
        [] failed # {} /\ failed = DOMAIN planned -> "failed"
        [] OTHER -> "partial"

\* settleAiJobQuota of the parent, once, with the larger of row and report.
Settle(reported, row) ==
  LET total == Max({reported, row.tokens})
  IN  /\ parent' = IF row.settled THEN row
                   ELSE [row EXCEPT !.tokens = total, !.settled = TRUE]
      /\ charged' = IF row.settled THEN charged ELSE charged + total

\* acceptAiJobResult: not over a result and not over a cancelled job.
Accept ==
  parent' = IF parent.result \/ parent.status = "cancelled" THEN parent
            ELSE [parent EXCEPT !.status = "completed", !.result = TRUE]

Swept(class) ==
  [a \in Agents |-> IF items[a] = "selected" THEN class ELSE items[a]]

\* The children's usage is rolled up and settled, and the run's state written.
RollUp(state) ==
  /\ Settle(counted, [parent EXCEPT !.tokens = counted, !.terminalState = state])
  /\ UNCHANGED <<child, counted>>

\* The transaction of finalizeDeepReview: sweep what is still selected, roll the
\* children's usage up, settle, and derive the run's state from its coverage.
FinalizeTree(class) ==
  /\ items' = Swept(class)
  /\ RollUp(TerminalState(Restrict(Swept(class), Planned)))

-----------------------------------------------------------------------------
(* The steps of the workflow body.                                         *)

LinkRun ==
  /\ main.pc = "link" /\ ~killed
  /\ linked' = TRUE
  /\ Goto("seal")
  /\ UNCHANGED <<tree, dedupe, agent, killed, cancel, closing, bounds, usage>>

\* readSealedPlan finds a plan: items, a survey job, or a skipped run.
AlreadySealed == Planned # {} \/ parent.terminalState = "skipped"

\* The plan is read back from the items, the survey's own item included.
ReadPlan ==
  /\ AlreadySealed
  /\ main' = [main EXCEPT !.files = Cardinality(Planned),
                          !.count = Cardinality(Planned),
                          !.survey = child[Survey] # "absent",
                          !.pc = IF child[Survey] # "absent"
                                   THEN "surveyItem" ELSE "sealed"]
  /\ UNCHANGED <<parent, items, child>>

\* The plan's transaction finds none under a lock of its own, which cancel requests
\* do not take ...
FindNoPlan ==
  /\ ~AlreadySealed
  /\ Goto("plan")
  /\ UNCHANGED <<parent, items, child>>

SealPlan ==
  /\ main.pc = "seal"
  /\ ReadPlan \/ FindNoPlan
  /\ UNCHANGED <<money, dedupe, agent, world, bounds, usage>>

\* ... and commits: the children and the file items are created and the parent is
\* marked running, whatever a cancel request has made of it since.
CreatePlan ==
  /\ main.pc = "plan"
  /\ items' = [a \in Agents |-> IF a = Survey THEN "absent" ELSE "selected"]
  /\ child' = [a \in Agents |-> "queued"]
  /\ parent' = [parent EXCEPT !.status = "running", !.terminalState = "none"]
  /\ main' = [main EXCEPT !.files = NFiles, !.count = NFiles, !.survey = TRUE,
                          !.pc = "surveyItem"]
  /\ UNCHANGED <<money, dedupe, agent, world, bounds, usage>>

\* ensureDeepReviewSurveyItem, a statement of its own.
AddSurveyItem ==
  /\ main.pc = "surveyItem"
  /\ items' = IF items[Survey] = "absent"
                THEN [items EXCEPT ![Survey] = "selected"] ELSE items
  /\ Goto("sealed")
  /\ UNCHANGED <<parent, child, money, dedupe, agent, world, bounds, usage>>

\* The step returns: the runtime journals the plan.
ReturnPlan ==
  /\ main.pc = "sealed"
  /\ main' = [main EXCEPT !.sealed = TRUE,
                          !.count = @ + IF main.survey THEN 1 ELSE 0,
                          !.pc = IF main.files = 0 /\ ~main.survey
                                   THEN "finalize" ELSE "agents"]
  /\ UNCHANGED <<tree, dedupe, agent, world, bounds, usage>>

\* Planning throws.
SealThrows ==
  /\ main.pc \in {"seal", "plan", "surveyItem"}
  /\ Fault
  /\ Goto("fail")
  /\ UNCHANGED <<tree, dedupe, agent, world, usage>>

\* Mutant: the survey starts when one lane is through.
FilesDoneAnyLane == \E a \in 1..main.files : agent[a].done

\* Promise.all of the lanes.
FilesDone == \A a \in 1..main.files : agent[a].done

StartSurvey ==
  /\ main.pc = "agents" /\ ~killed
  /\ FilesDone
  /\ Goto(IF main.survey THEN "survey" ELSE "finalize")
  /\ agent' = [agent EXCEPT ![Survey] = Resting]
  /\ UNCHANGED <<tree, dedupe, world, bounds, usage>>

SurveyDone ==
  /\ main.pc = "survey" /\ ~killed
  /\ agent[Survey].done
  /\ Goto("dedupe")
  /\ UNCHANGED <<tree, dedupe, agent, world, bounds, usage>>

\* A stored checkpoint replaces the model call; a completed one everything.  A call
\* that throws is no proposal and reports no usage, nor is there one for few findings.
DedupeFindings ==
  /\ main.pc = "dedupe" /\ ~killed
  /\ CASE dedupe.status = "completed" -> Goto("finalize") /\ UNCHANGED usage
       [] dedupe.status = "running" -> Goto("dedupePersist") /\ UNCHANGED usage
       [] OTHER ->
            \/ \E used \in Cost :
                 /\ paid' = paid + used /\ UNCHANGED lost
                 /\ main' = [main EXCEPT !.pc = "dedupeSave", !.used = used]
            \/ \E used \in Unreported :
                 /\ paid' = paid + used /\ lost' = lost + used
                 /\ main' = [main EXCEPT !.pc = "dedupeSave", !.used = 0]
  /\ UNCHANGED <<tree, dedupe, agent, world, bounds>>

SaveDedupe ==
  /\ main.pc = "dedupeSave"
  /\ dedupe' = [status |-> "running", used |-> main.used]
  /\ main' = [main EXCEPT !.pc = "dedupePersist", !.used = 0]
  /\ UNCHANGED <<tree, agent, world, bounds, usage>>

\* Mutant: the usage is counted and the checkpoint is left open.
PersistDedupeOpen ==
  /\ main.pc = "dedupePersist"
  /\ counted' = counted + dedupe.used
  /\ ReturnTo("finalize", "dedupe")
  /\ UNCHANGED <<parent, items, child, charged, dedupe, agent, world, usage>>

\* The merge, its usage and the checkpoint's completion commit together.
PersistDedupe ==
  /\ main.pc = "dedupePersist"
  /\ counted' = counted + dedupe.used
  /\ dedupe' = [dedupe EXCEPT !.status = "completed"]
  /\ ReturnTo("finalize", "dedupe")
  /\ UNCHANGED <<parent, items, child, charged, agent, world, usage>>

\* The dedupe step fails for good: the workflow body catches it.
DedupeThrows ==
  /\ main.pc \in {"dedupe", "dedupeSave", "dedupePersist"}
  /\ Fault
  /\ main' = [main EXCEPT !.pc = "finalize", !.failure = TRUE, !.used = 0]
  /\ UNCHANGED <<tree, dedupe, agent, world, usage>>

\* A coverage that does not match the sealed count fails the whole run.
PartitionError == main.count # Cardinality(Planned)

FinalizeRun ==
  /\ main.pc = "finalize" /\ ~killed /\ ~TreeLocked
  /\ IF PartitionError
       THEN Goto("fail") /\ UNCHANGED tree
       ELSE /\ FinalizeTree(IF main.failure THEN "failed" ELSE "swept")
            /\ Goto("accept")
  /\ UNCHANGED <<dedupe, agent, world, bounds, usage>>

FinalizeThrows ==
  /\ main.pc \in {"finalize", "accept"} /\ ~killed
  /\ LateFault
  /\ Goto("fail")
  /\ UNCHANGED <<tree, dedupe, agent, world, usage>>

AcceptRun ==
  /\ main.pc = "accept"
  /\ Accept
  /\ ReturnTo("ended", "finalize")
  /\ UNCHANGED <<items, child, money, dedupe, agent, world, usage>>

\* failDeepReviewRun, first failAiJob's write ...
FailRun ==
  /\ main.pc = "fail"
  /\ parent' = IF parent.status \in {"completed", "cancelled"} THEN parent
               ELSE [parent EXCEPT !.status = "failed"]
  /\ Goto("settle")
  /\ UNCHANGED <<items, child, money, dedupe, agent, world, bounds, usage>>

\* ... then its settlement, from the parent's row alone.
SettleFailedRun ==
  /\ main.pc = "settle"
  /\ Settle(0, parent)
  /\ ReturnTo("ended", Replayed("settle"))
  /\ UNCHANGED <<items, child, counted, dedupe, agent, world, usage>>

Crashes(pcs) ==
  /\ main.pc \in pcs
  /\ main' = IF main.sealed
               THEN [main EXCEPT !.pc = Replayed(@), !.used = 0]
               ELSE [main EXCEPT !.pc = "link", !.files = 0, !.count = 0,
                                 !.survey = FALSE]

MainCrashes ==
  /\ Crashes({"seal", "plan", "surveyItem", "dedupeSave", "dedupePersist", "accept",
              "fail", "settle"})
  /\ Fault
  /\ UNCHANGED <<tree, dedupe, agent, world, usage>>

\* The seal step dies between its last statement and its return.
SealCrashesLate ==
  /\ Crashes({"sealed"})
  /\ LateFault
  /\ UNCHANGED <<tree, dedupe, agent, world, usage>>

\* A cancelled provider run gets no further step.
MainIsStopped ==
  /\ killed
  /\ main.pc \in {"link", "agents", "survey", "dedupe", "finalize"}
  /\ Goto("ended")
  /\ UNCHANGED <<tree, dedupe, agent, world, bounds, usage>>

-----------------------------------------------------------------------------
(* The turns of an agent.                                                  *)

\* reviewLanes: round robin over the plan.
Lane(a) == a % Min({Slots, main.files})

\* The lanes are scheduled until the body returns; a lane that throws does not
\* stop the others.
LanesRun ==
  \/ main.pc = "agents"
  \/ main.failure /\ main.pc \in {"finalize", "accept", "fail", "settle"}

MayTakeTurn(a) ==
  /\ agent[a].pc = "rest" /\ ~agent[a].done /\ ~killed
  /\ \/ /\ LanesRun
        /\ a <= main.files
        /\ \A b \in 1..(a - 1) : Lane(b) = Lane(a) => agent[b].done
     \/ a = Survey /\ main.pc = "survey"

\* The step reads item and parent.  A terminal item is only reconciled; a
\* cancelled run or a limit closes it; otherwise the turn goes on.
TurnReads(a) ==
  /\ MayTakeTurn(a)
  /\ \/ /\ items[a] # "selected"
        /\ agent' = [agent EXCEPT ![a].pc = "close"]
     \/ /\ items[a] = "selected" /\ parent.cancelledAt
        /\ agent' = [agent EXCEPT ![a].pc = "close", ![a].close = "cancelled"]
     \/ /\ items[a] = "selected" /\ ~parent.cancelledAt
        /\ \/ agent' = [agent EXCEPT ![a].pc = "call"]
           \/ agent' = [agent EXCEPT ![a].pc = "close", ![a].close = "failed"]
  /\ UNCHANGED <<tree, dedupe, main, world, bounds, usage>>

\* The child's row is not locked by the statement of a cancel request.
ChildFree(a) == ~\E c \in Cancellers : cancel[c] = "items" /\ a \in closing.rows

\* The child is marked running, whatever it has become since the read, and the
\* provider is called.  What the calls of one turn use, to plan the file, to look at it
\* and to validate its findings, is one number, due from here on and counted once it is
\* known; what is wasted on calls that throw, or whose count does, is never counted.
TurnCallsModel(a) ==
  /\ agent[a].pc = "call" /\ ChildFree(a)
  /\ child' = [child EXCEPT ![a] = "running"]
  /\ \E used \in Cost, wasted \in Unreported :
       /\ paid' = paid + used + wasted
       /\ lost' = lost + wasted
       /\ agent' = [agent EXCEPT ![a].pc = "count", ![a].used = used]
  /\ UNCHANGED <<parent, items, money, dedupe, main, world, bounds>>

\* Mutant: the lane does not stop at MAX_TURNS.
TurnCountsUncut(a) ==
  /\ agent[a].pc = "count"
  /\ counted' = counted + agent[a].used
  /\ agent' = [agent EXCEPT ![a].pc = "rest", ![a].used = 0, ![a].turn = @ + 1]
  /\ UNCHANGED <<parent, items, child, charged, dedupe, main, world, bounds,
                 usage>>

\* The usage is added.  An agent that has called finish_file, a last turn and a
\* spent cap go on to close the item; otherwise the lane takes a next turn.
TurnCounts(a) ==
  LET rested == [agent[a] EXCEPT !.used = 0] IN
  /\ agent[a].pc = "count"
  /\ counted' = counted + agent[a].used
  /\ \/ agent' = [agent EXCEPT ![a] =
                    [rested EXCEPT !.pc = "close", !.close = "completed"]]
     \/ /\ agent[a].turn + 1 < MAX_TURNS
        /\ agent' = [agent EXCEPT ![a] =
                       [rested EXCEPT !.pc = "rest", !.turn = @ + 1]]
  /\ UNCHANGED <<parent, items, child, charged, dedupe, main, world, bounds,
                 usage>>

\* What the turn's catch finds uncounted: whatever a call used that threw, or what an
\* answer used whose messages or count could not be written.
Uncounted(a) ==
  IF agent[a].pc = "call" THEN Unreported ELSE {agent[a].used} \intersect Unreported

\* Anything in a turn throws, the closing of a completed item included, or the
\* reservation has no room for the call: the catch closes the item as failed.
TurnFails(a) ==
  /\ \/ agent[a].pc \in {"call", "count"}
     \/ agent[a].pc = "close" /\ agent[a].close = "completed"
  /\ agent[a].pc = "call" => ChildFree(a)
  /\ child' = IF agent[a].pc = "call" THEN [child EXCEPT ![a] = "running"] ELSE child
  /\ \E used \in Uncounted(a) :
       /\ paid' = IF agent[a].pc = "call" THEN paid + used ELSE paid
       /\ lost' = lost + used
  /\ agent' = [agent EXCEPT ![a].pc = "close", ![a].used = 0, ![a].close = "failed"]
  /\ UNCHANGED <<parent, items, money, dedupe, main, world, bounds>>

\* writeTerminalJob's status for an item's state.
ChildStatus(state) == IF state = "completed" THEN "completed" ELSE "failed"

\* The item is canonical: its child agrees, or may also say cancelled.
Agrees(a) ==
  \/ child[a] = ChildStatus(items[a])
  \/ items[a] = "cancelled" /\ child[a] = "cancelled"

\* The worker dies; the runtime replays the turn.
Restart(a) ==
  /\ Fault
  /\ agent' = [agent EXCEPT ![a] = [Resting EXCEPT !.turn = agent[a].turn]]

\* The turn's last write is made: it returns, or it dies first.
CloseReturns(a) ==
  \/ /\ agent' = [agent EXCEPT ![a] = [Resting EXCEPT !.done = TRUE]]
     /\ UNCHANGED bounds
  \/ Restart(a)

\* Mutant: the item is not read again under the lock.
TurnClosesUnread(a) ==
  /\ agent[a].pc = "close"
  /\ items' = IF agent[a].close = "none" THEN items
              ELSE [items EXCEPT ![a] = agent[a].close]
  /\ child' = [child EXCEPT ![a] = ChildStatus(items'[a])]
  /\ CloseReturns(a)
  /\ UNCHANGED <<parent, money, dedupe, main, world, usage>>

\* closeItem, under the tree lock: close a selected item and its child, or make
\* the child agree with the item that another closer has closed.
TurnCloses(a) ==
  /\ agent[a].pc = "close" /\ ~TreeLocked
  /\ IF items[a] = "selected"
       THEN /\ items' = [items EXCEPT ![a] = agent[a].close]
            /\ child' = [child EXCEPT ![a] = ChildStatus(agent[a].close)]
       ELSE /\ child' = IF Agrees(a) THEN child
                        ELSE [child EXCEPT ![a] = ChildStatus(items[a])]
            /\ UNCHANGED items
  /\ CloseReturns(a)
  /\ UNCHANGED <<parent, money, dedupe, main, world, usage>>

\* The worker dies inside a turn, which the runtime replays unless the run is
\* cancelled.
TurnCrashes(a) ==
  /\ agent[a].pc \notin {"rest", "dead"}
  /\ Restart(a)
  /\ UNCHANGED <<tree, dedupe, main, world, usage>>

\* A turn fails for good outside its own error handling, reading or closing: its
\* lane stops, and the body goes on to finalize with a runFailure.
TurnThrows(a) ==
  /\ agent[a].pc = "close"
  /\ Fault
  /\ agent' = [agent EXCEPT ![a] = [Resting EXCEPT !.pc = "dead"]]
  /\ main' = IF main.pc \in {"agents", "survey"} /\ ~killed
               THEN [main EXCEPT !.pc = "finalize", !.failure = TRUE] ELSE main
  /\ UNCHANGED <<tree, dedupe, world, usage>>

-----------------------------------------------------------------------------
(* A cancel request.                                                       *)

\* The request reads the job, and kills its run if it sees one.
CancelKills(c) ==
  /\ cancel[c] = "read"
  /\ killed' = (killed \/ linked)
  /\ cancel' = [cancel EXCEPT ![c] = "write"]
  /\ UNCHANGED <<tree, dedupe, main, agent, linked, closing, bounds, usage>>

CancelWrites(c) ==
  /\ cancel[c] = "write"
  /\ parent' = [parent EXCEPT !.status = "cancelled", !.cancelledAt = TRUE]
  /\ cancel' = [cancel EXCEPT ![c] = "tree"]
  /\ UNCHANGED <<items, child, money, dedupe, run, closing, bounds, usage>>

\* Items that the cancellation closes in its own name.
Rewritten == {"selected", "swept"}

\* Mutant: the tree is closed and not finalized.
CancelClosesItemsOnly(c) ==
  /\ cancel[c] = "items"
  /\ child' = [a \in Agents |-> IF a \in closing.rows THEN "cancelled" ELSE child[a]]
  /\ items' = [a \in Agents |->
                 IF items[a] \in Rewritten THEN "cancelled" ELSE items[a]]
  /\ cancel' = [cancel EXCEPT ![c] = "settle"]
  /\ closing' = Unlocked
  /\ UNCHANGED <<parent, money, dedupe, run, bounds, usage>>

\* cancelDeepReviewTree's first transaction takes the lock and cancels the children
\* that are live ...
CancelClosesTree(c) ==
  /\ cancel[c] = "tree" /\ ~TreeLocked
  /\ closing' = [closing EXCEPT !.rows = {a \in Agents : child[a] \in Live}]
  /\ cancel' = [cancel EXCEPT ![c] = "items"]
  /\ UNCHANGED <<tree, dedupe, run, bounds, usage>>

\* ... and then the items that it finds, those of a plan committed since included.
CancelClosesItems(c) ==
  /\ cancel[c] = "items"
  /\ child' = [a \in Agents |-> IF a \in closing.rows THEN "cancelled" ELSE child[a]]
  /\ items' = [a \in Agents |->
                 IF items[a] \in Rewritten THEN "cancelled" ELSE items[a]]
  /\ cancel' = [cancel EXCEPT ![c] = "finalize"]
  /\ closing' = Unlocked
  /\ UNCHANGED <<parent, money, dedupe, run, bounds, usage>>

\* Its finalizeDeepReview, which expects no particular count, takes the lock again and
\* sweeps ...
CancelSweeps(c) ==
  /\ cancel[c] = "finalize" /\ ~TreeLocked
  /\ closing' = [closing EXCEPT !.rows = {a \in Agents : items[a] = "selected"}]
  /\ cancel' = [cancel EXCEPT ![c] = "coverage"]
  /\ UNCHANGED <<tree, dedupe, run, bounds, usage>>

SweptByCancel ==
  [a \in Agents |-> IF a \in closing.rows THEN "cancelled" ELSE items[a]]

\* ... reads the coverage, where an item that was added since the sweep has it throw,
\* the transaction rolled back ...
CancelReadsCoverage(c) ==
  /\ cancel[c] = "coverage"
  /\ \/ /\ \E a \in Agents : SweptByCancel[a] = "selected"
        /\ closing' = Unlocked
        /\ cancel' = [cancel EXCEPT ![c] = "threw"]
     \/ /\ \A a \in Agents : SweptByCancel[a] # "selected"
        /\ closing' = [closing EXCEPT !.state =
                         TerminalState(Restrict(SweptByCancel, Planned))]
        /\ cancel' = [cancel EXCEPT ![c] = "commit"]
  /\ UNCHANGED <<tree, dedupe, run, bounds, usage>>

\* ... and commits the state that it has read.
CancelFinalizes(c) ==
  /\ cancel[c] = "commit"
  /\ items' = SweptByCancel
  /\ RollUp(closing.state)
  /\ closing' = Unlocked
  /\ cancel' = [cancel EXCEPT ![c] = "accept"]
  /\ UNCHANGED <<dedupe, run, bounds, usage>>

CancelAccepts(c) ==
  /\ cancel[c] = "accept"
  /\ Accept
  /\ cancel' = [cancel EXCEPT ![c] = "settle"]
  /\ UNCHANGED <<items, child, money, dedupe, run, closing, bounds, usage>>

\* The router's own settlement comes last.
CancelSettles(c) ==
  /\ cancel[c] = "settle"
  /\ Settle(0, parent)
  /\ cancel' = [cancel EXCEPT ![c] = "returned"]
  /\ UNCHANGED <<items, child, counted, dedupe, run, closing, bounds, usage>>

-----------------------------------------------------------------------------
MainNext ==
  \/ LinkRun \/ SealPlan \/ CreatePlan \/ AddSurveyItem \/ ReturnPlan \/ StartSurvey
  \/ SurveyDone \/ DedupeFindings \/ SaveDedupe \/ PersistDedupe \/ FinalizeRun
  \/ AcceptRun \/ FailRun \/ SettleFailedRun \/ MainIsStopped

MainFaults ==
  SealThrows \/ DedupeThrows \/ FinalizeThrows \/ MainCrashes \/ SealCrashesLate

TurnNext(a) ==
  \/ TurnReads(a) \/ TurnCallsModel(a) \/ TurnCounts(a) \/ TurnFails(a)
  \/ TurnCloses(a)

TurnFaults(a) == TurnCrashes(a) \/ TurnThrows(a)

CancelNext(c) ==
  \/ CancelKills(c) \/ CancelWrites(c) \/ CancelClosesTree(c) \/ CancelClosesItems(c)
  \/ CancelSweeps(c) \/ CancelReadsCoverage(c) \/ CancelFinalizes(c)
  \/ CancelAccepts(c) \/ CancelSettles(c)

Next ==
  \/ MainNext \/ MainFaults
  \/ \E a \in Agents : TurnNext(a) \/ TurnFaults(a)
  \/ \E c \in Cancellers : CancelNext(c)

Spec == Init /\ [][Next]_vars

\* The runtime schedules every step of a run that is not cancelled, a step in
\* flight ends, and a cancel request that was read goes on.
Fairness ==
  /\ WF_vars(MainNext)
  /\ \A a \in Agents : WF_vars(TurnNext(a))
  /\ \A c \in Cancellers : WF_vars(cancel[c] # "read" /\ CancelNext(c))

FairSpec == Spec /\ Fairness

-----------------------------------------------------------------------------
(* Properties                                                              *)

InFlight(a) == agent[a].pc \notin {"rest", "dead"}
CancelBegun == \E c \in Cancellers : cancel[c] # "read"

\* Coverage is final: no closer overwrites the outcome that another has recorded
\* for a file, but for a cancellation, which names itself in a generic sweep.
CoverageIsFinal ==
  [][\A a \in Agents :
       /\ items[a] \in Done \ {"swept"} => items'[a] = items[a]
       /\ items[a] = "swept" => items'[a] \in {"swept", "cancelled"}]_vars

\* A file that was not reviewed has a stated cause (its own failure, that of the
\* run, a cancellation): none is recorded as merely left over by the run's end.
LeftoversHaveACause == \A a \in Agents : items[a] # "swept"

\* The review's terminal state tells its coverage, also after later closers and
\* late turns, as long as no survey item was added behind a cancellation.
RunStateMatchesCoverage ==
  /\ parent.terminalState \in {"complete", "partial", "failed"}
  /\ items[Survey] # "selected"
  => parent.terminalState = TerminalState(Restrict(items, Planned))

\* Whoever closes the tree first charges what the children have spent by then.
SettlementSeesTheTree ==
  [][~parent.settled /\ parent'.settled /\ main.pc # "settle"
       => charged' = counted]_vars

\* Replays, double closers and late usage never charge more than was used.
NeverOvercharged == charged <= paid

\* A review that neither a crash nor a cancel request disturbed ends with every file
\* covered and every child in agreement with its item, whatever its turns throw and
\* catch.  It is charged for what its calls used but for those that threw, or whose
\* count did: nothing else is forgotten.
UndisturbedReviewIsWhole ==
  main.pc = "ended" /\ faults = 0 /\ ~CancelBegun
    => /\ parent.status = "completed" /\ parent.result /\ parent.settled
       /\ charged + lost = paid
       /\ \A a \in Agents : items[a] \in {"completed", "failed"} /\ Agrees(a)

\* pull-request-review.ts:204: "the denominator finalize asserts against already covers"
\* the survey's item; plan.ts:211: a replayed step "seals nothing twice".  The count that
\* the seal step returns is that of the items.
DenominatorCoversTheItems == main.sealed => main.count = Cardinality(Planned)

\* It is, as long as no step dies behind its last write: not on a replay of the plan
\* alone, nor with cancel requests that close and finalize the tree meanwhile.
PlanSealedOnceIsCovered == lateFaults = 0 => DenominatorCoversTheItems

\* The survey is given what the files' agents found: it never runs beside one.
SurveyRunsAlone ==
  main.pc = "survey" => \A a \in FileAgents : ~InFlight(a) /\ items[a] \in Done

\* An agent that has closed its item leaves a child that agrees with it.
ClosedChildAgrees ==
  \A a \in Agents : agent[a].done /\ items[a] \in Done => Agrees(a)

\* What the rows tell of the files, of their agents and of the run is one story.
CoverageIsConsistent ==
  /\ LeftoversHaveACause /\ RunStateMatchesCoverage
  /\ SurveyRunsAlone /\ ClosedChildAgrees /\ PlanSealedOnceIsCovered

\* The review costs what its calls have used, or less when something was lost.
UsageIsCharged == NeverOvercharged /\ UndisturbedReviewIsWhole

\* The abstract specification: the run and the requests that cancel it settle the review
\* many times, and the month is charged once, for no more than was used by then.
Charge == INSTANCE OneCharge WITH used <- paid, settled <- parent.settled
ReviewImplementsOneCharge == Charge!Spec

\* Whoever closes a file, or the tree, respects what others have closed and charged.
ClosersAgree == CoverageIsFinal /\ SettlementSeesTheTree /\ ReviewImplementsOneCharge

\* The plan is whole, or none is coming: the seal step, whose writes no cancel request
\* waits for, is behind its last or will not be executed again.
PlanRests ==
  \/ items[Survey] # "absent"
  \/ killed /\ main.pc \notin {"seal", "plan", "surveyItem"}

\* A cancelled review comes to rest, its items closed and its usage settled, unless the
\* seal step is still at work when the tree is closed.
CancelClosesTheReview ==
  (PlanRests /\ \E c \in Cancellers : cancel[c] = "tree")
    ~> /\ parent.settled /\ parent.terminalState # "none"
       /\ \A a \in Agents : items[a] \in Done \union {"absent"}
=============================================================================
