------------------------- MODULE DurableWorkProofs -------------------------
(***************************************************************************)
(* Theorems about the durable work of the server, in three parts.          *)
(*                                                                         *)
(* How it is started: WorkflowStart, for any number of requests, runs and  *)
(* faults.  Tokens are handed out once each, a run carries the token of    *)
(* the one claim that started it, and a link, which is only ever made by a *)
(* holder of the current token, stops all further claims.                  *)
(*                                                                         *)
(* What a run that was started is charged: the job of AiJob, for any       *)
(* number of cancel requests, turns and crashes and any prices of calls.   *)
(*                                                                         *)
(* And what asks for the work in the first place: PullRequestIntake, for   *)
(* any number of revisions, deliveries and errors.                         *)
(***************************************************************************)
EXTENDS WorkflowStart, AiJob, PullRequestIntake, TLAPS

Started(r) == run[r].pc # "unborn"

\* A request that has claimed and not yet settled its claim.
Holding(c) == caller[c].pc \in {"start", "link", "fail"}

\* Tokens count the claims, and none is larger than the last.
TokensInOrder ==
  /\ token = claims
  /\ \A c \in Callers : caller[c].token <= claims
  /\ \A r \in Runs : run[r].token <= claims

\* A token belongs to one request ...
OneClaimPerToken ==
  \A c, d \in Callers : Holding(c) /\ Holding(d)
                          /\ caller[c].token = caller[d].token => c = d

\* ... and to at most one run, which exists only once its request has started it.
OneRunPerToken ==
  /\ \A r, q \in Runs : Started(r) /\ Started(q)
                          /\ run[r].token = run[q].token => r = q
  /\ \A c \in Callers : caller[c].pc = "start" =>
       \A r \in Runs : Started(r) => run[r].token # caller[c].token

\* A request about to link knows the run that carries its token.
RequestKnowsItsRun ==
  \A c \in Callers : caller[c].pc = "link" =>
    /\ caller[c].run \in Runs
    /\ Started(caller[c].run)
    /\ run[caller[c].run].token = caller[c].token

\* The linked run carries the current token.
LinkHoldsToken ==
  linkedRun # NoRun => /\ Started(linkedRun)
                       /\ run[linkedRun].token = token

\* A request that returned, and a run past its fence, name the linked run.
LinkIsShared ==
  /\ \A c \in Callers : caller[c].pc = "returned" =>
       caller[c].run = linkedRun /\ linkedRun # NoRun
  /\ \A r \in Runs : run[r].pc \in Working => linkedRun = r

\* As long as no link transaction has failed, a run in its catch block was linked.
CatchAfterFence ==
  linkFaults = 0 =>
    \A r \in Runs : run[r].pc \in {"failing", "failLink"} => linkedRun = r

IInv == /\ TypeOK
        /\ TokensInOrder
        /\ OneClaimPerToken
        /\ OneRunPerToken
        /\ RequestKnowsItsRun
        /\ LinkHoldsToken
        /\ LinkIsShared
        /\ CatchAfterFence

-----------------------------------------------------------------------------
(* Type correctness.                                                       *)

CallerRecord == [pc: CallerPc, token: Nat, run: Runs \union {NoRun}]
RunRecord == [pc: RunPc, token: Nat, turn: 0..AI_MAX_MODEL_STEPS]

LEMMA TypeOKInit == Init => TypeOK
  BY WorkflowStartAssumption DEF Init, TypeOK, JobStatus, CallerPc, RunPc

\* What a successful or refused link transaction leaves in the row.
LEMMA EnsureLinkType ==
  ASSUME TypeOK, NEW r \in Runs \union {NoRun}, NEW t \in Nat, EnsureLink(r, t)
  PROVE  /\ status' \in JobStatus
         /\ token' \in Nat
         /\ lease' \in {"none", "held", "expired"}
         /\ linkedRun' \in Runs \union {NoRun}
  BY DEF TypeOK, EnsureLink, LinkOutcome, Conflicts

LEMMA TypeOKStep == TypeOK /\ [Next]_vars => TypeOK'
  <1> SUFFICES ASSUME TypeOK, [Next]_vars
               PROVE  TypeOK'
    OBVIOUS
  <1> USE WorkflowStartAssumption DEF TypeOK, JobStatus, CallerPc, RunPc, target,
                                      FailAiJob
  <1>1. ASSUME NEW c \in Callers, ReserveFindsLink(c) PROVE TypeOK'
    <2>1. [caller[c] EXCEPT !.pc = "returned", !.run = linkedRun] \in CallerRecord
      BY DEF CallerRecord
    <2> QED
      BY <1>1, <2>1 DEF ReserveFindsLink, CallerRecord
  <1>2. ASSUME NEW c \in Callers, ReserveClaims(c) PROVE TypeOK'
    <2>0. claims + 1 \in Nat
      OBVIOUS
    <2>1. [caller[c] EXCEPT !.pc = "start", !.token = claims + 1] \in CallerRecord
      BY <2>0 DEF CallerRecord
    <2> QED
      BY <1>2, <2>0, <2>1 DEF ReserveClaims, CallerRecord
  <1>3. ASSUME NEW c \in Callers, ReserveRefused(c) PROVE TypeOK'
    BY <1>3 DEF ReserveRefused
  <1>4. ASSUME NEW c \in Callers, StartRun(c) PROVE TypeOK'
    <2> PICK r \in Runs :
           /\ ProviderCreates(r, caller[c].token)
           /\ caller' = [caller EXCEPT ![c].pc = "link", ![c].run = r]
      BY <1>4 DEF StartRun
    <2>1. [caller[c] EXCEPT !.pc = "link", !.run = r] \in CallerRecord
      BY DEF CallerRecord
    <2>2. [run[r] EXCEPT !.pc = "link", !.token = caller[c].token] \in RunRecord
      BY DEF RunRecord
    <2> QED
      BY <1>4, <2>1, <2>2 DEF StartRun, ProviderCreates, CallerRecord, RunRecord
  <1>5. ASSUME NEW c \in Callers, StartThrows(c) PROVE TypeOK'
    <2>1. ASSUME NEW r \in Runs, ProviderCreates(r, caller[c].token)
          PROVE  run' \in [Runs -> RunRecord]
      <3>1. [run[r] EXCEPT !.pc = "link", !.token = caller[c].token] \in RunRecord
        BY DEF RunRecord
      <3> QED
        BY <2>1, <3>1 DEF ProviderCreates, RunRecord
    <2>2. run' \in [Runs -> RunRecord]
      BY <1>5, <2>1 DEF StartThrows, RunRecord
    <2> QED
      BY <1>5, <2>2 DEF StartThrows, RunRecord
  <1>6. ASSUME NEW c \in Callers, FailStart(c) PROVE TypeOK'
    BY <1>6 DEF FailStart
  <1>7. ASSUME NEW c \in Callers, LinkStarted(c) PROVE TypeOK'
    BY <1>7, EnsureLinkType DEF LinkStarted
  <1>8. ASSUME NEW c \in Callers, CallerDies(c) PROVE TypeOK'
    BY <1>8 DEF CallerDies
  <1>9. ASSUME NEW r \in Runs, RunLinks(r) PROVE TypeOK'
    BY <1>9, EnsureLinkType DEF RunLinks
  <1>10. ASSUME NEW r \in Runs, RunLinkFails(r) PROVE TypeOK'
    BY <1>10 DEF RunLinkFails
  <1>11. ASSUME NEW r \in Runs, RunReads(r) PROVE TypeOK'
    BY <1>11 DEF RunReads
  <1>12. ASSUME NEW r \in Runs, RunMarksRunning(r) PROVE TypeOK'
    BY <1>12 DEF RunMarksRunning
  <1>13. ASSUME NEW r \in Runs, RunContinues(r) PROVE TypeOK'
    <2>1. [run[r] EXCEPT !.pc = "link", !.turn = @ + 1] \in RunRecord
      BY <1>13 DEF RunContinues, LastStep, RunRecord
    <2> QED
      BY <1>13, <2>1 DEF RunContinues, RunRecord
  <1>14. ASSUME NEW r \in Runs, RunCompletes(r) PROVE TypeOK'
    BY <1>14 DEF RunCompletes
  <1>15. ASSUME NEW r \in Runs, RunThrows(r) PROVE TypeOK'
    BY <1>15 DEF RunThrows
  <1>16. ASSUME NEW r \in Runs, RunFailsJob(r) PROVE TypeOK'
    BY <1>16 DEF RunFailsJob
  <1>17. ASSUME NEW r \in Runs, RunFailLinks(r) PROVE TypeOK'
    BY <1>17, EnsureLinkType DEF RunFailLinks
  <1>18. ASSUME NEW r \in Runs, RunDies(r) PROVE TypeOK'
    BY <1>18 DEF RunDies
  <1>19. CASE LeaseExpires
    BY <1>19 DEF LeaseExpires
  <1>20. CASE UNCHANGED vars
    BY <1>20 DEF vars
  <1>21. ASSUME NEW c \in Callers, FailStartedJob(c) PROVE TypeOK'
    BY <1>21 DEF FailStartedJob
  <1>22. ASSUME NEW r \in Runs, RunCallsModel(r) PROVE TypeOK'
    BY <1>22 DEF RunCallsModel
  <1>23. ASSUME NEW r \in Runs, RunStreams(r) PROVE TypeOK'
    BY <1>23 DEF RunStreams
  <1>24. ASSUME NEW r \in Runs, RunCloses(r) PROVE TypeOK'
    BY <1>24 DEF RunCloses
  <1> QED
    BY <1>1, <1>2, <1>3, <1>4, <1>5, <1>6, <1>7, <1>8, <1>9, <1>10, <1>11,
       <1>12, <1>13, <1>14, <1>15, <1>16, <1>17, <1>18, <1>19, <1>20, <1>21,
       <1>22, <1>23, <1>24
       DEF Next, CallerNext, RunNext

\* Every variable keeps its type, for any number of requests, runs and faults.
THEOREM TypeCorrect == Spec => []TypeOK
  BY TypeOKInit, TypeOKStep, PTL DEF Spec

-----------------------------------------------------------------------------
(* The inductive invariant.                                                *)

LEMMA IInvInit == Init => IInv
  <1> SUFFICES ASSUME Init PROVE IInv
    OBVIOUS
  <1>1. TypeOK
    BY TypeOKInit
  <1> QED
    BY <1>1 DEF Init, IInv, TokensInOrder, OneClaimPerToken, OneRunPerToken,
       RequestKnowsItsRun, LinkHoldsToken, LinkIsShared, CatchAfterFence,
       Holding, Started, Working

\* What a link transaction does to the target, by outcome.
LEMMA EnsureLinkEffect ==
  ASSUME IInv, NEW r \in Runs, NEW t \in Nat, EnsureLink(r, t),
         t = run[r].token, Started(r)
  PROVE  /\ LinkOutcome(r, t) \in {"null", "linked"}
         /\ token' = token
         /\ linkedRun # NoRun => linkedRun' = linkedRun
         /\ LinkOutcome(r, t) = "linked" => linkedRun' = r /\ token = t
         /\ LinkOutcome(r, t) = "null" => linkedRun' = linkedRun
  BY DEF IInv, TypeOK, EnsureLink, LinkOutcome, Fenced, Conflicts,
         LinkHoldsToken, OneRunPerToken, Started

\* A request's claim becomes a run: the only step that gives a run a token.
LEMMA StartedRunIsNew ==
  ASSUME IInv, TypeOK', NEW c \in Callers, NEW r \in Runs, NEW pc,
         caller[c].pc = "start",
         ProviderCreates(r, caller[c].token),
         pc \in {"link", "fail"},
         caller'[c].pc = pc,
         caller'[c].token = caller[c].token,
         pc = "link" => caller'[c].run = r,
         \A d \in Callers \ {c} : caller'[d] = caller[d],
         UNCHANGED <<token, linkedRun, claims, linkFaults>>
  PROVE  IInv'
  <1>1. /\ run[r].pc = "unborn" /\ run'[r].pc = "link"
        /\ run'[r].token = caller[c].token
        /\ \A q \in Runs \ {r} : run'[q] = run[q]
    BY DEF ProviderCreates, IInv, TypeOK
  <1>2. TokensInOrder'
    BY <1>1 DEF IInv, TokensInOrder
  <1>3. OneClaimPerToken'
    BY <1>1 DEF IInv, OneClaimPerToken, Holding
  <1>4. OneRunPerToken'
    <2>1. \A q \in Runs : Started(q) => run[q].token # caller[c].token
      BY DEF IInv, OneRunPerToken
    <2>2. ASSUME NEW p \in Runs, NEW q \in Runs, Started(p)', Started(q)',
                 run'[p].token = run'[q].token
          PROVE  p = q
      BY <1>1, <2>1, <2>2 DEF IInv, OneRunPerToken, Started
    <2>3. ASSUME NEW d \in Callers, caller'[d].pc = "start",
                 NEW q \in Runs, Started(q)'
          PROVE  run'[q].token # caller'[d].token
      <3>1. d # c /\ caller'[d] = caller[d]
        BY <2>3
      <3>2. caller[d].token # caller[c].token
        BY <2>3, <3>1 DEF IInv, OneClaimPerToken, Holding
      <3>3. CASE q = r
        BY <1>1, <3>1, <3>2, <3>3
      <3>4. CASE q # r
        BY <1>1, <2>3, <3>1, <3>4 DEF IInv, OneRunPerToken, Started
      <3> QED
        BY <3>3, <3>4
    <2> QED
      BY <2>2, <2>3 DEF OneRunPerToken
  <1>5. RequestKnowsItsRun'
    BY <1>1 DEF IInv, RequestKnowsItsRun, Started
  <1>6. LinkHoldsToken'
    BY <1>1 DEF IInv, LinkHoldsToken, Started, TypeOK
  <1>7. LinkIsShared' /\ CatchAfterFence'
    BY <1>1 DEF IInv, LinkIsShared, CatchAfterFence, Working
  <1> QED
    BY <1>2, <1>3, <1>4, <1>5, <1>6, <1>7 DEF IInv

LEMMA StartRunStep ==
  ASSUME IInv, TypeOK', NEW c \in Callers, StartRun(c)
  PROVE  IInv'
  <1> PICK r \in Runs :
         /\ ProviderCreates(r, caller[c].token)
         /\ caller' = [caller EXCEPT ![c].pc = "link", ![c].run = r]
    BY DEF StartRun
  <1>1. /\ caller[c].pc = "start" /\ caller'[c].pc = "link"
        /\ caller'[c].run = r /\ caller'[c].token = caller[c].token
        /\ \A d \in Callers \ {c} : caller'[d] = caller[d]
        /\ UNCHANGED <<token, linkedRun, claims, linkFaults>>
    BY DEF StartRun, IInv, TypeOK, target
  <1> QED
    BY <1>1, StartedRunIsNew

LEMMA StartThrowsStep ==
  ASSUME IInv, TypeOK', NEW c \in Callers, StartThrows(c)
  PROVE  IInv'
  <1>1. /\ caller[c].pc = "start" /\ caller'[c].pc = "fail"
        /\ caller'[c].token = caller[c].token
        /\ \A d \in Callers \ {c} : caller'[d] = caller[d]
        /\ UNCHANGED <<token, linkedRun, claims, linkFaults>>
    BY DEF StartThrows, IInv, TypeOK, target
  <1>2. CASE UNCHANGED run
    <2>1. TokensInOrder' /\ LinkHoldsToken' /\ CatchAfterFence' /\ LinkIsShared'
      BY <1>1, <1>2 DEF IInv, TokensInOrder, LinkHoldsToken, CatchAfterFence,
                        LinkIsShared, Started
    <2>2. OneClaimPerToken' /\ RequestKnowsItsRun'
      BY <1>1, <1>2 DEF IInv, OneClaimPerToken, RequestKnowsItsRun, Holding,
                        Started
    <2>3. OneRunPerToken'
      BY <1>1, <1>2 DEF IInv, OneRunPerToken, Started
    <2> QED
      BY <2>1, <2>2, <2>3 DEF IInv
  <1>3. ASSUME NEW r \in Runs, ProviderCreates(r, caller[c].token)
        PROVE  IInv'
    BY <1>1, <1>3, StartedRunIsNew
  <1> QED
    BY <1>2, <1>3 DEF StartThrows

LEMMA LinkStartedStep ==
  ASSUME IInv, TypeOK', NEW c \in Callers, LinkStarted(c)
  PROVE  IInv'
  <1> DEFINE r == caller[c].run
             outcome == LinkOutcome(r, caller[c].token)
  <1>1. r \in Runs /\ Started(r) /\ run[r].token = caller[c].token
    BY DEF LinkStarted, IInv, RequestKnowsItsRun
  <1>2. /\ outcome \in {"null", "linked"}
        /\ token' = token
        /\ linkedRun # NoRun => linkedRun' = linkedRun
        /\ outcome = "linked" => linkedRun' = r /\ token = caller[c].token
        /\ outcome = "null" => linkedRun' = linkedRun
    <2>1. caller[c].token \in Nat /\ EnsureLink(r, caller[c].token)
      BY DEF LinkStarted, IInv, TypeOK
    <2> QED
      BY <1>1, <2>1, EnsureLinkEffect
  <1> HIDE DEF outcome
  <1>3. /\ UNCHANGED <<run, claims, linkFaults>>
        /\ caller[c].pc = "link"
        /\ caller'[c].token = caller[c].token
        /\ caller'[c].run = caller[c].run
        /\ caller'[c].pc = IF outcome = "null" THEN "reserve" ELSE "returned"
        /\ \A d \in Callers \ {c} : caller'[d] = caller[d]
    BY <1>2 DEF LinkStarted, IInv, TypeOK, outcome
  <1>4. r # NoRun
    BY <1>1, WorkflowStartAssumption
  <1>5. LinkIsShared'
    <2>1. ASSUME NEW d \in Callers, caller'[d].pc = "returned"
          PROVE  caller'[d].run = linkedRun' /\ linkedRun' # NoRun
      <3>1. CASE d = c
        BY <1>1, <1>2, <1>3, <1>4, <2>1, <3>1
      <3>2. CASE d # c
        <4>1. caller[d].pc = "returned" /\ caller'[d].run = caller[d].run
          BY <1>3, <2>1, <3>2
        <4> QED
          BY <1>2, <4>1 DEF IInv, LinkIsShared
      <3> QED
        BY <3>1, <3>2
    <2>2. ASSUME NEW q \in Runs, run'[q].pc \in Working
          PROVE  linkedRun' = q
      <3>1. linkedRun = q /\ q # NoRun
        BY <1>3, <2>2, WorkflowStartAssumption DEF IInv, LinkIsShared
      <3> QED
        BY <1>2, <3>1
    <2> QED
      BY <2>1, <2>2 DEF LinkIsShared
  <1>6. CatchAfterFence'
    <2> SUFFICES ASSUME linkFaults' = 0, NEW q \in Runs,
                        run'[q].pc \in {"failing", "failLink"}
                 PROVE  linkedRun' = q
      BY DEF CatchAfterFence
    <2>1. linkedRun = q /\ q # NoRun
      BY <1>3, WorkflowStartAssumption DEF IInv, CatchAfterFence
    <2> QED
      BY <1>2, <2>1
  <1>7. LinkHoldsToken'
    BY <1>1, <1>2, <1>3 DEF IInv, LinkHoldsToken, Started
  <1>8. TokensInOrder' /\ RequestKnowsItsRun'
    BY <1>2, <1>3 DEF IInv, TokensInOrder, RequestKnowsItsRun, Started
  <1>9. OneClaimPerToken' /\ OneRunPerToken'
    BY <1>2, <1>3 DEF IInv, OneClaimPerToken, OneRunPerToken, Holding, Started
  <1> QED
    BY <1>5, <1>6, <1>7, <1>8, <1>9 DEF IInv

\* The two steps in which a run presents its own token.
LEMMA RunPresentsToken ==
  ASSUME IInv, TypeOK', NEW r \in Runs, NEW yes \in {"read", "failed"},
         run[r].pc \in {"link", "failLink"},
         EnsureLink(r, run[r].token),
         run' = [run EXCEPT ![r].pc =
                   IF LinkOutcome(r, run[r].token) = "null" THEN "superseded" ELSE yes],
         UNCHANGED <<caller, claims, linkFaults>>
  PROVE  IInv'
  <1> DEFINE outcome == LinkOutcome(r, run[r].token)
  <1>1. /\ outcome \in {"null", "linked"}
        /\ token' = token
        /\ linkedRun # NoRun => linkedRun' = linkedRun
        /\ outcome = "linked" => linkedRun' = r /\ token = run[r].token
        /\ outcome = "null" => linkedRun' = linkedRun
    <2>1. Started(r) /\ run[r].token \in Nat
      BY DEF IInv, TypeOK, Started
    <2> QED
      BY <2>1, EnsureLinkEffect
  <1>2. /\ run'[r].token = run[r].token
        /\ run'[r].pc = IF outcome = "null" THEN "superseded" ELSE yes
        /\ \A q \in Runs \ {r} : run'[q] = run[q]
    BY DEF IInv, TypeOK
  <1> HIDE DEF outcome
  <1>3. LinkIsShared'
    <2>1. ASSUME NEW d \in Callers, caller'[d].pc = "returned"
          PROVE  caller'[d].run = linkedRun' /\ linkedRun' # NoRun
      BY <1>1, <2>1 DEF IInv, LinkIsShared
    <2>2. ASSUME NEW q \in Runs, run'[q].pc \in Working
          PROVE  linkedRun' = q
      <3>1. CASE q = r
        BY <1>1, <1>2, <2>2, <3>1 DEF Working
      <3>2. CASE q # r
        <4>1. linkedRun = q /\ q # NoRun
          BY <1>2, <2>2, <3>2, WorkflowStartAssumption DEF IInv, LinkIsShared
        <4> QED
          BY <1>1, <4>1
      <3> QED
        BY <3>1, <3>2
    <2> QED
      BY <2>1, <2>2 DEF LinkIsShared
  <1>4. CatchAfterFence'
    BY <1>1, <1>2, WorkflowStartAssumption DEF IInv, CatchAfterFence
  <1>5. LinkHoldsToken'
    BY <1>1, <1>2 DEF IInv, LinkHoldsToken, Started, TypeOK
  <1>6. TokensInOrder' /\ OneClaimPerToken'
    BY <1>1, <1>2 DEF IInv, TokensInOrder, OneClaimPerToken, Holding
  <1>7. \A q \in Runs : run'[q].token = run[q].token /\ (Started(q)' <=> Started(q))
    BY <1>2 DEF Started
  <1>8. OneRunPerToken' /\ RequestKnowsItsRun'
    BY <1>7 DEF IInv, OneRunPerToken, RequestKnowsItsRun
  <1> QED
    BY <1>3, <1>4, <1>5, <1>6, <1>8 DEF IInv

\* A run that holds its own token never meets another run's link.
LEMMA RunOutcome ==
  ASSUME IInv, NEW r \in Runs, Started(r)
  PROVE  LinkOutcome(r, run[r].token) \in {"null", "linked"}
  BY DEF IInv, TypeOK, LinkOutcome, Fenced, Conflicts, LinkHoldsToken,
         OneRunPerToken, Started

LEMMA RunLinksStep ==
  ASSUME IInv, TypeOK', NEW r \in Runs, RunLinks(r)
  PROVE  IInv'
  <1>1. run[r].pc = "link" /\ Started(r)
    BY DEF RunLinks, Started
  <1>2. LinkOutcome(r, run[r].token) \in {"null", "linked"}
    BY <1>1, RunOutcome
  <1>3. run' = [run EXCEPT ![r].pc =
          IF LinkOutcome(r, run[r].token) = "null" THEN "superseded" ELSE "read"]
    BY <1>2 DEF RunLinks
  <1>4. EnsureLink(r, run[r].token) /\ UNCHANGED <<caller, claims, linkFaults>>
    BY DEF RunLinks
  <1>5. "read" \in {"read", "failed"} /\ run[r].pc \in {"link", "failLink"}
    BY <1>1
  <1> QED
    BY <1>3, <1>4, <1>5, RunPresentsToken

LEMMA RunFailLinksStep ==
  ASSUME IInv, TypeOK', NEW r \in Runs, RunFailLinks(r)
  PROVE  IInv'
  <1>1. run[r].pc = "failLink" /\ Started(r)
    BY DEF RunFailLinks, Started
  <1>2. LinkOutcome(r, run[r].token) \in {"null", "linked"}
    BY <1>1, RunOutcome
  <1>3. run' = [run EXCEPT ![r].pc =
          IF LinkOutcome(r, run[r].token) = "null" THEN "superseded" ELSE "failed"]
    BY <1>2 DEF RunFailLinks
  <1>4. EnsureLink(r, run[r].token) /\ UNCHANGED <<caller, claims, linkFaults>>
    BY DEF RunFailLinks
  <1>5. "failed" \in {"read", "failed"} /\ run[r].pc \in {"link", "failLink"}
    BY <1>1
  <1> QED
    BY <1>3, <1>4, <1>5, RunPresentsToken

\* The compensating write moves its request on and changes no token and no link.
LEMMA FailStartStep ==
  ASSUME IInv, TypeOK', NEW c \in Callers, FailStart(c)
  PROVE  IInv'
  <1>1. /\ caller'[c].token = caller[c].token
        /\ caller'[c].pc \in {"failJob", "threw"}
        /\ \A d \in Callers \ {c} : caller'[d] = caller[d]
        /\ UNCHANGED <<token, linkedRun, run, claims, linkFaults>>
    BY DEF FailStart, IInv, TypeOK
  <1>2. TokensInOrder' /\ OneClaimPerToken' /\ OneRunPerToken'
    BY <1>1 DEF IInv, TokensInOrder, OneClaimPerToken, OneRunPerToken, Holding,
                Started
  <1>3. RequestKnowsItsRun' /\ LinkHoldsToken'
    BY <1>1 DEF IInv, RequestKnowsItsRun, LinkHoldsToken, Started
  <1>4. LinkIsShared' /\ CatchAfterFence'
    BY <1>1 DEF IInv, LinkIsShared, CatchAfterFence
  <1> QED
    BY <1>2, <1>3, <1>4 DEF IInv

LEMMA IInvStep == IInv /\ [Next]_vars => IInv'
  <1> SUFFICES ASSUME IInv, [Next]_vars
               PROVE  IInv'
    OBVIOUS
  <1>0. TypeOK /\ TypeOK'
    BY TypeOKStep DEF IInv
  <1> USE WorkflowStartAssumption, <1>0
      DEF IInv, TokensInOrder, OneClaimPerToken, OneRunPerToken,
            RequestKnowsItsRun, LinkHoldsToken, LinkIsShared, CatchAfterFence,
            Holding, Started, Working, TypeOK, target
  <1>1. ASSUME NEW c \in Callers, ReserveFindsLink(c) PROVE IInv'
    BY <1>1 DEF ReserveFindsLink
  <1>2. ASSUME NEW c \in Callers, ReserveClaims(c) PROVE IInv'
    BY <1>2 DEF ReserveClaims
  <1>3. ASSUME NEW c \in Callers, ReserveRefused(c) PROVE IInv'
    BY <1>3 DEF ReserveRefused
  <1>4. ASSUME NEW c \in Callers, StartRun(c) PROVE IInv'
    BY <1>4, StartRunStep
  <1>5. ASSUME NEW c \in Callers, StartThrows(c) PROVE IInv'
    BY <1>5, StartThrowsStep
  <1>6. ASSUME NEW c \in Callers, FailStart(c) PROVE IInv'
    BY <1>6, FailStartStep
  <1>7. ASSUME NEW c \in Callers, LinkStarted(c) PROVE IInv'
    BY <1>7, LinkStartedStep
  <1>8. ASSUME NEW c \in Callers, CallerDies(c) PROVE IInv'
    BY <1>8 DEF CallerDies
  <1>9. ASSUME NEW r \in Runs, RunLinks(r) PROVE IInv'
    BY <1>9, RunLinksStep
  <1>10. ASSUME NEW r \in Runs, RunLinkFails(r) PROVE IInv'
    BY <1>10 DEF RunLinkFails
  <1>11. ASSUME NEW r \in Runs, RunReads(r) PROVE IInv'
    BY <1>11 DEF RunReads
  <1>12. ASSUME NEW r \in Runs, RunMarksRunning(r) PROVE IInv'
    BY <1>12 DEF RunMarksRunning
  <1>13. ASSUME NEW r \in Runs, RunContinues(r) PROVE IInv'
    BY <1>13 DEF RunContinues
  <1>14. ASSUME NEW r \in Runs, RunCompletes(r) PROVE IInv'
    BY <1>14 DEF RunCompletes
  <1>15. ASSUME NEW r \in Runs, RunThrows(r) PROVE IInv'
    BY <1>15 DEF RunThrows
  <1>16. ASSUME NEW r \in Runs, RunFailsJob(r) PROVE IInv'
    BY <1>16 DEF RunFailsJob
  <1>17. ASSUME NEW r \in Runs, RunFailLinks(r) PROVE IInv'
    BY <1>17, RunFailLinksStep
  <1>18. ASSUME NEW r \in Runs, RunDies(r) PROVE IInv'
    BY <1>18 DEF RunDies
  <1>19. CASE LeaseExpires
    BY <1>19 DEF LeaseExpires
  <1>20. CASE UNCHANGED vars
    BY <1>20 DEF vars
  <1>21. ASSUME NEW c \in Callers, FailStartedJob(c) PROVE IInv'
    BY <1>21 DEF FailStartedJob
  <1>22. ASSUME NEW r \in Runs, RunCallsModel(r) PROVE IInv'
    BY <1>22 DEF RunCallsModel
  <1>23. ASSUME NEW r \in Runs, RunStreams(r) PROVE IInv'
    BY <1>23 DEF RunStreams
  <1>24. ASSUME NEW r \in Runs, RunCloses(r) PROVE IInv'
    BY <1>24 DEF RunCloses
  <1> QED
    BY <1>1, <1>2, <1>3, <1>4, <1>5, <1>6, <1>7, <1>8, <1>9, <1>10, <1>11,
       <1>12, <1>13, <1>14, <1>15, <1>16, <1>17, <1>18, <1>19, <1>20, <1>21,
       <1>22, <1>23, <1>24
       DEF Next, CallerNext, RunNext

\* The invariant that the results below follow from: tokens, claims, runs and
\* the link correspond as the fence of ensureWorkflowRunLink needs them to.
THEOREM Invariance == Spec => []IInv
  BY IInvInit, IInvStep, PTL DEF Spec

-----------------------------------------------------------------------------
(* What follows.                                                           *)

\* Two runs never work on one job: a run past the fence of its step is the one
\* the job is linked to.
THEOREM OneWorker == Spec => []OnlyTheLinkedRunWorks
  <1>1. IInv => OnlyTheLinkedRunWorks
    BY DEF IInv, LinkIsShared, OnlyTheLinkedRunWorks
  <1> QED
    BY <1>1, Invariance, PTL

\* Requests that return from establishReservedWorkflow agree on the run.
THEOREM OneAnswer == Spec => []RequestsAgree
  <1>1. IInv => RequestsAgree
    BY DEF IInv, LinkIsShared, RequestsAgree
  <1> QED
    BY <1>1, Invariance, PTL

\* ensureWorkflowRunLink never meets another run's link with a current token.
THEOREM NoConflict == Spec => []LinkNeverConflicts
  <1>1. ASSUME IInv, NEW r \in Runs, Started(r), ~Fenced(run[r].token)
        PROVE  ~Conflicts(r)
    BY <1>1 DEF IInv, TypeOK, Fenced, Conflicts, LinkHoldsToken, OneRunPerToken
  <1>2. ASSUME IInv, NEW c \in Callers, caller[c].pc = "link",
               ~Fenced(caller[c].token)
        PROVE  ~Conflicts(caller[c].run)
    BY <1>1, <1>2 DEF IInv, RequestKnowsItsRun
  <1>3. IInv => LinkNeverConflicts
    BY <1>1, <1>2 DEF LinkNeverConflicts, Started
  <1> QED
    BY <1>3, Invariance, PTL

\* The link is unique: only the linked run works, every request that returns
\* names it, and a holder of the current token never meets another run's link.
THEOREM UniqueLink == Spec => []LinkIsUnique
  <1>1. OnlyTheLinkedRunWorks /\ RequestsAgree /\ LinkNeverConflicts
          <=> LinkIsUnique
    BY DEF LinkIsUnique
  <1> QED
    BY <1>1, OneWorker, OneAnswer, NoConflict, PTL

\* A step that changes the job's status belongs to the run that holds its token, or
\* is the catch block of a turn behind a failed link transaction, which writes
\* before it asks: nothing else gets around the fence.
THEOREM OnlyFailedLinksPassTheFence == Spec => FencedRunNeverWrites
  <1> DEFINE OnlyHolders ==
               \A r \in Runs : run'[r] # run[r] /\ status' # status =>
                 \/ run[r].token = token
                 \/ linkFaults > 0 /\ run[r].pc = "failing" /\ status' = "failed"
  <1>1. ASSUME IInv, [Next]_vars PROVE OnlyHolders
    <2> SUFFICES ASSUME NEW r \in Runs, run'[r] # run[r], status' # status
                 PROVE  \/ run[r].token = token
                        \/ linkFaults > 0 /\ run[r].pc = "failing" /\ status' = "failed"
      OBVIOUS
    <2>1. ASSUME NEW q \in Runs,
                 RunMarksRunning(q) \/ RunCallsModel(q) \/ RunCompletes(q)
                   \/ RunFailsJob(q)
          PROVE  \/ linkedRun = r
                 \/ linkFaults > 0 /\ run[r].pc = "failing" /\ status' = "failed"
      <3>1. q = r
        BY <1>1, <2>1 DEF RunMarksRunning, RunCallsModel, RunCompletes,
             RunFailsJob, IInv, TypeOK
      <3>2. run[q].pc \in Working \union {"failing"}
        BY <2>1 DEF RunMarksRunning, RunCallsModel, RunCompletes, RunFailsJob,
             Working
      <3>3. run[q].pc = "failing" => status' = "failed"
        BY <2>1 DEF RunMarksRunning, RunCallsModel, RunCompletes, RunFailsJob, FailAiJob
      <3> QED
        BY <1>1, <3>1, <3>2, <3>3 DEF IInv, TypeOK, LinkIsShared, CatchAfterFence
    <2>2. \E q \in Runs : RunMarksRunning(q) \/ RunCallsModel(q)
                            \/ RunCompletes(q) \/ RunFailsJob(q)
      <3>1. ASSUME NEW c \in Callers, CallerNext(c) PROVE FALSE
        BY <1>1, <3>1 DEF CallerNext, ReserveFindsLink, ReserveClaims,
           ReserveRefused, StartRun, StartThrows, FailStart, FailStartedJob,
           LinkStarted, CallerDies, EnsureLink, target
      <3>2. ~LeaseExpires /\ ~UNCHANGED vars
        BY DEF LeaseExpires, vars, target
      <3>3. PICK q \in Runs : RunNext(q)
        BY <1>1, <3>1, <3>2 DEF Next
      <3>4. ~RunLinks(q) /\ ~RunLinkFails(q) /\ ~RunReads(q) /\ ~RunStreams(q)
        BY DEF RunLinks, RunLinkFails, RunReads, RunStreams, EnsureLink, target
      <3>5. /\ ~RunContinues(q) /\ ~RunCloses(q) /\ ~RunThrows(q) /\ ~RunFailLinks(q)
            /\ ~RunDies(q)
        BY DEF RunContinues, RunCloses, RunThrows, RunFailLinks, RunDies, EnsureLink, target
      <3> QED
        BY <3>3, <3>4, <3>5 DEF RunNext
    <2>3. CASE linkedRun = r
      BY <1>1, <2>3, WorkflowStartAssumption DEF IInv, LinkHoldsToken
    <2> QED
      BY <2>1, <2>2, <2>3
  <1> QED
    BY <1>1, Invariance, PTL DEF Spec, FencedRunNeverWrites

\* The first write of a run's turn ends the queue for good: it is made with the
\* link, which no claim passes.
WorkLeavesQueue == worked # {} => linkedRun # NoRun /\ status # "queued"

\* A link, once made, stays.
LEMMA LinkStays ==
  ASSUME IInv, [Next]_vars, linkedRun # NoRun
  PROVE  linkedRun' = linkedRun
<1>1. ASSUME NEW c \in Callers, CallerNext(c) PROVE linkedRun' = linkedRun
  BY <1>1 DEF CallerNext, ReserveFindsLink, ReserveClaims, ReserveRefused, StartRun,
     StartThrows, FailStart, FailStartedJob, LinkStarted, CallerDies, EnsureLink, target
<1>2. ASSUME NEW r \in Runs, RunNext(r) PROVE linkedRun' = linkedRun
  BY <1>2 DEF RunNext, RunLinks, RunLinkFails, RunReads, RunMarksRunning, RunCallsModel,
     RunStreams, RunContinues, RunCompletes, RunCloses, RunThrows, RunFailsJob, RunFailLinks, RunDies,
     EnsureLink, target
<1> QED BY <1>1, <1>2 DEF Next, LeaseExpires, vars, target

\* Only a claim queues the job, and only an unlinked one can be claimed.
LEMMA OnlyClaimsQueue ==
  ASSUME IInv, [Next]_vars, linkedRun # NoRun, status # "queued"
  PROVE  status' # "queued"
<1>1. ASSUME NEW c \in Callers, CallerNext(c) PROVE status' # "queued"
  BY <1>1 DEF CallerNext, ReserveFindsLink, ReserveClaims, ReserveRefused, StartRun,
     StartThrows, FailStart, FailStartedJob, LinkStarted, CallerDies, EnsureLink, target,
     CanClaim, FailAiJob
<1>2. ASSUME NEW r \in Runs, RunNext(r) PROVE status' # "queued"
  BY <1>2 DEF RunNext, RunLinks, RunLinkFails, RunReads, RunMarksRunning, RunCallsModel,
     RunStreams, RunContinues, RunCompletes, RunCloses, RunThrows, RunFailsJob, RunFailLinks, RunDies,
     EnsureLink, target, FailAiJob
<1> QED BY <1>1, <1>2 DEF Next, LeaseExpires, vars, target

\* A run that begins to work is the linked one, and takes the job out of the queue.
LEMMA WorkersAreLinked ==
  ASSUME IInv, [Next]_vars
  PROVE  worked' = worked \/ (linkedRun' # NoRun /\ status' # "queued")
<1>1. ASSUME NEW c \in Callers, CallerNext(c) PROVE worked' = worked
  BY <1>1 DEF CallerNext, ReserveFindsLink, ReserveClaims, ReserveRefused, StartRun,
     StartThrows, FailStart, FailStartedJob, LinkStarted, CallerDies
<1>2. ASSUME NEW r \in Runs, RunMarksRunning(r) \/ RunCompletes(r)
      PROVE  linkedRun' # NoRun /\ status' # "queued"
  <2>1. linkedRun = r /\ r # NoRun
    BY <1>2, WorkflowStartAssumption
       DEF RunMarksRunning, RunCompletes, IInv, LinkIsShared, Working
  <2> QED BY <1>2, <2>1 DEF RunMarksRunning, RunCompletes
<1>3. ASSUME NEW r \in Runs, RunNext(r), ~RunMarksRunning(r), ~RunCompletes(r)
      PROVE  worked' = worked
  BY <1>3 DEF RunNext, RunLinks, RunLinkFails, RunReads, RunCallsModel, RunStreams,
     RunContinues, RunCloses, RunThrows, RunFailsJob, RunFailLinks, RunDies
<1> QED BY <1>1, <1>2, <1>3 DEF Next, LeaseExpires, vars

\* Who has worked is the linked run.
WorkIsLinked == \A r \in worked : r = linkedRun

\* A request that is about to fail its job for the second time still holds the job's
\* token: a failed job is not claimed again, and a linked one neither.
FailedClaimIsHeld ==
  \A c \in Callers : caller[c].pc = "failJob" =>
    /\ token = caller[c].token
    /\ linkedRun = NoRun => status = "failed"

\* Nobody is inside a turn of a completed job.
CompletedIsClosed ==
  status = "completed" => \A r \in Runs : run[r].pc \notin {"write", "call", "model"}

LateIInv == WorkLeavesQueue /\ WorkIsLinked /\ FailedClaimIsHeld /\ CompletedIsClosed

\* What requests do to it.
LEMMA CallerLate ==
  ASSUME IInv, LateIInv, NEW c \in Callers, CallerNext(c)
  PROVE  FailedClaimIsHeld' /\ CompletedIsClosed'
<1> USE DEF IInv, TypeOK, LateIInv, FailedClaimIsHeld, CompletedIsClosed, target
<1>1. CASE ReserveFindsLink(c) \/ ReserveRefused(c) \/ StartThrows(c) \/ CallerDies(c)
           \/ StartRun(c)
  <2>1. UNCHANGED <<status, token, linkedRun>>
    BY <1>1 DEF ReserveFindsLink, ReserveRefused, StartThrows, CallerDies, StartRun
  <2>2. \A d \in Callers : caller'[d].pc = "failJob" => caller'[d] = caller[d]
    <3>1. PICK pc \in {"returned", "threw", "fail", "dead", "link"} :
            \/ caller' = [caller EXCEPT ![c].pc = pc]
            \/ \E r \in Runs \union {NoRun} : caller' = [caller EXCEPT ![c].pc = pc, ![c].run = r]
      BY <1>1 DEF ReserveFindsLink, ReserveRefused, StartThrows, CallerDies, StartRun
    <3> QED BY <3>1
  <2>3. \A r \in Runs : run'[r].pc \in {run[r].pc, "link"}
    <3>1. ASSUME NEW q \in Runs, NEW t \in Nat, ProviderCreates(q, t)
          PROVE  \A r \in Runs : run'[r].pc \in {run[r].pc, "link"}
      BY <3>1 DEF ProviderCreates
    <3>2. run' = run \/ \E q \in Runs : ProviderCreates(q, caller[c].token)
      BY <1>1 DEF ReserveFindsLink, ReserveRefused, StartThrows, CallerDies, StartRun
    <3>3. caller[c].token \in Nat
      OBVIOUS
    <3> QED BY <3>1, <3>2, <3>3
  <2> QED BY <2>1, <2>2, <2>3
<1>2. CASE ReserveClaims(c)
  <2>1. \A d \in Callers : caller[d].pc # "failJob"
    BY <1>2 DEF ReserveClaims, CanClaim, Startable
  <2> QED BY <1>2, <2>1 DEF ReserveClaims
<1>3. CASE FailStart(c)
  BY <1>3 DEF FailStart, StillOwnsClaim
<1>4. CASE FailStartedJob(c)
  BY <1>4 DEF FailStartedJob, FailAiJob
<1>5. CASE LinkStarted(c)
  <2>1. caller[c].run \in Runs /\ UNCHANGED <<status, token, run>>
    BY <1>5 DEF LinkStarted, EnsureLink, RequestKnowsItsRun
  <2>2. linkedRun' = NoRun => linkedRun = NoRun
    BY <1>5, <2>1, WorkflowStartAssumption DEF LinkStarted, EnsureLink
  <2>3. \A d \in Callers : caller'[d].pc = "failJob" => caller'[d] = caller[d]
    BY <1>5 DEF LinkStarted
  <2> QED BY <2>1, <2>2, <2>3
<1> QED BY <1>1, <1>2, <1>3, <1>4, <1>5 DEF CallerNext

\* What runs do to it.
LEMMA RunLate ==
  ASSUME IInv, LateIInv, NEW r \in Runs, RunNext(r)
  PROVE  FailedClaimIsHeld' /\ CompletedIsClosed'
<1> USE DEF IInv, TypeOK, LateIInv, FailedClaimIsHeld, CompletedIsClosed, target, FailAiJob
<1>1. run[r].pc \in Working => linkedRun # NoRun
  BY WorkflowStartAssumption DEF LinkIsShared
<1>2. CASE RunLinks(r) \/ RunFailLinks(r)
  <2>1. UNCHANGED <<status, token, caller>> /\ (linkedRun' = NoRun => linkedRun = NoRun)
    BY <1>2 DEF RunLinks, RunFailLinks, EnsureLink
  <2>2. \A q \in Runs : run'[q].pc \in {"write", "call", "model"} => run'[q] = run[q]
    BY <1>2 DEF RunLinks, RunFailLinks
  <2> QED BY <2>1, <2>2
<1>3. CASE RunCompletes(r)
  <2>1. \A q \in Runs : run[q].pc \in Working => q = r
    BY <1>3 DEF RunCompletes, LinkIsShared, Working
  <2> QED BY <1>1, <1>3, <2>1 DEF RunCompletes, Working
<1>4. CASE RunMarksRunning(r) \/ RunCallsModel(r) \/ RunStreams(r)
  <2>1. linkedRun # NoRun /\ status' # "completed" /\ UNCHANGED <<token, caller, linkedRun>>
    BY <1>1, <1>4 DEF RunMarksRunning, RunCallsModel, RunStreams, Working
  <2> QED BY <2>1
<1>5. CASE RunReads(r)
  BY <1>5 DEF RunReads, Terminal
<1>6. CASE RunFailsJob(r)
  BY <1>6 DEF RunFailsJob
<1>7. CASE RunLinkFails(r) \/ RunContinues(r) \/ RunCloses(r) \/ RunThrows(r) \/ RunDies(r)
  <2>1. UNCHANGED <<status, token, caller, linkedRun>>
    BY <1>7 DEF RunLinkFails, RunContinues, RunCloses, RunThrows, RunDies
  <2>2. \A q \in Runs : run'[q].pc \in {"write", "call", "model"} => run'[q] = run[q]
    BY <1>7 DEF RunLinkFails, RunContinues, RunCloses, RunThrows, RunDies
  <2> QED BY <2>1, <2>2
<1> QED BY <1>2, <1>3, <1>4, <1>5, <1>6, <1>7 DEF RunNext

\* Every step, and stuttering.
LEMMA LateStep == IInv /\ LateIInv /\ [Next]_vars => LateIInv'
<1> SUFFICES ASSUME IInv, LateIInv, [Next]_vars PROVE LateIInv'
  OBVIOUS
<1>1. WorkLeavesQueue'
  <2>1. CASE worked = {} /\ worked' # {}
    BY <2>1, WorkersAreLinked DEF WorkLeavesQueue
  <2>2. CASE worked # {}
    BY <2>2, LinkStays, OnlyClaimsQueue DEF LateIInv, WorkLeavesQueue
  <2>3. CASE worked' = {}
    BY <2>3 DEF WorkLeavesQueue
  <2> QED BY <2>1, <2>2, <2>3
<1>2. WorkIsLinked'
  <2> SUFFICES ASSUME NEW r \in worked' PROVE linkedRun' = r
    BY DEF WorkIsLinked
  <2>1. CASE r \in worked
    BY <2>1, LinkStays DEF LateIInv, WorkIsLinked, WorkLeavesQueue
  <2>2. CASE r \notin worked
    <3>1. PICK q \in Runs : RunMarksRunning(q) \/ RunCompletes(q)
      <4>1. ASSUME NEW c \in Callers, CallerNext(c) PROVE worked' = worked
        BY <4>1 DEF CallerNext, ReserveFindsLink, ReserveClaims, ReserveRefused, StartRun,
           StartThrows, FailStart, FailStartedJob, LinkStarted, CallerDies
      <4>2. ASSUME NEW q \in Runs, RunNext(q), ~RunMarksRunning(q), ~RunCompletes(q)
            PROVE  worked' = worked
        BY <4>2 DEF RunNext, RunLinks, RunLinkFails, RunReads, RunCallsModel, RunStreams,
           RunContinues, RunCloses, RunThrows, RunFailsJob, RunFailLinks, RunDies
      <4> QED BY <2>2, <4>1, <4>2 DEF Next, LeaseExpires, vars
    <3>2. r = q
      BY <2>2, <3>1 DEF RunMarksRunning, RunCompletes
    <3>3. linkedRun = q
      BY <3>1 DEF RunMarksRunning, RunCompletes, IInv, LinkIsShared, Working
    <3> QED BY <3>1, <3>2, <3>3 DEF RunMarksRunning, RunCompletes
  <2> QED BY <2>1, <2>2
<1>3. FailedClaimIsHeld' /\ CompletedIsClosed'
  <2>1. CASE LeaseExpires \/ UNCHANGED vars
    BY <2>1 DEF LeaseExpires, vars, target, LateIInv, FailedClaimIsHeld, CompletedIsClosed
  <2> QED BY <2>1, CallerLate, RunLate DEF Next
<1> QED BY <1>1, <1>2, <1>3 DEF LateIInv

\* Who has worked is the linked run, and a request that fails its job still holds it.
THEOREM LateInductive == Spec => [](IInv /\ LateIInv)
<1>1. Init => LateIInv
  BY DEF Init, LateIInv, WorkLeavesQueue, WorkIsLinked, FailedClaimIsHeld, CompletedIsClosed
<1> QED BY <1>1, LateStep, Invariance, PTL DEF Spec

\* A completed job stays completed: whoever writes another status asks first
\* (failAiJob's WHERE), or is inside a turn of the linked run, which has closed.
THEOREM ResultsSurvive == Spec => CompletedStands
<1>1. ASSUME IInv, LateIInv, [Next]_vars PROVE status = "completed" => status' = "completed"
  <2> SUFFICES ASSUME status = "completed" PROVE status' = "completed"
    OBVIOUS
  <2>1. ASSUME NEW c \in Callers, CallerNext(c) PROVE status' = "completed"
    BY <2>1 DEF CallerNext, ReserveFindsLink, ReserveClaims, ReserveRefused, StartRun,
       StartThrows, FailStart, FailStartedJob, LinkStarted, CallerDies, EnsureLink, target,
       CanClaim, Startable, FailAiJob, StillOwnsClaim
  <2>2. ASSUME NEW r \in Runs, RunNext(r) PROVE status' = "completed"
    <3>1. run[r].pc \notin {"write", "call", "model"}
      BY <1>1 DEF LateIInv, CompletedIsClosed
    <3> QED
      BY <2>2, <3>1 DEF RunNext, RunLinks, RunLinkFails, RunReads, RunMarksRunning,
         RunCallsModel, RunStreams, RunContinues, RunCompletes, RunCloses, RunThrows,
         RunFailsJob, RunFailLinks, RunDies, EnsureLink, target, FailAiJob
  <2> QED BY <1>1, <2>1, <2>2 DEF Next, LeaseExpires, vars, target
<1> QED BY <1>1, LateInductive, PTL DEF Spec, CompletedStands

\* The compensation of a start that threw finds no run that has worked when it first
\* writes (the WHERE of the update), and at most its own when it writes again.
THEOREM FailedStartsFailTheirOwn == Spec => FailedStartSparesOthers
<1> DEFINE Spares(c) ==
             /\ caller[c].pc = "fail" /\ caller'[c].pc = "failJob" => worked = {}
             /\ caller[c].pc = "failJob" /\ caller'[c].pc = "threw"
                  => \A r \in worked : run[r].token = caller[c].token
<1>1. ASSUME IInv, LateIInv, [Next]_vars PROVE \A c \in Callers : Spares(c)
  <2>1. ASSUME NEW c \in Callers, caller[c].pc = "fail", caller'[c].pc = "failJob"
        PROVE  worked = {}
    <3>1. CASE \E d \in Callers : FailStart(d)
      <4>1. PICK d \in Callers : FailStart(d)
        BY <3>1
      <4>2. c = d
        BY <1>1, <2>1, <4>1 DEF FailStart, IInv, TypeOK
      <4>3. status = "queued"
        BY <1>1, <2>1, <4>1, <4>2 DEF FailStart, StillOwnsClaim, IInv, TypeOK
      <4> QED BY <1>1, <4>3 DEF LateIInv, WorkLeavesQueue
    <3>2. ASSUME NEW d \in Callers, CallerNext(d), ~FailStart(d) PROVE FALSE
      <4>1. c = d
        BY <1>1, <2>1, <3>2 DEF CallerNext, ReserveFindsLink, ReserveClaims, ReserveRefused,
           StartRun, StartThrows, FailStartedJob, LinkStarted, CallerDies, IInv, TypeOK
      <4> QED
        BY <1>1, <2>1, <3>2, <4>1 DEF CallerNext, ReserveFindsLink, ReserveClaims,
           ReserveRefused, StartRun, StartThrows, FailStartedJob, LinkStarted, CallerDies,
           IInv, TypeOK
    <3>3. ASSUME NEW r \in Runs, RunNext(r) PROVE caller' = caller
      BY <3>3 DEF RunNext, RunLinks, RunLinkFails, RunReads, RunMarksRunning,
         RunCallsModel, RunStreams, RunContinues, RunCompletes, RunCloses, RunThrows,
         RunFailsJob, RunFailLinks, RunDies, target
    <3>4. LeaseExpires \/ UNCHANGED vars => caller' = caller
      BY DEF LeaseExpires, vars
    <3> QED BY <1>1, <2>1, <3>1, <3>2, <3>3, <3>4 DEF Next
  <2>2. ASSUME NEW c \in Callers, caller[c].pc = "failJob", NEW r \in worked
        PROVE  run[r].token = caller[c].token
    <3>1. r = linkedRun /\ r # NoRun
      BY <1>1, WorkflowStartAssumption DEF LateIInv, WorkIsLinked, IInv, TypeOK
    <3>2. run[r].token = token
      BY <1>1, <3>1 DEF IInv, LinkHoldsToken
    <3> QED BY <1>1, <2>2, <3>2 DEF LateIInv, FailedClaimIsHeld
  <2> QED BY <2>1, <2>2
<1>2. Spec => [][\A c \in Callers : Spares(c)]_vars
  BY <1>1, LateInductive, PTL DEF Spec
<1> QED BY <1>2 DEF FailedStartSparesOthers

\* The worst that comes late is a failure, never over a result, and of a failed start
\* never over the work of another request's run.
THEOREM LatecomersFailAtMost == Spec => LatecomersOnlyFail
BY ResultsSurvive, FailedStartsFailTheirOwn, OnlyFailedLinksPassTheFence
   DEF LatecomersOnlyFail

\* WorkflowStart implements the abstract promise: one run is adopted, once and
\* for ever, and only that run works.
THEOREM Refinement == Spec => ImplementsOneRun
  <1>1. Init => Abstract!Init
    BY DEF Init, Abstract!Init
  <1>2. ASSUME IInv, [Next]_vars
        PROVE  [Abstract!Next]_(Abstract!vars)
    <2> USE DEF Abstract!Next, Abstract!vars, Abstract!Adopt, Abstract!Work
    <2>1. ASSUME NEW c \in Callers, CallerNext(c)
          PROVE  [Abstract!Next]_(Abstract!vars)
      <3>1. CASE LinkStarted(c)
        <4>1. caller[c].run \in Runs /\ worked' = worked
          BY <1>2, <3>1 DEF LinkStarted, IInv, RequestKnowsItsRun
        <4>2. linkedRun' = linkedRun
                \/ (linkedRun = NoRun /\ linkedRun' = caller[c].run)
          BY <3>1 DEF LinkStarted, EnsureLink
        <4> QED
          BY <4>1, <4>2
      <3>2. CASE ~LinkStarted(c)
        BY <2>1, <3>2 DEF CallerNext, ReserveFindsLink, ReserveClaims,
           ReserveRefused, StartRun, StartThrows, FailStart, FailStartedJob,
           CallerDies, target
      <3> QED
        BY <3>1, <3>2
    <2>2. ASSUME NEW r \in Runs, RunNext(r)
          PROVE  [Abstract!Next]_(Abstract!vars)
      <3>1. CASE RunLinks(r) \/ RunFailLinks(r)
        BY <3>1 DEF RunLinks, RunFailLinks, EnsureLink
      <3>2. CASE RunMarksRunning(r) \/ RunCompletes(r)
        <4>1. linkedRun = r
          BY <1>2, <3>2 DEF RunMarksRunning, RunCompletes, IInv, LinkIsShared,
             Working
        <4> QED
          BY <3>2, <4>1 DEF RunMarksRunning, RunCompletes
      <3>3. CASE RunLinkFails(r) \/ RunReads(r) \/ RunCallsModel(r)
                   \/ RunStreams(r) \/ RunContinues(r) \/ RunCloses(r)
                   \/ RunThrows(r) \/ RunFailsJob(r) \/ RunDies(r)
        BY <3>3 DEF RunLinkFails, RunReads, RunCallsModel, RunStreams,
           RunContinues, RunCloses, RunThrows, RunFailsJob, RunDies, target
      <3> QED
        BY <2>2, <3>1, <3>2, <3>3 DEF RunNext
    <2>3. CASE LeaseExpires \/ UNCHANGED vars
      BY <2>3 DEF LeaseExpires, vars, target
    <2> QED
      BY <1>2, <2>1, <2>2, <2>3 DEF Next
  <1> QED
    BY <1>1, <1>2, Invariance, PTL DEF Spec, ImplementsOneRun, Abstract!Spec

-----------------------------------------------------------------------------
(* The run that was started: what its calls cost, and who counts it.        *)

\* Counters and charge are covered by what the calls cost; a settlement is the
\* only charge.
CountersAreCovered ==
  /\ job.tokens + Uncounted <= paid
  /\ charged <= paid
  /\ ~job.settled => charged = 0
  /\ step.pc = "settle" => step.total <= job.tokens

\* The loop has a turn left while a turn is under way.
TurnsAreCut ==
  step.pc \in {"announce", "guard", "model", "stream", "usage"}
    => step.turn < AI_MAX_MODEL_STEPS

\* A step works on a job without a result until it accepts one.
WorksWithoutResult ==
  /\ job.result # "none" => job.status \in {"completed", "cancelled"}
  /\ step.pc \in {"announce", "guard", "model", "stream", "usage", "accept"}
       => job.result = "none"

\* A cancel request that has written says so in the row.
CancelsAreMarked ==
  \A c \in Cancellers : cancel[c] \in {"settle", "returned"} => job.cancelledAt

Undisturbed == crashes = 0 /\ ~job.cancelledAt /\ ~Cancelling /\ ~killed

\* The status that a step finds if nobody interferes.  What the catch finds may be
\* anything: it may be the closing of the run that threw.
StatusFollowsStep ==
  /\ step.pc \in {"link", "turn", "announce", "guard", "model", "stream", "usage",
                  "accept"} => job.status \notin TerminalStatus
  /\ step.pc = "guard" => job.status = "running"
  /\ step.pc \in {"total", "settle", "ended"} => job.status \in TerminalStatus

\* The price that it finds then.
PriceFollowsStep ==
  /\ paid = job.tokens + Uncounted + lost
  /\ job.settled => charged = job.tokens
  /\ step.pc \in {"link", "turn", "announce", "guard", "model", "stream", "usage",
                  "accept"} => ~job.settled /\ lost = 0
  /\ step.pc = "settle" => step.total = job.tokens
  /\ step.pc = "ended" => job.settled
  /\ lost # 0 => job.status # "completed"

\* The types of what the argument relates; the two flags are apart.
Typed ==
  /\ job \in Job
  /\ charged \in Nat
  /\ step \in Step
  /\ cancel \in [Cancellers -> CancelPc]
  /\ crashes \in 0..MaxCrashes
  /\ paid \in Nat
  /\ lost \in Nat

Accounts == /\ Typed
            /\ TurnsAreCut
            /\ CountersAreCovered
            /\ WorksWithoutResult
            /\ CancelsAreMarked
            /\ Undisturbed => StatusFollowsStep /\ PriceFollowsStep

JobIInv == JobTypeOK /\ Accounts

-----------------------------------------------------------------------------
(* The larger of two numbers, and what a settlement does.                  *)

\* Max of the community modules, for the two numbers that a settlement compares.
LEMMA MaxOfTwo ==
  ASSUME NEW a \in Nat, NEW b \in Nat
  PROVE  Max({a, b}) = IF a >= b THEN a ELSE b
<1> DEFINE m == IF a >= b THEN a ELSE b
<1>1. m \in {a, b} /\ \A y \in {a, b} : m >= y
  OBVIOUS
<1>2. \A x \in {a, b} : (\A y \in {a, b} : x >= y) => x = m
  OBVIOUS
<1> QED BY <1>1, <1>2 DEF Max

\* A report that the counters cover changes the charge and nothing else, and that
\* only once.
LEMMA SettlesFacts ==
  ASSUME Typed, NEW reported \in Nat, reported <= job.tokens, Settles(reported)
  PROVE  /\ job' = [job EXCEPT !.settled = TRUE]
         /\ charged' = IF job.settled THEN charged ELSE charged + job.tokens
<1>1. job \in Job /\ job.tokens \in Nat
  BY DEF Typed, Job
<1>2. Max({job.tokens, reported}) = job.tokens
  BY <1>1, MaxOfTwo
<1>3. CASE job.settled
  BY <1>1, <1>3 DEF Settles, Job
<1>4. CASE ~job.settled
  <2>1. job' = [job EXCEPT !.tokens = job.tokens, !.settled = TRUE]
    BY <1>2, <1>4 DEF Settles
  <2>2. job' = [job EXCEPT !.settled = TRUE]
    BY <1>1, <2>1 DEF Job
  <2> QED BY <1>2, <1>4, <2>2 DEF Settles
<1> QED BY <1>3, <1>4

-----------------------------------------------------------------------------
(* The job's initial states, and its steps.                                *)

\* Nothing has been called, counted or asked for.
LEMMA JobInitInv == JobInit => JobIInv
<1> SUFFICES ASSUME JobInit PROVE JobIInv
  OBVIOUS
<1> USE DEF JobInit
<1>1. Typed
  BY AiJobAssumption DEF Typed, Job, Step, StepPc, CancelPc, Result, TerminalStatus
<1>2. TurnsAreCut /\ CountersAreCovered /\ WorksWithoutResult /\ CancelsAreMarked
  BY DEF TurnsAreCut, CountersAreCovered, Uncounted, WorksWithoutResult, CancelsAreMarked
<1>3. StatusFollowsStep /\ PriceFollowsStep
  BY DEF StatusFollowsStep, PriceFollowsStep, Uncounted, TerminalStatus
<1>4. linked \in BOOLEAN /\ killed \in BOOLEAN
  OBVIOUS
<1> QED BY <1>1, <1>2, <1>3, <1>4 DEF JobIInv, JobTypeOK, Typed, Accounts

\* Steps of the run disturb nobody but by dying.
LEMMA SameDisturbance ==
  ASSUME UNCHANGED <<crashes, cancel, killed>>, job'.cancelledAt = job.cancelledAt
  PROVE  Undisturbed' = Undisturbed /\ CancelsAreMarked' = CancelsAreMarked
BY DEF Undisturbed, Cancelling, CancelsAreMarked

\* A death disturbs for good.
LEMMA DeathDisturbs ==
  ASSUME Typed, crashes' = crashes + 1
  PROVE  ~Undisturbed'
BY AiJobAssumption DEF Typed, Undisturbed

\* A worker that dies leaves the row to the next execution, which has counted nothing.
LEMMA DeathInv ==
  ASSUME Accounts, Dies, UNCHANGED <<cancel, paid, lost>>,
         job' \in Job, job'.cancelledAt = job.cancelledAt,
         job'.tokens <= paid,
         charged' \in Nat, charged' <= paid, ~job'.settled => charged' = 0,
         job'.result # "none" => job'.status \in {"completed", "cancelled"}
  PROVE  Accounts'
<1>1. /\ crashes' = crashes + 1 /\ crashes' \in 0..MaxCrashes
      /\ step' = [step EXCEPT !.pc = "turn", !.used = 0, !.result = "none", !.total = 0]
  BY AiJobAssumption DEF Dies, Accounts, Typed
<1>2. step' \in Step /\ step'.pc = "turn"
  BY <1>1 DEF Accounts, Typed, Step, StepPc, Result
<1>3. Typed'
  BY <1>1, <1>2 DEF Accounts, Typed
<1>4. TurnsAreCut' /\ CountersAreCovered' /\ WorksWithoutResult'
  <2>1. job'.tokens \in Nat
    BY DEF Job
  <2> QED BY <1>2, <2>1 DEF TurnsAreCut, CountersAreCovered, Uncounted, WorksWithoutResult
<1>5. CancelsAreMarked'
  BY DEF Accounts, CancelsAreMarked
<1> QED BY <1>1, <1>3, <1>4, <1>5, DeathDisturbs DEF Accounts

\* The steps of a turn up to the call, ...
LEMMA TurnBeginsInv ==
  ASSUME Accounts,
         RunIsLinked \/ RunIsStopped \/ TurnReads \/ TurnAnnounces \/ TurnStopsShort
           \/ TurnCallsModel
  PROVE  Accounts'
<1> USE DEF Accounts, Typed, Job, Step, StepPc, Result, TerminalStatus, Goto
<1>1. CASE RunIsLinked
  <2>1. Typed'
    BY <1>1 DEF RunIsLinked
  <2>2. TurnsAreCut' /\ CountersAreCovered' /\ WorksWithoutResult'
    BY <1>1 DEF RunIsLinked, TurnsAreCut, CountersAreCovered, Uncounted,
       WorksWithoutResult
  <2>3. Undisturbed => StatusFollowsStep' /\ PriceFollowsStep'
    BY <1>1 DEF RunIsLinked, StatusFollowsStep, PriceFollowsStep, Uncounted
  <2> QED BY <1>1, <2>1, <2>2, <2>3, SameDisturbance DEF RunIsLinked
<1>2. CASE RunIsStopped
  <2>1. Typed'
    BY <1>2 DEF RunIsStopped
  <2>2. TurnsAreCut' /\ CountersAreCovered' /\ WorksWithoutResult'
    BY <1>2 DEF RunIsStopped, TurnsAreCut, CountersAreCovered, Uncounted,
       WorksWithoutResult
  <2>3. Undisturbed => StatusFollowsStep' /\ PriceFollowsStep'
    BY <1>2 DEF RunIsStopped, StatusFollowsStep, PriceFollowsStep, Uncounted, Undisturbed
  <2> QED BY <1>2, <2>1, <2>2, <2>3, SameDisturbance DEF RunIsStopped
<1>3. CASE TurnReads
  <2>1. Typed'
    BY <1>3 DEF TurnReads, TakesTurn, LastTurn
  <2>2. TurnsAreCut' /\ CountersAreCovered' /\ WorksWithoutResult'
    <3>1. \/ step' = [step EXCEPT !.pc = "ended"]
          \/ /\ job.status \notin TerminalStatus
             /\ \/ step' = [step EXCEPT !.pc = "announce"] /\ step.turn # AI_MAX_MODEL_STEPS
                \/ step' = [step EXCEPT !.pc = "accept", !.result = "partial"]
      BY <1>3 DEF TurnReads, TakesTurn, LastTurn
    <3>2. step.pc = "turn" /\ UNCHANGED <<job, charged, paid>>
      BY <1>3 DEF TurnReads
    <3>3. TurnsAreCut'
      <4>1. step.turn \in 0..AI_MAX_MODEL_STEPS /\ AI_MAX_MODEL_STEPS \in Nat
        BY AiJobAssumption
      <4>2. step'.pc = "announce" => step'.turn = step.turn /\ step.turn # AI_MAX_MODEL_STEPS
        BY <3>1
      <4>3. step'.pc \in {"ended", "announce", "accept"}
        BY <3>1
      <4> QED BY <4>1, <4>2, <4>3 DEF TurnsAreCut
    <3>4. CountersAreCovered' /\ WorksWithoutResult'
      BY <3>1, <3>2 DEF CountersAreCovered, Uncounted, WorksWithoutResult
    <3> QED BY <3>3, <3>4
  <2>3. Undisturbed => StatusFollowsStep' /\ PriceFollowsStep'
    BY <1>3 DEF TurnReads, TakesTurn, LastTurn, StatusFollowsStep, PriceFollowsStep, Uncounted
  <2> QED BY <1>3, <2>1, <2>2, <2>3, SameDisturbance DEF TurnReads
<1>4. CASE TurnAnnounces
  <2>1. Typed'
    BY <1>4 DEF TurnAnnounces
  <2>2. TurnsAreCut' /\ CountersAreCovered' /\ WorksWithoutResult'
    BY <1>4 DEF TurnAnnounces, TurnsAreCut, CountersAreCovered, Uncounted,
       WorksWithoutResult
  <2>3. Undisturbed => StatusFollowsStep' /\ PriceFollowsStep'
    BY <1>4 DEF TurnAnnounces, StatusFollowsStep, PriceFollowsStep, Uncounted
  <2> QED BY <1>4, <2>1, <2>2, <2>3, SameDisturbance DEF TurnAnnounces
<1>5. CASE TurnStopsShort
  <2>1. Typed'
    BY <1>5 DEF TurnStopsShort
  <2>2. TurnsAreCut' /\ CountersAreCovered' /\ WorksWithoutResult'
    BY <1>5 DEF TurnStopsShort, TurnsAreCut, CountersAreCovered, Uncounted,
       WorksWithoutResult
  <2>3. Undisturbed => StatusFollowsStep' /\ PriceFollowsStep'
    BY <1>5 DEF TurnStopsShort, StatusFollowsStep, PriceFollowsStep, Uncounted
  <2> QED BY <1>5, <2>1, <2>2, <2>3, SameDisturbance DEF TurnStopsShort
<1>6. CASE TurnCallsModel
  <2>1. Typed'
    BY <1>6 DEF TurnCallsModel, MayCall
  <2>2. TurnsAreCut' /\ CountersAreCovered' /\ WorksWithoutResult'
    BY <1>6 DEF TurnCallsModel, MayCall, TurnsAreCut, CountersAreCovered, Uncounted,
       WorksWithoutResult
  <2>3. Undisturbed => StatusFollowsStep' /\ PriceFollowsStep'
    BY <1>6 DEF TurnCallsModel, MayCall, StatusFollowsStep, PriceFollowsStep, Uncounted,
                Undisturbed
  <2>4. job'.cancelledAt = job.cancelledAt
    BY <1>6 DEF TurnCallsModel
  <2> QED BY <1>6, <2>1, <2>2, <2>3, <2>4, SameDisturbance DEF TurnCallsModel
<1> QED BY <1>1, <1>2, <1>3, <1>4, <1>5, <1>6

\* ... and those behind it.
LEMMA TurnEndsInv ==
  ASSUME Accounts, ModelAnswers \/ TurnStreams \/ TurnCountsUsage
  PROVE  Accounts'
<1> USE DEF Accounts, Typed, Job, Step, StepPc, Result, TerminalStatus, Goto
<1>1. CASE ModelAnswers
  <2>1. PICK used \in Cost, pc \in {"stream", "usage"}, result \in {"none", "answer"} :
          /\ paid' = paid + used
          /\ step' = [step EXCEPT !.pc = pc, !.used = used, !.result = result]
    BY <1>1 DEF ModelAnswers
  <2>2. used \in Nat
    BY AiJobAssumption
  <2>3. step.pc = "model" /\ UNCHANGED <<job, charged, linked, killed, cancel, crashes, lost>>
    BY <1>1 DEF ModelAnswers
  <2>4. Typed'
    <3>1. step' \in Step
      BY <2>1, <2>2
    <3>2. paid' \in Nat
      BY <2>1, <2>2
    <3> QED BY <2>3, <3>1, <3>2
  <2>5. TurnsAreCut' /\ CountersAreCovered' /\ WorksWithoutResult'
    BY <2>1, <2>2, <2>3 DEF TurnsAreCut, CountersAreCovered, Uncounted, WorksWithoutResult
  <2>6. Undisturbed => StatusFollowsStep' /\ PriceFollowsStep'
    BY <2>1, <2>2, <2>3 DEF StatusFollowsStep, PriceFollowsStep, Uncounted
  <2> QED BY <2>3, <2>4, <2>5, <2>6, SameDisturbance
<1>2. CASE TurnStreams
  <2>1. Typed'
    BY <1>2 DEF TurnStreams
  <2>2. TurnsAreCut' /\ CountersAreCovered' /\ WorksWithoutResult'
    BY <1>2 DEF TurnStreams, TurnsAreCut, CountersAreCovered, Uncounted,
       WorksWithoutResult
  <2>3. Undisturbed => StatusFollowsStep' /\ PriceFollowsStep'
    BY <1>2 DEF TurnStreams, StatusFollowsStep, PriceFollowsStep, Uncounted
  <2> QED BY <1>2, <2>1, <2>2, <2>3, SameDisturbance DEF TurnStreams
<1>3. CASE TurnCountsUsage
  <2>1. /\ step.pc = "usage"
        /\ job' = [job EXCEPT !.tokens = job.tokens + step.used]
        /\ UNCHANGED <<charged, linked, killed, cancel, paid, lost>>
    BY <1>3 DEF TurnCountsUsage, Counted
  <2>2. \/ step' = [step EXCEPT !.pc = "accept"] /\ UNCHANGED crashes
        \/ step' = [step EXCEPT !.pc = "turn", !.turn = step.turn + 1] /\ UNCHANGED crashes
        \/ Dies
    BY <1>3 DEF TurnCountsUsage
  <2>3. job' \in Job /\ job'.cancelledAt = job.cancelledAt
    BY <2>1
  <2>4. step.turn + 1 \in 0..AI_MAX_MODEL_STEPS
    BY <2>1, AiJobAssumption DEF TurnsAreCut
  <2>5. CASE Dies
    BY <2>1, <2>3, <2>5, DeathInv DEF CountersAreCovered, Uncounted, WorksWithoutResult
  <2>6. CASE /\ UNCHANGED crashes
             /\ \/ step' = [step EXCEPT !.pc = "accept"]
                \/ step' = [step EXCEPT !.pc = "turn", !.turn = step.turn + 1]
    <3>1. Typed'
      BY <2>1, <2>3, <2>4, <2>6
    <3>2. /\ step'.pc \in {"accept", "turn"}
          /\ job'.tokens = job.tokens + step.used /\ job.tokens \in Nat /\ step.used \in Nat
          /\ job'.status = job.status /\ job'.result = job.result /\ job'.settled = job.settled
      BY <2>1, <2>6
    <3>3. TurnsAreCut' /\ CountersAreCovered' /\ WorksWithoutResult'
      BY <2>1, <3>2 DEF TurnsAreCut, CountersAreCovered, Uncounted, WorksWithoutResult
    <3>4. Undisturbed => StatusFollowsStep' /\ PriceFollowsStep'
      BY <2>1, <3>2 DEF StatusFollowsStep, PriceFollowsStep, Uncounted
    <3> QED BY <2>1, <2>3, <2>6, <3>1, <3>3, <3>4, SameDisturbance
  <2> QED BY <2>2, <2>5, <2>6
<1> QED BY <1>1, <1>2, <1>3

\* What throws is caught: the usage that was not counted is lost, and only that.
LEMMA ThrowInv ==
  ASSUME Accounts, CallThrows \/ TurnThrows
  PROVE  Accounts'
<1> USE DEF Accounts, Typed, Job, Step, StepPc, Result, TerminalStatus
<1>1. /\ step.pc \in {"turn", "announce", "guard", "model", "stream", "usage", "accept",
                       "total", "settle"}
      /\ step' = [step EXCEPT !.pc = "fail", !.used = 0, !.result = "none", !.total = 0]
      /\ UNCHANGED <<job, charged, killed, cancel, crashes>>
  BY DEF CallThrows, TurnThrows, Caught
<1>2. PICK used \in Nat : /\ paid' + Uncounted = paid + used
                          /\ lost' = lost + used
                          /\ used # 0 => step.pc \in {"model", "stream", "usage"}
                          /\ paid' \in Nat /\ paid' >= paid
  <2>1. CASE CallThrows
    <3>1. PICK used \in {0} \union Cost : paid' = paid + used /\ lost' = lost + used
      BY <2>1 DEF CallThrows
    <3>2. used \in Nat
      BY AiJobAssumption
    <3>3. Uncounted = 0 /\ step.pc = "model"
      BY <2>1 DEF CallThrows, Uncounted
    <3>4. paid' \in Nat /\ paid' >= paid
      BY <3>1, <3>2
    <3> QED BY <3>1, <3>2, <3>3, <3>4
  <2>2. CASE TurnThrows
    <3>1. paid' = paid /\ lost' = lost + Uncounted /\ Uncounted \in Nat
      BY <2>2 DEF TurnThrows, Uncounted
    <3>2. Uncounted # 0 => step.pc \in {"stream", "usage"}
      BY DEF Uncounted
    <3> QED BY <3>1, <3>2
  <2> QED BY <2>1, <2>2
<1>3. Uncounted \in Nat /\ paid' \in Nat /\ lost' \in Nat /\ paid' >= paid /\ Uncounted' = 0
  <2>1. Uncounted \in Nat /\ Uncounted' = 0
    BY <1>1 DEF Uncounted
  <2>2. lost' \in Nat
    BY <1>2
  <2> QED BY <1>2, <2>1, <2>2
<1>4. Typed'
  BY <1>1, <1>3
<1>5. TurnsAreCut' /\ WorksWithoutResult'
  BY <1>1 DEF TurnsAreCut, WorksWithoutResult
<1>6. CountersAreCovered'
  BY <1>1, <1>3 DEF CountersAreCovered
<1>7. Undisturbed => StatusFollowsStep' /\ PriceFollowsStep'
  <2> SUFFICES ASSUME Undisturbed PROVE StatusFollowsStep' /\ PriceFollowsStep'
    OBVIOUS
  <2>1. StatusFollowsStep'
    BY <1>1 DEF StatusFollowsStep
  <2>2. paid' = job'.tokens + Uncounted' + lost'
    BY <1>1, <1>2, <1>3 DEF PriceFollowsStep
  <2>3. lost' # 0 => job'.status # "completed"
    BY <1>1, <1>2 DEF StatusFollowsStep, PriceFollowsStep
  <2> QED BY <1>1, <2>1, <2>2, <2>3 DEF PriceFollowsStep
<1> QED BY <1>1, <1>4, <1>5, <1>6, <1>7, SameDisturbance

\* What ends a job: a result, a failure, and the charge.
LEMMA StepEndsInv ==
  ASSUME Accounts, StepAccepts \/ StepFails \/ StepReadsTotal \/ StepSettles \/ StepCrashes
  PROVE  Accounts'
<1> USE DEF Accounts, Typed, Job, Step, StepPc, Result, TerminalStatus, Goto
<1>1. CASE StepAccepts
  <2>1. Typed'
    BY <1>1 DEF StepAccepts
  <2>2. TurnsAreCut' /\ CountersAreCovered' /\ WorksWithoutResult'
    BY <1>1 DEF StepAccepts, TurnsAreCut, CountersAreCovered, Uncounted,
       WorksWithoutResult
  <2>3. Undisturbed => StatusFollowsStep' /\ PriceFollowsStep'
    BY <1>1 DEF StepAccepts, WorksWithoutResult, StatusFollowsStep, PriceFollowsStep, Uncounted
  <2> QED BY <1>1, <2>1, <2>2, <2>3, SameDisturbance DEF StepAccepts
<1>2. CASE StepFails
  <2>1. Typed'
    BY <1>2 DEF StepFails
  <2>2. TurnsAreCut' /\ CountersAreCovered' /\ WorksWithoutResult'
    BY <1>2 DEF StepFails, TurnsAreCut, CountersAreCovered, Uncounted,
       WorksWithoutResult
  <2>3. Undisturbed => StatusFollowsStep' /\ PriceFollowsStep'
    BY <1>2 DEF StepFails, StatusFollowsStep, PriceFollowsStep, Uncounted
  <2> QED BY <1>2, <2>1, <2>2, <2>3, SameDisturbance DEF StepFails
<1>3. CASE StepReadsTotal
  <2>1. Typed'
    BY <1>3 DEF StepReadsTotal
  <2>2. TurnsAreCut' /\ CountersAreCovered' /\ WorksWithoutResult'
    BY <1>3 DEF StepReadsTotal, TurnsAreCut, CountersAreCovered, Uncounted,
       WorksWithoutResult
  <2>3. Undisturbed => StatusFollowsStep' /\ PriceFollowsStep'
    BY <1>3 DEF StepReadsTotal, StatusFollowsStep, PriceFollowsStep, Uncounted
  <2> QED BY <1>3, <2>1, <2>2, <2>3, SameDisturbance DEF StepReadsTotal
<1>4. CASE StepSettles
  <2>1. step.pc = "settle" /\ UNCHANGED <<linked, killed, cancel, paid, lost>>
    BY <1>4 DEF StepSettles
  <2>2. /\ job' = [job EXCEPT !.settled = TRUE]
        /\ charged' = IF job.settled THEN charged ELSE charged + job.tokens
    BY <1>4, <2>1, SettlesFacts DEF StepSettles, CountersAreCovered
  <2>3. /\ job' \in Job /\ job'.cancelledAt = job.cancelledAt
        /\ job'.tokens = job.tokens /\ job'.settled
        /\ job'.status = job.status /\ job'.result = job.result
    BY <2>2
  <2>4. job.tokens <= paid /\ charged' \in Nat /\ charged' <= paid
    <3>1. job.tokens \in Nat /\ charged \in Nat /\ paid \in Nat
      OBVIOUS
    <3>2. job.tokens <= paid /\ charged <= paid /\ (~job.settled => charged = 0)
      BY <2>1, <3>1 DEF CountersAreCovered, Uncounted
    <3> QED BY <2>2, <3>1, <3>2
  <2>5. CASE Dies
    BY <2>1, <2>3, <2>4, <2>5, DeathInv DEF WorksWithoutResult
  <2>6. CASE /\ UNCHANGED crashes
             /\ step' = [step EXCEPT !.pc = "ended"] \/ Caught
    <3>1. step' \in Step /\ step'.pc \in {"ended", "fail"}
      <4>1. CASE step' = [step EXCEPT !.pc = "ended"]
        BY <4>1
      <4>2. CASE Caught
        BY <4>2 DEF Caught
      <4> QED BY <2>6, <4>1, <4>2
    <3>2. Typed'
      BY <2>1, <2>3, <2>4, <2>6, <3>1
    <3>3. TurnsAreCut' /\ CountersAreCovered' /\ WorksWithoutResult'
      BY <2>1, <2>3, <2>4, <3>1
         DEF TurnsAreCut, CountersAreCovered, Uncounted, WorksWithoutResult
    <3>4. Undisturbed => StatusFollowsStep' /\ PriceFollowsStep'
      BY <2>1, <2>2, <2>3, <2>4, <3>1
         DEF CountersAreCovered, StatusFollowsStep, PriceFollowsStep, Uncounted
    <3> QED BY <2>1, <2>3, <2>6, <3>2, <3>3, <3>4, SameDisturbance
  <2> QED BY <1>4, <2>5, <2>6 DEF StepSettles
<1>5. CASE StepCrashes
  BY <1>5, DeathInv DEF StepCrashes, CountersAreCovered, Uncounted, WorksWithoutResult
<1> QED BY <1>1, <1>2, <1>3, <1>4, <1>5

\* A cancel request: the run is killed, or the row is marked, before it settles.
LEMMA CancelInv ==
  ASSUME Accounts, NEW c \in Cancellers, CancelNext(c)
  PROVE  Accounts'
<1> USE DEF Accounts, Typed, Job, Step, StepPc, CancelPc, Result, TerminalStatus
<1>1. CASE CancelReads(c)
  <2>1. PICK pc \in {"kill", "write"} : cancel' = [cancel EXCEPT ![c] = pc]
    BY <1>1 DEF CancelReads
  <2>2. UNCHANGED <<job, charged, linked, killed, step, crashes, paid, lost>>
    BY <1>1 DEF CancelReads
  <2>3. Typed'
    BY <2>1, <2>2
  <2>4. TurnsAreCut' /\ CountersAreCovered' /\ WorksWithoutResult'
    BY <2>2 DEF TurnsAreCut, CountersAreCovered, Uncounted, WorksWithoutResult
  <2>5. CancelsAreMarked'
    BY <2>1, <2>2 DEF CancelsAreMarked
  <2>6. ~Undisturbed'
    BY <2>1 DEF Undisturbed, Cancelling
  <2> QED BY <2>3, <2>4, <2>5, <2>6
<1>2. CASE CancelKills(c)
  <2>1. /\ cancel' = [cancel EXCEPT ![c] = "write"] /\ killed'
        /\ UNCHANGED <<job, charged, linked, step, crashes, paid, lost>>
    BY <1>2 DEF CancelKills
  <2>2. Typed'
    BY <2>1
  <2>3. TurnsAreCut' /\ CountersAreCovered' /\ WorksWithoutResult'
    BY <2>1 DEF TurnsAreCut, CountersAreCovered, Uncounted, WorksWithoutResult
  <2>4. CancelsAreMarked'
    BY <2>1 DEF CancelsAreMarked
  <2>5. ~Undisturbed'
    BY <2>1 DEF Undisturbed
  <2> QED BY <2>2, <2>3, <2>4, <2>5
<1>3. CASE CancelWrites(c)
  <2>1. /\ job' = [job EXCEPT !.status = "cancelled", !.cancelledAt = TRUE]
        /\ cancel' = [cancel EXCEPT ![c] = "settle"]
        /\ UNCHANGED <<charged, linked, killed, step, crashes, paid, lost>>
    BY <1>3 DEF CancelWrites
  <2>2. /\ job' \in Job /\ job'.cancelledAt /\ job'.status = "cancelled"
        /\ job'.tokens = job.tokens /\ job'.settled = job.settled /\ job'.result = job.result
    BY <2>1
  <2>3. Typed'
    BY <2>1, <2>2
  <2>4. TurnsAreCut' /\ CountersAreCovered' /\ WorksWithoutResult'
    BY <2>1, <2>2 DEF TurnsAreCut, CountersAreCovered, Uncounted, WorksWithoutResult
  <2>5. CancelsAreMarked'
    BY <2>2 DEF CancelsAreMarked
  <2>6. ~Undisturbed'
    BY <2>2 DEF Undisturbed
  <2> QED BY <2>3, <2>4, <2>5, <2>6
<1>4. CASE CancelSettles(c)
  <2>1. /\ cancel[c] = "settle" /\ cancel' = [cancel EXCEPT ![c] = "returned"]
        /\ UNCHANGED <<linked, killed, step, crashes, paid, lost>>
    BY <1>4 DEF CancelSettles
  <2>2. job.tokens \in Nat /\ charged \in Nat /\ paid \in Nat /\ job.cancelledAt
    BY <2>1 DEF CancelsAreMarked
  <2>3. /\ job' = [job EXCEPT !.settled = TRUE]
        /\ charged' = IF job.settled THEN charged ELSE charged + job.tokens
    BY <1>4, <2>2, SettlesFacts DEF CancelSettles
  <2>4. /\ job' \in Job /\ job'.cancelledAt /\ job'.tokens = job.tokens /\ job'.settled
        /\ job'.status = job.status /\ job'.result = job.result
    BY <2>2, <2>3
  <2>5. job.tokens <= paid /\ charged' \in Nat /\ charged' <= paid
    <3>1. job.tokens <= paid /\ charged <= paid /\ (~job.settled => charged = 0)
      BY <2>2 DEF CountersAreCovered, Uncounted
    <3> QED BY <2>2, <2>3, <3>1
  <2>6. Typed'
    BY <2>1, <2>4, <2>5
  <2>7. TurnsAreCut' /\ CountersAreCovered' /\ WorksWithoutResult'
    BY <2>1, <2>4, <2>5 DEF TurnsAreCut, CountersAreCovered, Uncounted, WorksWithoutResult
  <2>8. CancelsAreMarked'
    BY <2>4 DEF CancelsAreMarked
  <2>9. ~Undisturbed'
    BY <2>4 DEF Undisturbed
  <2> QED BY <2>6, <2>7, <2>8, <2>9
<1> QED BY <1>1, <1>2, <1>3, <1>4 DEF CancelNext

\* The two flags.
LEMMA FlagsTyped ==
  ASSUME JobTypeOK, [JobNext]_jobVars
  PROVE  linked' \in BOOLEAN /\ killed' \in BOOLEAN
<1>1. CASE UNCHANGED jobVars
  BY <1>1 DEF jobVars, JobTypeOK
<1>2. CASE StepNext
  BY <1>2 DEF JobTypeOK, StepNext, RunIsLinked, RunIsStopped, TurnReads, TurnAnnounces,
     TurnStopsShort, TurnCallsModel, ModelAnswers, CallThrows, TurnThrows, TurnStreams,
     TurnCountsUsage,
     StepAccepts, StepFails, StepReadsTotal, StepSettles, StepCrashes
<1>3. ASSUME NEW c \in Cancellers, CancelNext(c)
      PROVE  linked' \in BOOLEAN /\ killed' \in BOOLEAN
  BY <1>3 DEF JobTypeOK, CancelNext, CancelReads, CancelKills, CancelWrites, CancelSettles
<1> QED BY <1>1, <1>2, <1>3 DEF JobNext

\* Every step, and stuttering.
LEMMA JobNextInv == JobIInv /\ [JobNext]_jobVars => JobIInv'
<1> SUFFICES ASSUME JobIInv, [JobNext]_jobVars PROVE Accounts'
  BY FlagsTyped DEF JobIInv, JobTypeOK, Accounts, Typed
<1>1. CASE StepNext
  BY <1>1, TurnBeginsInv, TurnEndsInv, ThrowInv, StepEndsInv DEF JobIInv, StepNext
<1>2. ASSUME NEW c \in Cancellers, CancelNext(c) PROVE Accounts'
  BY <1>2, CancelInv DEF JobIInv
<1>3. CASE UNCHANGED jobVars
  BY <1>3, SameDisturbance DEF jobVars, JobIInv, Accounts, Typed, TurnsAreCut, CountersAreCovered,
     Uncounted, WorksWithoutResult, StatusFollowsStep, PriceFollowsStep
<1> QED BY <1>1, <1>2, <1>3 DEF JobNext

-----------------------------------------------------------------------------
(* The theorems about the job.                                             *)

\* Counters, charge, status and result follow the step, in every reachable state.
THEOREM JobInductive == JobSpec => []JobIInv
BY JobInitInv, JobNextInv, PTL DEF JobSpec

\* Every variable keeps its type: no loop takes a turn beyond AI_MAX_MODEL_STEPS.
THEOREM JobTypeCorrect == JobSpec => []JobTypeOK
<1>1. JobIInv => JobTypeOK
  BY DEF JobIInv
<1> QED BY <1>1, JobInductive, PTL

\* However often steps are replayed and cancel requests repeated, a job is charged for
\* no more than its calls cost, and a result stays.  A run that nobody disturbed ends
\* settled: for exactly what its calls cost when it completes, and for that less the
\* usage of the call whose turn threw before counting it when it fails.
THEOREM OutcomeAndPriceStand == JobSpec => []OutcomeStands
<1>1. JobIInv => OutcomeStands
  <2> SUFFICES ASSUME JobIInv PROVE OutcomeStands
    OBVIOUS
  <2>1. NeverOvercharged /\ ResultIsFinal
    BY DEF JobIInv, Accounts, CountersAreCovered, WorksWithoutResult, NeverOvercharged,
       ResultIsFinal
  <2>2. ASSUME step.pc = "ended", Undisturbed
        PROVE  /\ job.status \in TerminalStatus /\ job.settled
               /\ charged + lost = paid
               /\ job.status = "completed" => lost = 0
    <3>1. StatusFollowsStep /\ PriceFollowsStep /\ job.tokens \in Nat /\ lost \in Nat
      BY <2>2 DEF JobIInv, Accounts, Typed, Job
    <3>2. Uncounted = 0
      BY <2>2 DEF Uncounted
    <3> QED BY <2>2, <3>1, <3>2 DEF StatusFollowsStep, PriceFollowsStep
  <2>3. UndisturbedRunIsCharged
    BY <2>2 DEF Undisturbed, UndisturbedRunIsCharged
  <2> QED BY <2>1, <2>3 DEF OutcomeStands
<1> QED BY <1>1, JobInductive, PTL

\* Once a cancel request has written the row, no further call that costs money begins.
THEOREM CancelStopsPaying == JobSpec => NoPaidCallAfterCancel
<1>1. JobIInv /\ [JobNext]_jobVars
        => (step.pc # "model" /\ step'.pc = "model" => ~job.cancelledAt) \/ UNCHANGED jobVars
  <2> SUFFICES ASSUME JobIInv, JobNext, step.pc # "model", step'.pc = "model"
               PROVE  TurnCallsModel /\ MayCall
    BY DEF MayCall
  <2>1. step \in Step
    BY DEF JobIInv, Accounts, Typed
  <2>2. StepNext
    BY DEF JobNext, CancelNext, CancelReads, CancelKills, CancelWrites, CancelSettles
  <2>3. ~(\/ RunIsLinked \/ RunIsStopped \/ TurnReads \/ TurnAnnounces \/ TurnStopsShort
          \/ CallThrows \/ TurnThrows \/ StepAccepts \/ StepFails \/ StepReadsTotal)
    BY <2>1 DEF Step, Goto, Caught, RunIsLinked, RunIsStopped, TurnReads, TurnAnnounces,
       TurnStopsShort, CallThrows, TurnThrows, StepAccepts, StepFails, StepReadsTotal
  <2>4. ~(ModelAnswers \/ TurnStreams \/ TurnCountsUsage \/ StepSettles \/ StepCrashes)
    BY <2>1 DEF Step, Goto, Dies, Caught, ModelAnswers, TurnStreams, TurnCountsUsage, StepSettles,
       StepCrashes
  <2>5. TurnCallsModel
    BY <2>2, <2>3, <2>4 DEF StepNext
  <2> QED BY <2>1, <2>5 DEF Step, Goto, TurnCallsModel
<1> QED BY <1>1, JobInductive, PTL DEF JobSpec, NoPaidCallAfterCancel

-----------------------------------------------------------------------------
(* The job is charged once, as OneCharge says.                             *)

\* A settlement whose report the counters cover is the abstract one, or stutters.
LEMMA SettlementIsTheOne ==
  ASSUME JobIInv, NEW reported \in Nat, reported <= job.tokens, Settles(reported),
         paid' = paid
  PROVE  [Charge!Next]_Charge!vars
<1>1. Typed /\ CountersAreCovered
  BY DEF JobIInv, Accounts
<1>2. /\ job' = [job EXCEPT !.settled = TRUE]
      /\ charged' = IF job.settled THEN charged ELSE charged + job.tokens
  BY <1>1, SettlesFacts
<1>3. /\ job \in Job /\ job.tokens \in Nat /\ job.settled \in BOOLEAN
      /\ paid \in Nat /\ charged \in Nat /\ Uncounted \in Nat
  BY <1>1 DEF Typed, Job, Step, Uncounted
<1>4. job'.settled = TRUE
  BY <1>2, <1>3 DEF Job
<1>5. CASE job.settled
  BY <1>2, <1>3, <1>4, <1>5 DEF Charge!vars
<1>6. CASE ~job.settled
  <2>1. charged' = job.tokens /\ job.tokens <= paid
    BY <1>1, <1>2, <1>3, <1>6 DEF CountersAreCovered
  <2> QED BY <1>3, <1>4, <1>6, <2>1 DEF Charge!Next, Charge!Settle
<1> QED BY <1>5, <1>6

\* Every step of the job is one of the abstract specification, or stutters.
LEMMA JobStepsCharge == JobIInv /\ [JobNext]_jobVars => [Charge!Next]_Charge!vars
<1> SUFFICES ASSUME JobIInv, [JobNext]_jobVars PROVE [Charge!Next]_Charge!vars
  OBVIOUS
<1>1. job \in Job /\ job.tokens \in Nat /\ paid \in Nat /\ step \in Step
  BY DEF JobIInv, Accounts, Typed, Job
<1>2. CASE UNCHANGED jobVars
  BY <1>2 DEF jobVars, Charge!vars
<1>3. CASE ModelAnswers
  <2>1. PICK used \in Cost : paid' = paid + used
    BY <1>3 DEF ModelAnswers
  <2>2. paid' \in Nat /\ paid' > paid
    BY <1>1, <2>1, AiJobAssumption
  <2> QED BY <1>3, <2>2 DEF ModelAnswers, Charge!Next, Charge!Use
<1>4. CASE StepSettles
  <2>1. step.total \in Nat /\ step.total <= job.tokens
    BY <1>1, <1>4 DEF StepSettles, JobIInv, Accounts, CountersAreCovered, Step
  <2> QED BY <1>4, <2>1, SettlementIsTheOne DEF StepSettles
<1>5. ASSUME NEW c \in Cancellers, CancelNext(c) PROVE [Charge!Next]_Charge!vars
  <2>1. CASE CancelSettles(c)
    BY <1>1, <2>1, SettlementIsTheOne DEF CancelSettles
  <2>2. CASE CancelReads(c) \/ CancelKills(c)
    BY <2>2 DEF CancelReads, CancelKills, Charge!vars
  <2>3. CASE CancelWrites(c)
    <3>1. job'.settled = job.settled
      BY <1>1, <2>3 DEF CancelWrites, Job
    <3> QED BY <2>3, <3>1 DEF CancelWrites, Charge!vars
  <2> QED BY <1>5, <2>1, <2>2, <2>3 DEF CancelNext
<1>6. CASE CallThrows
  <2>1. PICK used \in {0} \union Cost : paid' = paid + used
    BY <1>6 DEF CallThrows
  <2>2. used = 0 => paid' = paid
    BY <1>1, <2>1
  <2>3. used # 0 => paid' \in Nat /\ paid' > paid
    BY <1>1, <2>1, AiJobAssumption
  <2> QED BY <1>6, <2>2, <2>3 DEF CallThrows, Charge!Next, Charge!Use, Charge!vars
<1>7. CASE StepNext /\ ~ModelAnswers /\ ~CallThrows /\ ~StepSettles
  <2>1. job'.settled = job.settled
    BY <1>1, <1>7 DEF Job, StepNext, RunIsLinked, RunIsStopped, TurnReads, TurnAnnounces,
       TurnStopsShort, TurnCallsModel, TurnThrows, TurnStreams, TurnCountsUsage,
       StepAccepts, StepFails, StepReadsTotal, StepCrashes
  <2>2. paid' = paid /\ charged' = charged
    BY <1>7 DEF StepNext, RunIsLinked, RunIsStopped, TurnReads, TurnAnnounces,
       TurnStopsShort, TurnCallsModel, TurnThrows, TurnStreams, TurnCountsUsage,
       StepAccepts, StepFails, StepReadsTotal, StepCrashes
  <2> QED BY <2>1, <2>2 DEF Charge!vars
<1> QED BY <1>2, <1>3, <1>4, <1>5, <1>6, <1>7 DEF JobNext

\* The turns, their replays and any number of cancel requests settle one job, and the
\* month is charged for it once: AiJob implements OneCharge.
THEOREM JobChargesOnce == JobSpec => JobImplementsOneCharge
<1>1. JobInit => Charge!Init
  BY DEF JobInit, Charge!Init
<1> QED BY <1>1, JobStepsCharge, JobInductive, PTL
        DEF JobSpec, JobImplementsOneCharge, Charge!Spec

\* No call is begun for a cancelled job, and what was used is charged once.
THEOREM JobsArePaidOnce == JobSpec => JobIsPaidOnce
BY CancelStopsPaying, JobChargesOnce DEF JobIsPaidOnce

-----------------------------------------------------------------------------
(* What asks for durable work: how a pull request and its place in the      *)
(* queue follow the provider.                                              *)

\* The steps of a pass behind its publication.
Published == {"confirm", "passed", "assign", "complete"}

\* The provider is ahead of whatever was read of it, and the synchronization at work
\* has read no older revision than the snapshot's.
NothingIsAhead ==
  /\ snapshot <= remote.rev
  /\ sync.fetched # None => /\ sync.fetched.rev <= remote.rev
                            /\ snapshot <= sync.fetched.rev

\* What a synchronization holds at each step.
SyncGoesWithStep ==
  /\ sync.pc = "idle" => sync.ask = "none" /\ sync.fetched = None
  /\ sync.pc \in {"publish"} \union Published => sync.fetched # None
  /\ sync.pc \in Published => Tracked /\ snapshot = sync.fetched.rev

\* What a pass holds at each step.
PassGoesWithStep ==
  /\ pass.pc \in {"read", "write", "intake", "assign"} => pass.listed # None
  /\ pass.pc \in {"read", "write", "assign"} => Tracked
  /\ pass.pc = "write" => pass.tracked # None

\* An assignment is of a step that waits for it, and of a pull request with a row.
PlaceIsOfTheRow ==
  /\ IsAssigning("sync") => sync.pc = "assign" /\ sync.ask # "none"
  /\ IsAssigning("pass") => pass.pc = "assign"
  /\ item.state # "none" => Tracked

\* A revision is in a snapshot, or somebody has yet to read the provider behind it, or
\* has read it, or the user sees the failure.
WillShow(rev) ==
  \/ snapshot >= rev
  \/ sync.pc = "idle" /\ sync.failed
  \/ /\ sync.pc # "idle"
     /\ \/ sync.joined
        \/ sync.pc = "queued"
        \/ sync.fetched # None /\ sync.fetched.rev >= rev

\* An event whose handler has acted on it has had its effect, and only such events, or
\* those in hand, are accepted.
EventsAreFollowed ==
  \A d \in Mails :
    /\ mail[d].rev <= remote.rev
    /\ mail[d].accepted => mail[d].status \in {"received", "applied", "done"}
    /\ mail[d].wanted => Tracked \/ mode = "all"
    /\ mail[d].status \in {"applied", "done"} /\ mail[d].wanted
       /\ mail[d].event = "updated" => WillShow(mail[d].rev)

\* Everything in progress knows the revision at which the owner has removed the item.
RemovalIsKnown ==
  wish = "out" =>
    /\ item = [state |-> "removed", rev |-> remote.rev]
    /\ sync.ask # "explicit"
    /\ sync.fetched = None \/ sync.fetched.rev = remote.rev
    /\ pass.listed = None \/ pass.listed.rev = remote.rev
    /\ assigning # None => /\ assigning.seen = item
                           /\ ~assigning.explicit
                           /\ assigning.rev = remote.rev

\* A run carries the owner's wish, and does not complete without it.
AdditionIsUnderWay ==
  wish = "in" /\ item.state # "active" =>
    /\ sync.pc # "idle" /\ sync.ask = "explicit"
    /\ sync.pc = "complete" => sync.joined
    /\ IsAssigning("sync") => assigning.explicit \/ sync.joined

Follows == /\ NothingIsAhead
           /\ SyncGoesWithStep
           /\ PassGoesWithStep
           /\ PlaceIsOfTheRow
           /\ EventsAreFollowed
           /\ RemovalIsKnown
           /\ AdditionIsUnderWay

IntakeIInv == IntakeTypeOK /\ Follows

-----------------------------------------------------------------------------
\* Nothing is open yet, and nobody has asked.
LEMMA IntakeInitInv == IntakeInit => IntakeIInv
<1> SUFFICES ASSUME IntakeInit PROVE IntakeIInv
  OBVIOUS
<1> USE PullRequestIntakeAssumption DEF IntakeInit, NoSync, NoPass
<1>1. IntakeTypeOK
  BY DEF IntakeTypeOK, PullRequest, Maybe, Mails, Mail, Rev, Sync, Item
<1>2. Follows
  BY DEF Follows, NothingIsAhead, SyncGoesWithStep, PassGoesWithStep, PlaceIsOfTheRow,
     EventsAreFollowed, RemovalIsKnown, AdditionIsUnderWay, IsAssigning, Tracked,
     Published, Mails
<1> QED BY <1>1, <1>2 DEF IntakeIInv

\* What the types give in most steps.
LEMMA Typing ==
  ASSUME IntakeTypeOK
  PROVE  /\ remote \in PullRequest /\ remote.rev \in Nat
         /\ snapshot \in Nat
         /\ Tracked => row \in PullRequest /\ row.rev \in Nat
         /\ sync.fetched # None => sync.fetched \in PullRequest /\ sync.fetched.rev \in Nat
         /\ pass.listed # None => pass.listed \in PullRequest /\ pass.listed.rev \in Nat
         /\ pass.tracked # None => pass.tracked \in PullRequest
         /\ \A d \in Mails : mail[d] \in Mail /\ mail[d].rev \in Nat
         /\ Rev \subseteq Nat
BY PullRequestIntakeAssumption
   DEF IntakeTypeOK, PullRequest, Maybe, Rev, Sync, Tracked, Mail

-----------------------------------------------------------------------------
(* What a request and a failure leave behind.                              *)

\* A request leaves the run, or a new one, to read the provider once more.
LEMMA RequestsKeep ==
  ASSUME IntakeIInv, NEW ask \in {"none", "implicit", "explicit"}, Requests(ask),
         UNCHANGED <<mode, remote, row, snapshot, item, assigning>>,
         \/ UNCHANGED pass
         \/ pass' = NoPass /\ pass.pc # "assign"
  PROVE  /\ sync' \in Sync /\ wish' \in {"none", "in", "out"}
         /\ NothingIsAhead' /\ SyncGoesWithStep' /\ PlaceIsOfTheRow'
         /\ RemovalIsKnown' /\ AdditionIsUnderWay'
         /\ \A rev \in Nat : WillShow(rev)'
<1> USE DEF IntakeIInv, Follows
<1>1. sync \in Sync /\ wish \in {"none", "in", "out"}
  BY DEF IntakeTypeOK
<1>2. CASE sync.pc = "idle"
  <2>1. sync' = [pc |-> "queued", failed |-> FALSE, joined |-> FALSE, ask |-> ask,
                 observed |-> 0, fetched |-> None]
    BY <1>2 DEF Requests, Requested, NoSync
  <2>2. wish' = IF ask = "explicit" THEN "in" ELSE wish
    BY <1>2 DEF Requests
  <2>3. sync' \in Sync /\ wish' \in {"none", "in", "out"}
    BY <1>1, <2>1, <2>2 DEF Sync, Maybe
  <2>4. NothingIsAhead' /\ SyncGoesWithStep' /\ PlaceIsOfTheRow'
    BY <1>2, <2>1 DEF NothingIsAhead, SyncGoesWithStep, PlaceIsOfTheRow, IsAssigning, Tracked,
       Published
  <2>5. RemovalIsKnown'
    BY <2>1, <2>2 DEF RemovalIsKnown, NoPass
  <2>6. AdditionIsUnderWay'
    BY <1>2, <2>1, <2>2 DEF AdditionIsUnderWay, PlaceIsOfTheRow, IsAssigning
  <2>7. \A rev \in Nat : WillShow(rev)'
    BY <2>1 DEF WillShow
  <2> QED BY <2>3, <2>4, <2>5, <2>6, <2>7
<1>3. CASE sync.pc # "idle"
  <2>1. sync' = [sync EXCEPT !.joined = TRUE,
                             !.ask = IF ask = "none" THEN sync.ask ELSE ask]
    BY <1>3 DEF Requests, Requested
  <2>2. wish' = IF ask = "explicit" THEN "in"
                ELSE IF ask = "implicit" /\ wish = "in" THEN "none" ELSE wish
    BY <1>3 DEF Requests
  <2>3. sync' \in Sync /\ wish' \in {"none", "in", "out"}
    BY <1>1, <2>1, <2>2 DEF Sync
  <2>4. /\ sync'.pc = sync.pc /\ sync'.fetched = sync.fetched /\ sync'.joined
        /\ sync'.ask = IF ask = "none" THEN sync.ask ELSE ask
    BY <1>1, <2>1 DEF Sync
  <2>5. NothingIsAhead' /\ SyncGoesWithStep' /\ PlaceIsOfTheRow'
    BY <1>3, <2>4 DEF NothingIsAhead, SyncGoesWithStep, PlaceIsOfTheRow, IsAssigning, Tracked,
       NoPass
  <2>6. RemovalIsKnown'
    BY <2>2, <2>4 DEF RemovalIsKnown, NoPass
  <2>7. AdditionIsUnderWay'
    BY <1>3, <2>2, <2>4 DEF AdditionIsUnderWay, IsAssigning
  <2>8. \A rev \in Nat : WillShow(rev)'
    BY <1>3, <2>4 DEF WillShow
  <2> QED BY <2>3, <2>5, <2>6, <2>7, <2>8
<1> QED BY <1>2, <1>3

\* Mails whose rows do not change stay followed as long as what will show stays.
LEMMA EventsStay ==
  ASSUME IntakeIInv, UNCHANGED <<mode, mail>>, remote.rev <= remote'.rev,
         remote'.rev \in Nat, Tracked => Tracked',
         \A rev \in Nat : rev <= remote.rev /\ WillShow(rev) => WillShow(rev)'
  PROVE  EventsAreFollowed'
<1>1. \A d \in Mails : mail[d].rev \in Nat /\ mail[d].rev <= remote.rev /\ remote.rev \in Nat
  BY Typing DEF IntakeIInv, Follows, EventsAreFollowed
<1> QED BY <1>1 DEF IntakeIInv, Follows, EventsAreFollowed

\* A step that throws is executed again, or the run fails for the user to see.
LEMMA ThrowsKeep ==
  ASSUME IntakeIInv, Throws, sync.pc # "idle", ~IsAssigning("sync"),
         UNCHANGED <<mode, remote, row, snapshot, mail, item, assigning, pass>>
  PROVE  sync' \in Sync /\ wish' \in {"none", "in", "out"} /\ Follows'
<1> USE DEF IntakeIInv, Follows
<1>1. sync \in Sync /\ wish \in {"none", "in", "out"} /\ remote.rev \in Nat
  BY Typing DEF IntakeTypeOK
<1>2. /\ sync' \in Sync /\ sync'.fetched = None
      /\ \/ sync'.pc = "queued" /\ sync'.ask = sync.ask /\ sync'.joined = sync.joined
            /\ wish' = wish
         \/ /\ sync'.pc = "idle" /\ sync'.ask = "none" /\ sync'.failed
            /\ wish' = IF wish = "in" /\ item.state # "active" THEN "none" ELSE wish
  BY <1>1 DEF Throws, NoSync, Sync, Maybe
<1>3. wish' \in {"none", "in", "out"}
  BY <1>1, <1>2
<1>4. NothingIsAhead' /\ SyncGoesWithStep' /\ PassGoesWithStep' /\ PlaceIsOfTheRow'
  BY <1>2 DEF NothingIsAhead, SyncGoesWithStep, PassGoesWithStep, PlaceIsOfTheRow, IsAssigning,
     Tracked, Published
<1>5. EventsAreFollowed'
  <2>1. \A rev \in Nat : WillShow(rev)'
    BY <1>2 DEF WillShow
  <2> QED BY <1>1, <2>1, EventsStay DEF Tracked
<1>6. RemovalIsKnown'
  BY <1>2 DEF RemovalIsKnown
<1>7. AdditionIsUnderWay'
  BY <1>2 DEF AdditionIsUnderWay, IsAssigning
<1> QED BY <1>2, <1>3, <1>4, <1>5, <1>6, <1>7

-----------------------------------------------------------------------------
(* The events of the provider.                                             *)

\* A change at the provider, of its revision or of its state alone.
LEMMA ProviderChangesInv ==
  ASSUME IntakeIInv, NEW d \in Mails, ProviderChanges(d)
  PROVE  IntakeIInv'
<1> USE DEF IntakeIInv, Follows
<1>1. /\ UNCHANGED <<mode, row, snapshot, sync, pass, item, assigning>>
      /\ upsets' \in 0..MaxUpsets
  BY PullRequestIntakeAssumption DEF ProviderChanges, stored, place, Upset, IntakeTypeOK
<1>2. PICK event \in {"updated", "closed", "merged"}, pullRequest \in PullRequest :
        /\ Sends(d, event, pullRequest)
        /\ \/ pullRequest.rev = remote.rev /\ wish' = wish
           \/ pullRequest.rev = remote.rev + 1 /\ wish' = IF wish = "out" THEN "none" ELSE wish
  <2>1. remote.rev < MaxRevisions => [remote EXCEPT !.rev = remote.rev + 1] \in PullRequest
    BY Typing, PullRequestIntakeAssumption DEF PullRequest, Rev
  <2>2. \A end \in {"open", "closed", "merged"} :
          /\ [remote EXCEPT !.state = end] \in PullRequest
          /\ [remote EXCEPT !.state = end].rev = remote.rev
    BY Typing DEF PullRequest
  <2>3. [remote EXCEPT !.rev = remote.rev + 1].rev = remote.rev + 1
    BY Typing DEF PullRequest
  <2> QED BY <2>1, <2>2, <2>3 DEF ProviderChanges
<1>3. /\ remote' = pullRequest
      /\ mail' = [mail EXCEPT ![d] = [status |-> "sent", event |-> event,
                    rev |-> pullRequest.rev, wanted |-> Tracked \/ mode = "all",
                    accepted |-> FALSE]]
  BY <1>2 DEF Sends
<1>4. remote' \in PullRequest /\ remote'.rev \in Nat /\ remote.rev <= remote'.rev
  BY <1>2, <1>3, Typing
<1>5. IntakeTypeOK'
  <2>1. wish' \in {"none", "in", "out"}
    BY <1>2 DEF IntakeTypeOK
  <2>2. pullRequest.rev \in Rev /\ (Tracked \/ mode = "all") \in BOOLEAN
    BY <1>2 DEF PullRequest
  <2>3. [status |-> "sent", event |-> event, rev |-> pullRequest.rev,
         wanted |-> Tracked \/ mode = "all", accepted |-> FALSE] \in Mail
    BY <1>2, <2>2 DEF Mail
  <2>4. mail' \in [Mails -> Mail]
    BY <1>3, <2>3 DEF IntakeTypeOK
  <2> QED BY <1>1, <1>4, <2>1, <2>4 DEF IntakeTypeOK
<1>6. NothingIsAhead' /\ SyncGoesWithStep' /\ PassGoesWithStep' /\ PlaceIsOfTheRow'
  BY <1>1, <1>4, Typing DEF NothingIsAhead, SyncGoesWithStep, PassGoesWithStep, PlaceIsOfTheRow,
     IsAssigning, Tracked
<1>7. EventsAreFollowed'
  <2>1. ASSUME NEW e \in Mails, e # d
        PROVE  mail'[e] = mail[e] /\ mail[e].rev \in Nat /\ mail[e].rev <= remote.rev
                 /\ remote.rev \in Nat
    BY <1>3, <2>1, Typing DEF IntakeTypeOK, EventsAreFollowed
  <2>2. /\ mail'[d].status = "sent" /\ mail'[d].accepted = FALSE
        /\ mail'[d].rev = remote'.rev /\ (mail'[d].wanted => Tracked \/ mode = "all")
    BY <1>3 DEF IntakeTypeOK
  <2>3. \A rev : WillShow(rev)' <=> WillShow(rev)
    BY <1>1 DEF WillShow
  <2>4. Tracked' <=> Tracked
    BY <1>1 DEF Tracked
  <2> QED BY <1>1, <1>4, <2>1, <2>2, <2>3, <2>4 DEF EventsAreFollowed
<1>8. RemovalIsKnown' /\ AdditionIsUnderWay'
  BY <1>1, <1>2, <1>3 DEF RemovalIsKnown, AdditionIsUnderWay, IsAssigning
<1> QED BY <1>5, <1>6, <1>7, <1>8

\* What becomes of a delivery while nothing else moves.
LEMMA DeliveryInv ==
  ASSUME IntakeIInv, NEW d \in Mails, Receives(d) \/ Answers(d) \/ Fails(d)
  PROVE  IntakeIInv'
<1> USE DEF IntakeIInv, Follows
<1>1. /\ UNCHANGED <<mode, remote, row, snapshot, sync, pass, item, assigning, wish>>
      /\ upsets' \in 0..MaxUpsets
  BY PullRequestIntakeAssumption DEF Receives, Answers, Fails, stored, place, Upset, IntakeTypeOK
<1>2. PICK next \in {"received", "applied", "done", "failed"}, accepted \in BOOLEAN :
        /\ mail' = [mail EXCEPT ![d] = [mail[d] EXCEPT !.status = next,
                                                       !.accepted = accepted]]
        /\ accepted => next \in {"received", "applied", "done"}
        /\ next \in {"applied", "done"} => mail[d].status \in {"applied", "done"}
  <2>1. mail[d] \in Mail /\ mail \in [Mails -> Mail]
    BY DEF IntakeTypeOK
  <2>2. CASE Receives(d) /\ IsClaimable(d)
    <3>1. mail' = [mail EXCEPT ![d] = [mail[d] EXCEPT !.status = "received",
                                                      !.accepted = mail[d].accepted]]
      BY <2>1, <2>2 DEF Receives, Mail
    <3>2. mail[d].accepted \in BOOLEAN
      BY <2>1 DEF Mail
    <3> QED BY <3>1, <3>2
  <2>3. CASE Receives(d) /\ ~IsClaimable(d)
    <3>1. mail' = [mail EXCEPT ![d] = [mail[d] EXCEPT !.status = mail[d].status,
                                                      !.accepted = TRUE]]
      BY <2>1, <2>3 DEF Receives, Mail
    <3>2. mail[d].status \in {"received", "applied", "done"}
      BY <2>1, <2>3 DEF Receives, IsClaimable, Mail
    <3> QED BY <3>1, <3>2
  <2>4. CASE Answers(d)
    <3>1. mail' = [mail EXCEPT ![d] = [mail[d] EXCEPT !.status = "done", !.accepted = TRUE]]
      BY <2>1, <2>4 DEF Answers
    <3> QED BY <2>4, <3>1 DEF Answers
  <2>5. CASE Fails(d)
    <3>1. mail' = [mail EXCEPT ![d] = [mail[d] EXCEPT !.status = "failed", !.accepted = FALSE]]
      BY <2>1, <2>5 DEF Fails
    <3> QED BY <3>1
  <2> QED BY <2>2, <2>3, <2>4, <2>5
<1>3. mail' \in [Mails -> Mail]
  <2>1. [mail[d] EXCEPT !.status = next, !.accepted = accepted] \in Mail
    BY <1>2 DEF IntakeTypeOK, Mail
  <2> QED BY <1>2, <2>1 DEF IntakeTypeOK
<1>4. IntakeTypeOK'
  BY <1>1, <1>3 DEF IntakeTypeOK
<1>5. NothingIsAhead' /\ SyncGoesWithStep' /\ PassGoesWithStep' /\ PlaceIsOfTheRow'
  BY <1>1 DEF NothingIsAhead, SyncGoesWithStep, PassGoesWithStep, PlaceIsOfTheRow,
     IsAssigning, Tracked
<1>6. EventsAreFollowed'
  <2>1. \A e \in Mails : e # d => mail'[e] = mail[e]
    BY <1>2 DEF IntakeTypeOK
  <2>2. /\ mail'[d].rev = mail[d].rev /\ mail'[d].wanted = mail[d].wanted
        /\ mail'[d].event = mail[d].event
        /\ mail'[d].status = next /\ mail'[d].accepted = accepted
    BY <1>2 DEF IntakeTypeOK, Mail
  <2>3. \A rev : WillShow(rev)' <=> WillShow(rev)
    BY <1>1 DEF WillShow
  <2>4. Tracked' <=> Tracked
    BY <1>1 DEF Tracked
  <2> QED BY <1>1, <1>2, <2>1, <2>2, <2>3, <2>4 DEF EventsAreFollowed
<1>7. RemovalIsKnown' /\ AdditionIsUnderWay'
  BY <1>1 DEF RemovalIsKnown, AdditionIsUnderWay, IsAssigning
<1> QED BY <1>4, <1>5, <1>6, <1>7

\* The handler ends the row, or asks for a synchronization: of an update that is wanted
\* it always asks.
LEMMA AppliesInv ==
  ASSUME IntakeIInv, NEW d \in Mails, Applies(d)
  PROVE  IntakeIInv'
<1> USE DEF IntakeIInv, Follows
<1>1. /\ UNCHANGED <<mode, remote, snapshot, pass, item, assigning, upsets>>
      /\ mail' = [mail EXCEPT ![d] = [mail[d] EXCEPT !.status = "applied"]]
      /\ mail[d] \in Mail /\ mail[d].status = "received"
  BY DEF Applies, place, IntakeTypeOK
<1>2. mail' \in [Mails -> Mail]
  BY <1>1 DEF IntakeTypeOK, Mail
<1>3. /\ \A e \in Mails : e # d => mail'[e] = mail[e]
      /\ mail'[d].rev = mail[d].rev /\ mail'[d].wanted = mail[d].wanted
      /\ mail'[d].event = mail[d].event
      /\ mail'[d].status = "applied" /\ mail'[d].accepted = mail[d].accepted
  BY <1>1 DEF IntakeTypeOK, Mail
<1>4. CASE TerminalState(mail[d].event) # None
  <2>1. row' = Retired(mail[d].event) /\ UNCHANGED <<sync, wish>> /\ mail[d].event # "updated"
    BY <1>4 DEF Applies, TerminalState
  <2>2. mail[d].event \in {"closed", "merged"}
    BY <1>1, <2>1 DEF Mail
  <2>3. row' \in Maybe /\ (Tracked' <=> Tracked)
    <3>1. CASE Tracked
      <4>1. row' \in PullRequest
        BY <2>1, <2>2, <3>1, Typing DEF Retired, PullRequest
      <4> QED BY <3>1, <4>1, PullRequestIntakeAssumption DEF Maybe, Tracked, PullRequest, Rev
    <3>2. CASE ~Tracked
      BY <2>1, <3>2 DEF Retired, Tracked, Maybe
    <3> QED BY <3>1, <3>2
  <2>4. IntakeTypeOK'
    BY <1>1, <1>2, <2>1, <2>3 DEF IntakeTypeOK
  <2>5. NothingIsAhead' /\ SyncGoesWithStep' /\ PassGoesWithStep' /\ PlaceIsOfTheRow'
    BY <1>1, <2>1, <2>3 DEF NothingIsAhead, SyncGoesWithStep, PassGoesWithStep,
       PlaceIsOfTheRow, IsAssigning
  <2>6. EventsAreFollowed'
    <3>1. \A rev : WillShow(rev)' <=> WillShow(rev)
      BY <1>1, <2>1 DEF WillShow
    <3> QED BY <1>1, <1>3, <2>1, <2>3, <3>1 DEF EventsAreFollowed
  <2>7. RemovalIsKnown' /\ AdditionIsUnderWay'
    BY <1>1, <2>1 DEF RemovalIsKnown, AdditionIsUnderWay, IsAssigning
  <2> QED BY <2>4, <2>5, <2>6, <2>7
<1>5. CASE TerminalState(mail[d].event) = None /\ (Tracked \/ mode = "all")
  <2>1. UNCHANGED row /\ Requests(OwnersAsk)
    BY <1>5 DEF Applies
  <2>2. OwnersAsk \in {"none", "implicit", "explicit"}
    BY DEF OwnersAsk
  <2>3. /\ sync' \in Sync /\ wish' \in {"none", "in", "out"}
        /\ NothingIsAhead' /\ SyncGoesWithStep' /\ PlaceIsOfTheRow'
        /\ RemovalIsKnown' /\ AdditionIsUnderWay'
        /\ \A rev \in Nat : WillShow(rev)'
    BY <1>1, <2>1, <2>2, RequestsKeep
  <2>4. IntakeTypeOK'
    BY <1>1, <1>2, <2>1, <2>3 DEF IntakeTypeOK
  <2>5. PassGoesWithStep'
    BY <1>1, <2>1 DEF PassGoesWithStep, Tracked
  <2>6. EventsAreFollowed'
    BY <1>1, <1>3, <2>1, <2>3, Typing DEF EventsAreFollowed, Tracked
  <2> QED BY <2>3, <2>4, <2>5, <2>6
<1>6. CASE TerminalState(mail[d].event) = None /\ ~Tracked /\ mode # "all"
  <2>1. UNCHANGED <<row, sync, wish>>
    BY <1>6 DEF Applies
  <2>2. IntakeTypeOK'
    BY <1>1, <1>2, <2>1 DEF IntakeTypeOK
  <2>3. NothingIsAhead' /\ SyncGoesWithStep' /\ PassGoesWithStep' /\ PlaceIsOfTheRow'
    BY <1>1, <2>1 DEF NothingIsAhead, SyncGoesWithStep, PassGoesWithStep,
       PlaceIsOfTheRow, IsAssigning, Tracked
  <2>4. EventsAreFollowed'
    <3>1. \A rev : WillShow(rev)' <=> WillShow(rev)
      BY <1>1, <2>1 DEF WillShow
    <3> QED BY <1>1, <1>3, <1>6, <2>1, <3>1 DEF EventsAreFollowed, Tracked
  <2>5. RemovalIsKnown' /\ AdditionIsUnderWay'
    BY <1>1, <2>1 DEF RemovalIsKnown, AdditionIsUnderWay, IsAssigning
  <2> QED BY <2>2, <2>3, <2>4, <2>5
<1> QED BY <1>4, <1>5, <1>6

-----------------------------------------------------------------------------
(* The owner of the queue.                                                 *)

\* A step that leaves the synchronization, the row and the mails alone keeps what they
\* have been told.
LEMMA EventsUntouched ==
  ASSUME IntakeIInv, UNCHANGED <<mode, mail, snapshot, sync, remote>>, Tracked' <=> Tracked
  PROVE  EventsAreFollowed'
<1>1. \A rev : WillShow(rev)' <=> WillShow(rev)
  BY DEF WillShow
<1> QED BY <1>1 DEF IntakeIInv, Follows, EventsAreFollowed

\* Adding asks, removing and restoring write the item.
LEMMA UserInv ==
  ASSUME IntakeIInv, UserNext
  PROVE  IntakeIInv'
<1> USE DEF IntakeIInv, Follows
<1>1. /\ UNCHANGED <<mode, remote, row, snapshot, mail, pass, assigning>>
      /\ upsets' \in 0..MaxUpsets
  BY PullRequestIntakeAssumption
     DEF UserNext, Adds, Removes, Restores, stored, place, Upset, IntakeTypeOK
<1>2. CASE Adds
  <2>1. Requests("explicit") /\ UNCHANGED item
    BY <1>2 DEF Adds, place
  <2>2. /\ sync' \in Sync /\ wish' \in {"none", "in", "out"}
        /\ NothingIsAhead' /\ SyncGoesWithStep' /\ PlaceIsOfTheRow'
        /\ RemovalIsKnown' /\ AdditionIsUnderWay'
        /\ \A rev \in Nat : WillShow(rev)'
    BY <1>1, <2>1, RequestsKeep
  <2>3. IntakeTypeOK'
    BY <1>1, <2>1, <2>2 DEF IntakeTypeOK
  <2>4. PassGoesWithStep'
    BY <1>1 DEF PassGoesWithStep, Tracked
  <2>5. EventsAreFollowed'
    BY <1>1, <2>2, EventsStay, Typing DEF Tracked
  <2> QED BY <2>2, <2>3, <2>4, <2>5
<1>3. CASE Removes \/ Restores
  <2>1. /\ UNCHANGED sync /\ Tracked
        /\ \/ /\ item' = [state |-> "removed", rev |-> row.rev]
              /\ wish' = IF Quiet THEN "out" ELSE "none"
           \/ item' = [state |-> "active", rev |-> 0] /\ wish' = "none"
    BY <1>3 DEF Removes, Restores, PlaceIsOfTheRow
  <2>2. IntakeTypeOK'
    <3>1. row.rev \in Rev
      BY <2>1, Typing DEF PullRequest
    <3>2. item' \in Item /\ wish' \in {"none", "in", "out"}
      BY <2>1, <3>1 DEF Item
    <3> QED BY <1>1, <2>1, <3>2 DEF IntakeTypeOK
  <2>3. NothingIsAhead' /\ SyncGoesWithStep' /\ PassGoesWithStep' /\ PlaceIsOfTheRow'
    BY <1>1, <2>1 DEF NothingIsAhead, SyncGoesWithStep, PassGoesWithStep, PlaceIsOfTheRow,
       IsAssigning, Tracked
  <2>4. EventsAreFollowed'
    BY <1>1, <2>1, EventsUntouched DEF Tracked
  <2>5. RemovalIsKnown'
    <3>1. ASSUME wish' = "out"
          PROVE  /\ item' = [state |-> "removed", rev |-> remote.rev] /\ assigning = None
                 /\ sync.ask # "explicit"
                 /\ sync.fetched = None \/ sync.fetched.rev = remote.rev
                 /\ pass.listed = None \/ pass.listed.rev = remote.rev
      BY <2>1, <3>1 DEF Quiet, SyncGoesWithStep
    <3> QED BY <1>1, <2>1, <3>1 DEF RemovalIsKnown
  <2>6. AdditionIsUnderWay'
    BY <2>1 DEF AdditionIsUnderWay
  <2> QED BY <2>2, <2>3, <2>4, <2>5, <2>6
<1> QED BY <1>2, <1>3 DEF UserNext

-----------------------------------------------------------------------------
(* The synchronization.                                                    *)

\* A synchronization that goes to its next step.
LEMMA SyncAdvances ==
  ASSUME IntakeIInv, SyncReads \/ SyncAssigns
  PROVE  IntakeIInv'
<1> USE DEF IntakeIInv, Follows
<1>1. /\ UNCHANGED <<mode, remote, row, snapshot, mail, pass, item, wish, upsets>>
      /\ sync \in Sync
  BY DEF SyncReads, SyncAssigns, syncOnly, stored, place, IntakeTypeOK
<1>2. CASE SyncReads
  <2>1. /\ sync.pc = "queued" /\ UNCHANGED assigning
        /\ sync' = [sync EXCEPT !.pc = "publish", !.joined = FALSE, !.observed = RowRev,
                                !.fetched = remote]
    BY <1>2 DEF SyncReads, syncOnly, place
  <2>2. /\ sync' \in Sync
        /\ sync'.pc = "publish" /\ sync'.fetched = remote /\ sync'.ask = sync.ask
    <3>1. RowRev \in {0} \union Rev /\ remote \in Maybe
      BY Typing DEF RowRev, PullRequest, Maybe
    <3> QED BY <1>1, <2>1, <3>1 DEF Sync
  <2>3. remote # None
    BY Typing, PullRequestIntakeAssumption DEF PullRequest, Rev
  <2>4. IntakeTypeOK'
    BY <1>1, <2>1, <2>2 DEF IntakeTypeOK
  <2>5. NothingIsAhead' /\ SyncGoesWithStep' /\ PassGoesWithStep' /\ PlaceIsOfTheRow'
    BY <1>1, <2>1, <2>2, <2>3, Typing DEF NothingIsAhead, SyncGoesWithStep, PassGoesWithStep,
       PlaceIsOfTheRow, IsAssigning, Tracked, Published
  <2>6. EventsAreFollowed'
    <3>1. \A rev \in Nat : rev <= remote.rev => WillShow(rev)'
      BY <1>1, <2>2, <2>3 DEF WillShow
    <3> QED BY <1>1, <3>1, EventsStay, Typing DEF Tracked
  <2>7. RemovalIsKnown' /\ AdditionIsUnderWay'
    BY <1>1, <2>1, <2>2 DEF RemovalIsKnown, AdditionIsUnderWay, PlaceIsOfTheRow, IsAssigning
  <2> QED BY <2>4, <2>5, <2>6, <2>7
<1>3. CASE SyncAssigns /\ sync.ask = "none"
  <2>1. /\ sync.pc = "assign" /\ UNCHANGED assigning
        /\ sync' = [sync EXCEPT !.pc = "complete"]
    BY <1>3 DEF SyncAssigns, SyncGoes
  <2>2. /\ sync' \in Sync
        /\ sync'.pc = "complete" /\ sync'.fetched = sync.fetched /\ sync'.ask = sync.ask
        /\ sync'.joined = sync.joined
    BY <1>1, <2>1 DEF Sync
  <2>3. IntakeTypeOK'
    BY <1>1, <2>1, <2>2 DEF IntakeTypeOK
  <2>4. NothingIsAhead' /\ SyncGoesWithStep' /\ PassGoesWithStep' /\ PlaceIsOfTheRow'
    BY <1>1, <1>3, <2>1, <2>2 DEF NothingIsAhead, SyncGoesWithStep, PassGoesWithStep,
       PlaceIsOfTheRow, IsAssigning, Tracked, Published
  <2>5. EventsAreFollowed'
    <3>1. \A rev \in Nat : WillShow(rev) => WillShow(rev)'
      BY <1>1, <2>1, <2>2 DEF WillShow
    <3> QED BY <1>1, <3>1, EventsStay, Typing DEF Tracked
  <2>6. RemovalIsKnown' /\ AdditionIsUnderWay'
    BY <1>1, <1>3, <2>1, <2>2 DEF RemovalIsKnown, AdditionIsUnderWay
  <2> QED BY <2>3, <2>4, <2>5, <2>6
<1>4. CASE SyncAssigns /\ sync.ask # "none"
  <2>1. /\ sync.pc = "assign" /\ UNCHANGED sync
        /\ assigning = None
        /\ assigning' = [by |-> "sync", seen |-> item, rev |-> sync.fetched.rev,
                         explicit |-> sync.ask = "explicit"]
    BY <1>4 DEF SyncAssigns, AssignReads
  <2>2. IntakeTypeOK'
    <3>1. item \in Item /\ (sync.ask = "explicit") \in BOOLEAN
      BY DEF IntakeTypeOK
    <3>2. sync.fetched \in PullRequest
      BY <2>1, Typing DEF SyncGoesWithStep, Published
    <3>3. sync.fetched.rev \in Rev
      BY <3>2 DEF PullRequest
    <3>4. assigning' \in [by: {"sync", "pass"}, seen: Item, rev: Rev, explicit: BOOLEAN]
      BY <2>1, <3>1, <3>3
    <3> QED BY <1>1, <2>1, <3>4 DEF IntakeTypeOK
  <2>3. NothingIsAhead' /\ SyncGoesWithStep' /\ PassGoesWithStep' /\ PlaceIsOfTheRow'
    BY <1>1, <1>4, <2>1 DEF NothingIsAhead, SyncGoesWithStep, PassGoesWithStep,
       PlaceIsOfTheRow, IsAssigning, Tracked
  <2>4. EventsAreFollowed'
    BY <1>1, <2>1, EventsUntouched DEF Tracked
  <2>5. RemovalIsKnown' /\ AdditionIsUnderWay'
    BY <1>1, <2>1 DEF RemovalIsKnown, AdditionIsUnderWay, IsAssigning, SyncGoesWithStep,
       Published
  <2> QED BY <2>2, <2>3, <2>4, <2>5
<1> QED BY <1>2, <1>3, <1>4

\* The pass publishes or reuses what it has fetched.
LEMMA SyncStores ==
  ASSUME IntakeIInv,
         \/ SyncReuses /\ RowRev = sync.fetched.rev
         \/ SyncPublishes /\ RowRev \in {sync.observed, sync.fetched.rev}
  PROVE  IntakeIInv'
<1> USE DEF IntakeIInv, Follows
<1>1. /\ UNCHANGED <<mode, remote, mail, pass, item, assigning, upsets, wish>>
      /\ sync.pc = "publish" /\ sync.fetched # None
      /\ row' = sync.fetched /\ snapshot' = sync.fetched.rev
      /\ \E pc \in {"confirm", "passed"} : sync' = [sync EXCEPT !.pc = pc, !.observed = 0]
  BY DEF SyncReuses, SyncPublishes, syncOnly, place, SyncGoesWithStep
<1>2. /\ sync' \in Sync /\ sync'.pc \in {"confirm", "passed"}
      /\ sync'.fetched = sync.fetched /\ sync'.ask = sync.ask /\ sync'.joined = sync.joined
  BY <1>1 DEF IntakeTypeOK, Sync
<1>3. sync.fetched \in PullRequest /\ sync.fetched.rev \in Rev /\ Tracked'
  BY <1>1, Typing DEF PullRequest, Tracked
<1>4. IntakeTypeOK'
  BY <1>1, <1>2, <1>3 DEF IntakeTypeOK, Maybe
<1>5. NothingIsAhead' /\ SyncGoesWithStep' /\ PassGoesWithStep' /\ PlaceIsOfTheRow'
  BY <1>1, <1>2, <1>3, Typing DEF NothingIsAhead, SyncGoesWithStep, PassGoesWithStep,
     PlaceIsOfTheRow, IsAssigning, Published
<1>6. EventsAreFollowed'
  <2>1. \A rev \in Nat : WillShow(rev) => WillShow(rev)'
    BY <1>1, <1>2, Typing DEF WillShow, NothingIsAhead
  <2> QED BY <1>1, <1>3, <2>1, EventsStay, Typing
<1>7. RemovalIsKnown' /\ AdditionIsUnderWay'
  BY <1>1, <1>2 DEF RemovalIsKnown, AdditionIsUnderWay, PlaceIsOfTheRow, IsAssigning
<1> QED BY <1>4, <1>5, <1>6, <1>7

\* A pass comes to an end, and a run that nobody has joined since it read.
LEMMA SyncEnds ==
  ASSUME IntakeIInv,
         \/ SyncEndsPass /\ ~Throws
         \/ SyncCompletes /\ ~sync.joined
  PROVE  IntakeIInv'
<1> USE DEF IntakeIInv, Follows
<1>1. /\ UNCHANGED <<mode, remote, row, snapshot, mail, pass, item, assigning, upsets>>
      /\ sync \in Sync
  BY DEF SyncEndsPass, SyncCompletes, syncOnly, stored, place, IntakeTypeOK
<1>2. CASE SyncEndsPass /\ ~Throws
  <2>1. /\ sync.pc \in {"confirm", "passed"} /\ sync' = [sync EXCEPT !.pc = "assign"]
        /\ UNCHANGED wish
    BY <1>2 DEF SyncEndsPass, SyncGoes
  <2>2. /\ sync' \in Sync /\ sync'.pc = "assign"
        /\ sync'.fetched = sync.fetched /\ sync'.ask = sync.ask /\ sync'.joined = sync.joined
    BY <1>1, <2>1 DEF Sync
  <2>3. IntakeTypeOK'
    BY <1>1, <2>1, <2>2 DEF IntakeTypeOK
  <2>4. NothingIsAhead' /\ SyncGoesWithStep' /\ PassGoesWithStep' /\ PlaceIsOfTheRow'
    BY <1>1, <2>1, <2>2 DEF NothingIsAhead, SyncGoesWithStep, PassGoesWithStep,
       PlaceIsOfTheRow, IsAssigning, Tracked, Published
  <2>5. EventsAreFollowed'
    <3>1. \A rev \in Nat : WillShow(rev) => WillShow(rev)'
      BY <1>1, <2>1, <2>2 DEF WillShow
    <3> QED BY <1>1, <3>1, EventsStay, Typing DEF Tracked
  <2>6. RemovalIsKnown' /\ AdditionIsUnderWay'
    BY <1>1, <2>1, <2>2 DEF RemovalIsKnown, AdditionIsUnderWay, PlaceIsOfTheRow, IsAssigning
  <2> QED BY <2>3, <2>4, <2>5, <2>6
<1>3. CASE SyncCompletes /\ ~sync.joined
  <2>1. /\ sync.pc = "complete" /\ ~sync.joined
        /\ sync' = NoSync
        /\ wish' = IF wish = "in" /\ item.state = "active" THEN "none" ELSE wish
    BY <1>3 DEF SyncCompletes
  <2>2. /\ sync' \in Sync /\ sync'.pc = "idle" /\ sync'.fetched = None /\ sync'.ask = "none"
    BY <2>1 DEF NoSync, Sync, Maybe
  <2>3. wish' \in {"none", "in", "out"}
    BY <2>1 DEF IntakeTypeOK
  <2>4. IntakeTypeOK'
    BY <1>1, <2>2, <2>3 DEF IntakeTypeOK
  <2>5. NothingIsAhead' /\ SyncGoesWithStep' /\ PassGoesWithStep' /\ PlaceIsOfTheRow'
    BY <1>1, <2>1, <2>2 DEF NothingIsAhead, SyncGoesWithStep, PassGoesWithStep,
       PlaceIsOfTheRow, IsAssigning, Tracked, Published
  <2>6. EventsAreFollowed'
    <3>1. \A rev \in Nat : WillShow(rev) => WillShow(rev)'
      BY <1>1, <2>1, Typing DEF WillShow, SyncGoesWithStep, Published
    <3> QED BY <1>1, <3>1, EventsStay, Typing DEF Tracked
  <2>7. RemovalIsKnown' /\ AdditionIsUnderWay'
    BY <1>1, <2>1, <2>2 DEF RemovalIsKnown, AdditionIsUnderWay
  <2> QED BY <2>4, <2>5, <2>6, <2>7
<1> QED BY <1>2, <1>3

\* All other steps throw.
LEMMA SyncThrows ==
  ASSUME IntakeIInv,
         \/ SyncReuses /\ RowRev # sync.fetched.rev
         \/ SyncPublishes /\ RowRev \notin {sync.observed, sync.fetched.rev}
         \/ SyncEndsPass /\ Throws
         \/ SyncCompletes /\ sync.joined
         \/ SyncFails
  PROVE  IntakeIInv'
<1>1. /\ Throws /\ sync.pc # "idle"
      /\ UNCHANGED <<mode, remote, row, snapshot, mail, item, assigning, pass>>
  BY DEF SyncReuses, SyncPublishes, SyncEndsPass, SyncCompletes, SyncFails, syncOnly, stored,
     place
<1>2. ~IsAssigning("sync")
  BY DEF SyncReuses, SyncPublishes, SyncEndsPass, SyncCompletes, SyncFails, IntakeIInv,
     Follows, PlaceIsOfTheRow
<1>3. upsets' \in 0..MaxUpsets
  BY PullRequestIntakeAssumption DEF SyncReuses, SyncPublishes, SyncEndsPass, SyncCompletes,
     SyncFails, syncOnly, Upset, IntakeIInv, IntakeTypeOK
<1>4. sync' \in Sync /\ wish' \in {"none", "in", "out"} /\ Follows'
  BY <1>1, <1>2, ThrowsKeep
<1>5. IntakeTypeOK'
  BY <1>1, <1>3, <1>4 DEF IntakeIInv, IntakeTypeOK
<1> QED BY <1>4, <1>5 DEF IntakeIInv

-----------------------------------------------------------------------------
(* The transaction of the queue, and the passes of an open page.           *)

\* What is written has been decided on the item as it was read.
LEMMA AssignWritesInv ==
  ASSUME IntakeIInv, AssignWrites
  PROVE  IntakeIInv'
<1> USE DEF IntakeIInv, Follows
<1>1. /\ UNCHANGED <<mode, remote, row, snapshot, mail, wish, upsets>>
      /\ assigning # None /\ assigning' = None
      /\ item' = IF ShouldActivate(assigning.seen, assigning.rev, assigning.explicit)
                   THEN [state |-> "active", rev |-> 0] ELSE item
  BY DEF AssignWrites, stored
<1>2. /\ Tracked /\ assigning.by \in {"sync", "pass"}
      /\ item' \in Item
  <2>1. assigning.by \in {"sync", "pass"}
    BY <1>1 DEF IntakeTypeOK
  <2>2. Tracked
    BY <1>1, <2>1 DEF PlaceIsOfTheRow, IsAssigning, SyncGoesWithStep, PassGoesWithStep,
       Published
  <2> QED BY <1>1, <2>1, <2>2 DEF IntakeTypeOK, Item
<1>3. ASSUME wish = "out" PROVE item' = item
  BY <1>1, <1>3 DEF RemovalIsKnown, ShouldActivate
<1>4. \/ /\ assigning.by = "sync" /\ sync.pc = "assign" /\ UNCHANGED pass
         /\ sync' = [sync EXCEPT !.pc = "complete"]
      \/ /\ assigning.by = "pass" /\ pass' = NoPass /\ UNCHANGED sync
  BY <1>1, <1>2 DEF AssignWrites, PlaceIsOfTheRow, IsAssigning
<1>5. /\ sync' \in Sync /\ sync'.fetched = sync.fetched /\ sync'.ask = sync.ask
      /\ sync'.joined = sync.joined /\ sync'.failed = sync.failed
      /\ \/ sync'.pc = sync.pc
         \/ sync.pc = "assign" /\ sync'.pc = "complete"
  BY <1>4 DEF IntakeTypeOK, Sync
<1>6. IntakeTypeOK'
  <2>1. pass' \in [pc: {"idle", "read", "write", "request", "intake", "assign"},
                   listed: Maybe, tracked: Maybe]
    BY <1>4 DEF IntakeTypeOK, NoPass, Maybe
  <2> QED BY <1>1, <1>2, <1>5, <2>1 DEF IntakeTypeOK
<1>7. NothingIsAhead' /\ SyncGoesWithStep' /\ PassGoesWithStep' /\ PlaceIsOfTheRow'
  <2>1. PassGoesWithStep'
    BY <1>1, <1>4 DEF PassGoesWithStep, NoPass, Tracked
  <2>2. NothingIsAhead' /\ SyncGoesWithStep'
    BY <1>1, <1>5 DEF NothingIsAhead, SyncGoesWithStep, Tracked, Published
  <2>3. PlaceIsOfTheRow'
    BY <1>1, <1>2 DEF PlaceIsOfTheRow, IsAssigning, Tracked
  <2> QED BY <2>1, <2>2, <2>3
<1>8. EventsAreFollowed'
  <2>1. \A rev \in Nat : WillShow(rev) => WillShow(rev)'
    BY <1>1, <1>5 DEF WillShow
  <2> QED BY <1>1, <2>1, EventsStay, Typing DEF Tracked
<1>9. RemovalIsKnown'
  BY <1>1, <1>3, <1>4, <1>5 DEF RemovalIsKnown, NoPass
<1>10. AdditionIsUnderWay'
  <2>1. ASSUME wish = "in", item'.state # "active"
        PROVE  item' = item /\ ~assigning.explicit
    BY <1>1, <2>1 DEF ShouldActivate
  <2>2. assigning.by = "sync" => IsAssigning("sync")
    BY <1>1 DEF IsAssigning
  <2> QED BY <1>1, <1>4, <1>5, <2>1, <2>2 DEF AdditionIsUnderWay, IsAssigning
<1> QED BY <1>6, <1>7, <1>8, <1>9, <1>10

\* A pass that reads, gives up, or opens its assignment.
LEMMA PassReadsInv ==
  ASSUME IntakeIInv,
         RefreshLists \/ RefreshFetches \/ IntakeLists \/ IntakeReads \/ IntakeAssigns
           \/ PassFails
  PROVE  IntakeIInv'
<1> USE DEF IntakeIInv, Follows
<1>1. /\ UNCHANGED <<mode, remote, row, snapshot, mail, sync, item, wish>>
      /\ upsets' \in 0..MaxUpsets
  <2>1. UNCHANGED <<mode, remote, row, snapshot, mail, sync, item, wish>>
    BY DEF RefreshLists, RefreshFetches, IntakeLists, IntakeReads, IntakeAssigns, PassFails,
       passOnly, stored, place
  <2>2. UNCHANGED upsets \/ Upset
    BY DEF RefreshLists, RefreshFetches, IntakeLists, IntakeReads, IntakeAssigns, PassFails,
       passOnly
  <2> QED BY <2>1, <2>2, PullRequestIntakeAssumption DEF Upset, IntakeTypeOK
<1>2. remote \in PullRequest /\ remote # None /\ remote \in Maybe /\ None \in Maybe
      /\ row \in Maybe
  BY Typing, PullRequestIntakeAssumption DEF PullRequest, Rev, Maybe, IntakeTypeOK
<1>3. /\ pass' \in [pc: {"idle", "read", "write", "request", "intake", "assign"},
                    listed: Maybe, tracked: Maybe]
      /\ PassGoesWithStep'
      /\ pass'.listed \in {None, remote, pass.listed}
      /\ IsAssigning("pass") => UNCHANGED pass
  <2> USE DEF NoPass, PassGoesWithStep, Tracked, PlaceIsOfTheRow, IntakeTypeOK
  <2>1. CASE RefreshLists
    BY <1>1, <1>2, <2>1 DEF RefreshLists
  <2>2. CASE RefreshFetches
    BY <1>1, <1>2, <2>2 DEF RefreshFetches
  <2>3. CASE IntakeLists
    BY <1>1, <1>2, <2>3 DEF IntakeLists
  <2>4. CASE IntakeReads
    BY <1>1, <1>2, <2>4 DEF IntakeReads
  <2>5. CASE IntakeAssigns
    BY <1>1, <1>2, <2>5 DEF IntakeAssigns
  <2>6. CASE PassFails
    BY <1>1, <1>2, <2>6 DEF PassFails
  <2> QED BY <2>1, <2>2, <2>3, <2>4, <2>5, <2>6
<1>4. \/ UNCHANGED assigning
      \/ /\ assigning = None /\ pass.pc = "assign" /\ UNCHANGED pass
         /\ pass.listed \in PullRequest /\ pass.listed # None
         /\ assigning' = [by |-> "pass", seen |-> item, rev |-> pass.listed.rev,
                          explicit |-> FALSE]
  BY Typing DEF RefreshLists, RefreshFetches, IntakeLists, IntakeReads, IntakeAssigns,
     PassFails, AssignReads, place, PassGoesWithStep
<1>5. IntakeTypeOK'
  <2>1. item \in Item /\ (pass.listed \in PullRequest => pass.listed.rev \in Rev)
    BY DEF IntakeTypeOK, PullRequest
  <2>2. ASSUME assigning' # assigning
        PROVE  assigning' \in [by: {"sync", "pass"}, seen: Item, rev: Rev, explicit: BOOLEAN]
    <3>1. pass.listed.rev \in Rev
      BY <1>4, <2>1, <2>2
    <3>2. assigning' = [by |-> "pass", seen |-> item, rev |-> pass.listed.rev,
                        explicit |-> FALSE]
      BY <1>4, <2>2
    <3> QED BY <2>1, <3>1, <3>2
  <2> QED BY <1>1, <1>3, <2>2 DEF IntakeTypeOK
<1>6. NothingIsAhead' /\ SyncGoesWithStep' /\ PlaceIsOfTheRow'
  BY <1>1, <1>3, <1>4 DEF NothingIsAhead, SyncGoesWithStep, PlaceIsOfTheRow, IsAssigning,
     Tracked
<1>7. EventsAreFollowed'
  BY <1>1, EventsUntouched DEF Tracked
<1>8. RemovalIsKnown'
  BY <1>1, <1>2, <1>3, <1>4 DEF RemovalIsKnown
<1>9. AdditionIsUnderWay'
  BY <1>1, <1>4 DEF AdditionIsUnderWay, IsAssigning
<1> QED BY <1>3, <1>5, <1>6, <1>7, <1>8, <1>9

\* A refresh writes the row, and then asks.
LEMMA PassWritesInv ==
  ASSUME IntakeIInv, RefreshWrites \/ PassRequests
  PROVE  IntakeIInv'
<1> USE DEF IntakeIInv, Follows
<1>1. UNCHANGED <<mode, remote, snapshot, mail, item, assigning, upsets>>
  BY DEF RefreshWrites, PassRequests, passOnly
<1>2. CASE RefreshWrites
  <2>1. /\ pass.pc = "write" /\ UNCHANGED <<sync, wish>>
        /\ row' \in {row, pass.listed}
        /\ pass' \in {NoPass, [NoPass EXCEPT !.pc = "request"]}
    BY <1>2 DEF RefreshWrites
  <2>2. /\ row \in PullRequest /\ pass.listed \in PullRequest /\ Tracked /\ Tracked'
        /\ pass'.listed = None /\ pass'.pc \in {"idle", "request"}
    BY <2>1, Typing DEF PassGoesWithStep, NoPass, Tracked
  <2>3. IntakeTypeOK'
    <3>1. /\ row' \in Maybe
          /\ pass' \in [pc: {"idle", "read", "write", "request", "intake", "assign"},
                        listed: Maybe, tracked: Maybe]
      BY <2>1, <2>2 DEF NoPass, Maybe
    <3> QED BY <1>1, <2>1, <3>1 DEF IntakeTypeOK
  <2>4. NothingIsAhead' /\ SyncGoesWithStep' /\ PassGoesWithStep' /\ PlaceIsOfTheRow'
    BY <1>1, <2>1, <2>2 DEF NothingIsAhead, SyncGoesWithStep, PassGoesWithStep,
       PlaceIsOfTheRow, IsAssigning
  <2>5. EventsAreFollowed'
    BY <1>1, <2>1, <2>2, EventsUntouched
  <2>6. RemovalIsKnown' /\ AdditionIsUnderWay'
    BY <1>1, <2>1, <2>2 DEF RemovalIsKnown, AdditionIsUnderWay, IsAssigning
  <2> QED BY <2>3, <2>4, <2>5, <2>6
<1>3. CASE PassRequests
  <2>1. /\ pass.pc = "request" /\ pass' = NoPass /\ Requests(OwnersAsk) /\ UNCHANGED row
    BY <1>3 DEF PassRequests
  <2>2. OwnersAsk \in {"none", "implicit", "explicit"}
    BY DEF OwnersAsk
  <2>3. /\ sync' \in Sync /\ wish' \in {"none", "in", "out"}
        /\ NothingIsAhead' /\ SyncGoesWithStep' /\ PlaceIsOfTheRow'
        /\ RemovalIsKnown' /\ AdditionIsUnderWay'
        /\ \A rev \in Nat : WillShow(rev)'
    BY <1>1, <2>1, <2>2, RequestsKeep
  <2>4. IntakeTypeOK'
    BY <1>1, <2>1, <2>3 DEF IntakeTypeOK, NoPass, Maybe
  <2>5. PassGoesWithStep'
    BY <2>1 DEF PassGoesWithStep, NoPass
  <2>6. EventsAreFollowed'
    BY <1>1, <2>1, <2>3, EventsStay, Typing DEF Tracked
  <2> QED BY <2>3, <2>4, <2>5, <2>6
<1> QED BY <1>2, <1>3

\* Every step, and stuttering.
LEMMA IntakeNextInv == IntakeIInv /\ [IntakeNext]_intakeVars => IntakeIInv'
<1> SUFFICES ASSUME IntakeIInv, [IntakeNext]_intakeVars PROVE IntakeIInv'
  OBVIOUS
<1>1. ASSUME NEW d \in Mails, MailNext(d) PROVE IntakeIInv'
  BY <1>1, ProviderChangesInv, DeliveryInv, AppliesInv DEF MailNext
<1>2. CASE SyncNext
  <2>1. CASE SyncReuses
    BY <2>1, SyncStores, SyncThrows
  <2>2. CASE SyncPublishes
    BY <2>2, SyncStores, SyncThrows
  <2>3. CASE SyncEndsPass
    BY <2>3, SyncEnds, SyncThrows
  <2>4. CASE SyncCompletes
    BY <2>4, SyncEnds, SyncThrows
  <2> QED BY <1>2, <2>1, <2>2, <2>3, <2>4, SyncAdvances, SyncThrows DEF SyncNext
<1>3. CASE PassSteps \/ PassFails
  BY <1>3, PassReadsInv, PassWritesInv DEF PassSteps
<1>4. CASE UNCHANGED intakeVars
  <2> USE <1>4 DEF intakeVars, IntakeIInv, Follows
  <2>1. IntakeTypeOK' /\ NothingIsAhead' /\ SyncGoesWithStep' /\ PassGoesWithStep'
    BY DEF IntakeTypeOK, NothingIsAhead, SyncGoesWithStep, PassGoesWithStep, Tracked
  <2>2. PlaceIsOfTheRow' /\ RemovalIsKnown' /\ AdditionIsUnderWay'
    BY DEF PlaceIsOfTheRow, RemovalIsKnown, AdditionIsUnderWay, IsAssigning, Tracked
  <2>3. EventsAreFollowed'
    BY EventsUntouched DEF Tracked
  <2> QED BY <2>1, <2>2, <2>3
<1> QED BY <1>1, <1>2, <1>3, <1>4, UserInv, AssignWritesInv DEF IntakeNext

-----------------------------------------------------------------------------
\* The inductive invariant holds, for any number of deliveries, revisions and errors.
THEOREM IntakeInductive == IntakeSpec => []IntakeIInv
BY IntakeInitInv, IntakeNextInv, PTL DEF IntakeSpec

\* Every variable of the intake keeps its type.
THEOREM IntakeTypeCorrect == IntakeSpec => []IntakeTypeOK
BY IntakeInductive, PTL DEF IntakeIInv

\* No accepted event is lost: a delivery that was answered with success has its revision
\* shown, under way, or its failure visible.
THEOREM AcceptedUpdatesAreShown == IntakeSpec => []AcceptedUpdateIsShown
<1>1. ASSUME IntakeIInv PROVE AcceptedUpdateIsShown
  <2>1. ASSUME NEW d \in Mails, mail[d].accepted, mail[d].status # "received",
               mail[d].wanted, mail[d].event = "updated"
        PROVE  WillShow(mail[d].rev)
    BY <1>1, <2>1 DEF IntakeIInv, Follows, EventsAreFollowed
  <2> QED BY <2>1 DEF AcceptedUpdateIsShown, WillShow
<1> QED BY <1>1, IntakeInductive, PTL

\* The queue does what its owner last asked for: a removed pull request stays out until its
\* next revision, an added one is in the queue when its run is over.
THEOREM QueueDoesAsAsked == IntakeSpec => []QueueFollowsTheOwner
<1>1. ASSUME IntakeIInv PROVE QueueFollowsTheOwner
  BY <1>1 DEF IntakeIInv, Follows, RemovalIsKnown, AdditionIsUnderWay, QueueFollowsTheOwner
<1> QED BY <1>1, IntakeInductive, PTL
=============================================================================
