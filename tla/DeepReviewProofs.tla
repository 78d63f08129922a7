-------------------------- MODULE DeepReviewProofs --------------------------
(***************************************************************************)
(* Theorems about DeepReview, for any number of files, lanes, turns, cancel *)
(* requests and faults, and any prices of calls.  The argument: a plan,     *)
(* once read, is that of the items; whoever passes a stage has waited for   *)
(* all of its agents, and an agent that is done has closed its item and its *)
(* child; so that the last sweep finds nothing to sweep, unless the run     *)
(* says why.  What the calls cost is counted, due from an agent, or lost.   *)
(***************************************************************************)
EXTENDS DeepReview, FiniteSetTheorems, TLAPS

\* Without a plan there are no rows; with one, all but the survey's item.
PlanIsWhole ==
  \/ \A a \in Agents : items[a] = "absent" /\ child[a] = "absent"
  \/ /\ \A a \in Agents : child[a] # "absent"
     /\ \A a \in FileAgents : items[a] # "absent"

\* What the workflow body knows of the plan.
PlanRead == main.sealed \/ main.pc \in {"surveyItem", "sealed"}
PlanIsRead ==
  PlanRead =>
    \/ /\ main.files = 0 /\ main.count = 0 /\ ~main.survey
       /\ main.pc # "surveyItem"
       /\ \A a \in Agents : items[a] = "absent"
    \/ /\ main.files \in {NFiles, Survey} /\ main.survey
       /\ main.count = IF main.sealed THEN main.files + 1 ELSE main.files
       /\ \A a \in FileAgents : items[a] # "absent"
       /\ main.files = Survey \/ main.sealed \/ main.pc = "sealed"
            => items[Survey] # "absent"

\* A plan that is about to be committed finds no rows.
PlanIsNew == main.pc = "plan" => \A a \in Agents : items[a] = "absent" /\ child[a] = "absent"

\* The places of the body before the plan is journaled, and behind it.
Planning == {"link", "seal", "plan", "surveyItem", "sealed"}
Reviewing == {"agents", "survey", "dedupe", "dedupeSave", "dedupePersist"}
Closing == {"finalize", "accept"}

StagesAreInOrder ==
  /\ main.pc \in Planning => ~main.sealed
  /\ main.pc \in Reviewing \union Closing => main.sealed
  /\ main.pc \in Planning \union Reviewing => ~main.failure
  /\ main.failure => main.sealed
  /\ main.pc = "survey" => main.survey
  /\ main.pc = "dedupeSave" => dedupe.status = "absent"
  /\ main.pc = "dedupePersist" => dedupe.status = "running"

\* A run that did not fail is behind the reviews of all agents.
Behind ==
  /\ main.sealed /\ ~main.failure /\ main.survey
  /\ main.pc \in {"dedupe", "dedupeSave", "dedupePersist", "finalize", "accept",
                  "fail", "settle"}
StagesAreWaitedFor ==
  /\ main.pc = "survey" => \A a \in FileAgents : agent[a].done
  /\ Behind => \A a \in Agents : agent[a].done

\* An agent works on an item of the plan, and leaves it closed.
AgentsCloseTheirItems ==
  /\ ~main.sealed => \A a \in Agents : agent[a] = Resting
  /\ \A a \in Agents :
       /\ agent[a].done => agent[a].pc = "rest" /\ items[a] \in Done /\ Agrees(a)
       /\ agent[a].pc \in {"call", "count", "close"} => items[a] # "absent"
       /\ agent[a].pc # "close" => agent[a].close = "none"
       /\ agent[a].pc # "count" => agent[a].used = 0
       /\ agent[a].pc = "close" /\ agent[a].close = "none" => items[a] \in Done

\* Before the agents only a cancellation closes items and finalizes.
OnlyCancelsComeEarly ==
  /\ \A c \in Cancellers : cancel[c] \notin {"read", "write"} => parent.cancelledAt
  /\ ~main.sealed =>
       /\ \A a \in Agents : items[a] \in {"absent", "selected", "cancelled"}
       /\ parent.terminalState # "none" => parent.cancelledAt

\* The survey's item was added behind the cancellation that found this state.
SurveyIsLate(state, its) ==
  /\ its[Survey] = "selected" /\ state = "failed" /\ parent.cancelledAt
  /\ \A a \in FileAgents : its[a] \in Failed
  /\ agent[Survey].pc \notin {"call", "count"}
  /\ agent[Survey].close \in {"none", "cancelled"}

\* The state is that of these items.
Tells(state, its) ==
  state \in {"complete", "partial", "failed"} =>
    /\ \A a \in FileAgents : its[a] \in Done
    /\ \/ /\ its[Survey] # "selected"
          /\ state = TerminalState(Restrict(its, Planned))
       \/ SurveyIsLate(state, its)

\* The state that finalize has written is that of the items.
StateTellsCoverage == Tells(parent.terminalState, items)

\* One request at a time holds the tree, and what it has read still holds: the children
\* it closes are live, the items it sweeps are selected, and the state that it commits
\* is that of the items that it leaves.
Locking == {"items", "coverage", "commit"}
RequestsHoldTheTree ==
  /\ \A c, d \in Cancellers : cancel[c] \in Locking /\ cancel[d] \in Locking => c = d
  /\ \A c \in Cancellers :
       /\ cancel[c] = "items" => \A a \in closing.rows : child[a] \in Live
       /\ cancel[c] \in {"coverage", "commit"} =>
            \A a \in closing.rows : items[a] = "selected"
       /\ cancel[c] = "commit" =>
            /\ closing.state \in {"skipped", "complete", "partial", "failed"}
            /\ Tells(closing.state, SweptByCancel)

Coverage ==
  /\ PlanIsWhole /\ PlanIsRead /\ PlanIsNew /\ StagesAreInOrder /\ StagesAreWaitedFor
  /\ AgentsCloseTheirItems /\ LeftoversHaveACause
  /\ OnlyCancelsComeEarly /\ StateTellsCoverage /\ RequestsHoldTheTree

\* The survey does not run in the lanes, unless the plan was read back with its item.
SurveyRests ==
  main.pc = "agents" /\ main.files # Survey => agent[Survey].pc = "rest"

\* What a call has used and nobody has counted yet.
Due(a) == IF agent[a].pc = "count" THEN agent[a].used ELSE 0
DueForDedupe == IF main.pc = "dedupeSave" THEN main.used
                ELSE IF dedupe.status = "running" THEN dedupe.used ELSE 0

\* due[i] is what the agents up to i have yet to count.
IsDue(due) == /\ due[0] = 0
              /\ \A a \in Agents : due[a] = due[a - 1] + Due(a)

\* All that was paid is counted, due or lost by a call, but for what a crash has lost.
PaidIsCounted ==
  \E due \in [0..Survey -> Int] :
    /\ IsDue(due)
    /\ counted + due[Survey] + DueForDedupe + lost <= paid
    /\ faults = 0 => counted + due[Survey] + DueForDedupe + lost = paid

\* One settlement charges what was counted by then.
ChargedOnce ==
  /\ parent.tokens <= paid /\ charged <= paid
  /\ ~parent.settled => charged = 0

\* A run that nothing disturbs goes from stage to stage, once.
Undisturbed == faults = 0 /\ ~CancelBegun
UndisturbedStages ==
  /\ ~killed /\ ~parent.cancelledAt /\ ~main.failure
  /\ main.pc \notin {"fail", "settle"}
  /\ ~PlanRead => Planned = {}
  /\ main.pc = "surveyItem" => items[Survey] = "absent"
  /\ PlanRead => main.files = NFiles
  /\ \A a \in Agents : /\ items[a] # "cancelled"
                       /\ agent[a].close \in {"none", "completed", "failed"}
  /\ main.pc \in Closing \union {"ended"} => dedupe.status = "completed"
  /\ main.pc \notin {"accept", "ended"} =>
       ~parent.settled /\ parent.terminalState = "none"
  /\ main.pc # "ended" => ~parent.result /\ parent.status # "cancelled"
  /\ main.pc \in {"accept", "ended"} =>
       parent.settled /\ charged + lost = paid /\ \A a \in Agents : agent[a].done
  /\ main.pc = "ended" => parent.result /\ parent.status = "completed"

Usage == PaidIsCounted /\ ChargedOnce /\ (Undisturbed => UndisturbedStages)

IInv == TypeOK /\ Coverage /\ SurveyRests /\ Usage

-----------------------------------------------------------------------------
(* Agents, plans and states.                                               *)

\* The survey is an agent behind those of the files.
LEMMA AgentFacts ==
  /\ NFiles \in Nat /\ NFiles >= 1 /\ Survey \in Nat /\ Survey = NFiles + 1
  /\ Survey \in Agents /\ Survey \notin FileAgents /\ NFiles # Survey
  /\ \A a \in FileAgents : a \in Agents
  /\ \A a \in Agents : a = Survey \/ a \in FileAgents
  /\ \E a \in FileAgents : a \in Agents
  /\ Agents = 1..Survey /\ FileAgents = 1..NFiles
BY DeepReviewAssumption DEF Agents, FileAgents, Survey

\* Its size tells a plan.
LEMMA PlannedFacts ==
  /\ (\A a \in Agents : items[a] = "absent") => Planned = {} /\ Cardinality(Planned) = 0
  /\ (\A a \in FileAgents : items[a] # "absent") =>
       /\ Planned # {}
       /\ items[Survey] = "absent" => Planned = FileAgents /\ Cardinality(Planned) = NFiles
       /\ items[Survey] # "absent" => Planned = Agents /\ Cardinality(Planned) = Survey
<1>1. ASSUME NEW n \in Nat PROVE Cardinality(1..n) = n
  BY FS_Interval
<1>2. Cardinality(FileAgents) = NFiles /\ Cardinality(Agents) = Survey
  BY <1>1, AgentFacts
<1>3. ASSUME \A a \in Agents : items[a] = "absent"
      PROVE  Planned = {} /\ Cardinality(Planned) = 0
  BY <1>3, FS_EmptySet DEF Planned
<1>4. ASSUME \A a \in FileAgents : items[a] # "absent"
      PROVE  /\ Planned # {}
             /\ items[Survey] = "absent" => Planned = FileAgents
             /\ items[Survey] # "absent" => Planned = Agents
  BY <1>4, AgentFacts DEF Planned
<1> QED BY <1>2, <1>3, <1>4

\* There are no more planned items than agents.
LEMMA PlannedSize == Cardinality(Planned) \in 0..NFiles + 1
<1>1. IsFiniteSet(Agents) /\ Cardinality(Agents) = NFiles + 1
  BY AgentFacts, FS_Interval
<1>2. Planned \subseteq Agents
  BY DEF Planned
<1>3. Cardinality(Planned) <= Cardinality(Agents) /\ Cardinality(Planned) \in Nat
  BY <1>1, <1>2, FS_Subset, FS_CardinalityType
<1> QED BY <1>1, <1>3, AgentFacts

\* What deepReviewTerminalState says of a coverage.
LEMMA TerminalStateFacts ==
  ASSUME NEW p
  PROVE  /\ TerminalState(p) \in {"skipped", "complete", "partial", "failed"}
         /\ TerminalState(p) = "skipped" <=> DOMAIN p = {}
         /\ TerminalState(p) = "failed" <=>
              DOMAIN p # {} /\ \A a \in DOMAIN p : p[a] \in Failed
<1> DEFINE failed == {a \in DOMAIN p : p[a] \in Failed}
<1>1. TerminalState(p) = CASE DOMAIN p = {} -> "skipped"
                           [] DOMAIN p # {} /\ failed = {} -> "complete"
                           [] failed # {} /\ failed = DOMAIN p -> "failed"
                           [] OTHER -> "partial"
  BY DEF TerminalState
<1>2. failed = DOMAIN p <=> \A a \in DOMAIN p : p[a] \in Failed
  OBVIOUS
<1>3. DOMAIN p = {} => failed = {}
  OBVIOUS
<1> HIDE DEF failed
<1> QED BY <1>1, <1>2, <1>3

\* The same of what is planned of some items.
LEMMA CoverageFacts ==
  ASSUME NEW coverage, NEW planned
  PROVE  LET state == TerminalState(Restrict(coverage, planned)) IN
         /\ state \in {"skipped", "complete", "partial", "failed"}
         /\ state = "skipped" <=> planned = {}
         /\ state = "failed" <=> planned # {} /\ \A a \in planned : coverage[a] \in Failed
<1> DEFINE p == Restrict(coverage, planned)
<1>1. DOMAIN p = planned /\ \A a \in planned : p[a] = coverage[a]
  BY DEF Restrict
<1> HIDE DEF p
<1>2. /\ TerminalState(p) \in {"skipped", "complete", "partial", "failed"}
      /\ TerminalState(p) = "skipped" <=> DOMAIN p = {}
      /\ TerminalState(p) = "failed" <=>
           DOMAIN p # {} /\ \A a \in DOMAIN p : p[a] \in Failed
  BY TerminalStateFacts
<1>3. TerminalState(p) = "failed" <=>
        planned # {} /\ \A a \in planned : coverage[a] \in Failed
  BY <1>1, <1>2
<1>4. /\ TerminalState(p) \in {"skipped", "complete", "partial", "failed"}
      /\ TerminalState(p) = "skipped" <=> planned = {}
  BY <1>1, <1>2
<1> QED BY <1>3, <1>4 DEF p

-----------------------------------------------------------------------------
(* Money.                                                                  *)

\* Max of the community modules, for the two numbers that a settlement compares.
LEMMA MaxOfTwo ==
  ASSUME NEW a \in Nat, NEW b \in Nat
  PROVE  Max({a, b}) = IF a >= b THEN a ELSE b
<1> DEFINE m == IF a >= b THEN a ELSE b
<1>1. m \in {a, b} /\ \A y \in {a, b} : m >= y
  OBVIOUS
<1>2. \A x \in {a, b} : (\A y \in {a, b} : x >= y) => x = m
  OBVIOUS
<1> QED BY <1>1, <1>2 DEF Max

\* Where zero is in a set that is closed under successors, all numbers are.
LEMMA ClosedSets ==
  ASSUME NEW S, 0 \in S, \A n \in Nat : n \in S => n + 1 \in S
  PROVE  \A n \in Nat : n \in S
<1> SUFFICES ASSUME NEW k \in Nat, k \notin S PROVE FALSE
  OBVIOUS
<1> DEFINE Out == {n \in Nat : n \notin S}
<1>1. Out \subseteq Nat /\ Out # {}
  OBVIOUS
<1>2. PICK m \in Out : \A n \in Out : ~(<<n, m>> \in OpToRel(<, Nat))
  BY <1>1, NatLessThanWellFounded, WFMin
<1>3. m \in Nat /\ m # 0 /\ m - 1 \in Nat /\ m - 1 < m /\ (m - 1) + 1 = m
  OBVIOUS
<1>4. m - 1 \notin Out
  <2>1. <<m - 1, m>> \in OpToRel(<, Nat)
    BY <1>3 DEF OpToRel
  <2> QED BY <1>2, <2>1
<1> QED BY <1>3, <1>4

\* What is due is not negative, and nothing if nobody owes.
LEMMA DueFacts ==
  ASSUME TypeOK, NEW due \in [0..Survey -> Int], IsDue(due)
  PROVE  /\ due[Survey] >= 0
         /\ (\A a \in Agents : agent[a].done /\ agent[a].pc = "rest") => due[Survey] = 0
<1>1. \A a \in Agents : Due(a) \in Nat
  BY DEF TypeOK, Agent, Due
<1>2. \A n \in Nat : n + 1 <= Survey => n + 1 \in Agents /\ n \in 0..Survey
  BY AgentFacts
<1>3. due[Survey] >= 0
  <2> DEFINE S == {n \in Nat : n <= Survey => due[n] >= 0}
  <2>1. 0 \in S
    BY DEF IsDue
  <2>2. ASSUME NEW n \in Nat, n \in S PROVE n + 1 \in S
    <3> SUFFICES ASSUME n + 1 <= Survey PROVE due[n + 1] >= 0
      OBVIOUS
    <3>1. due[n] >= 0 /\ due[n] \in Int
      BY <1>2, <2>2, AgentFacts
    <3>2. due[n + 1] = due[(n + 1) - 1] + Due(n + 1) /\ (n + 1) - 1 = n
      BY <1>2 DEF IsDue
    <3>3. Due(n + 1) \in Nat
      BY <1>1, <1>2
    <3> QED BY <3>1, <3>2, <3>3
  <2>3. \A n \in Nat : n \in S
    <3> HIDE DEF S
    <3> QED BY <2>1, <2>2, ClosedSets
  <2> QED BY <2>3, AgentFacts
<1>4. ASSUME \A a \in Agents : agent[a].done /\ agent[a].pc = "rest"
      PROVE  due[Survey] = 0
  <2> DEFINE S == {n \in Nat : n <= Survey => due[n] = 0}
  <2>1. 0 \in S
    BY DEF IsDue
  <2>2. ASSUME NEW n \in Nat, n \in S PROVE n + 1 \in S
    <3> SUFFICES ASSUME n + 1 <= Survey PROVE due[n + 1] = 0
      OBVIOUS
    <3>1. due[n] = 0
      BY <2>2, AgentFacts
    <3>2. due[n + 1] = due[(n + 1) - 1] + Due(n + 1) /\ (n + 1) - 1 = n
      BY <1>2 DEF IsDue
    <3>3. Due(n + 1) = 0
      BY <1>2, <1>4 DEF Due
    <3> QED BY <3>1, <3>2, <3>3
  <2>3. \A n \in Nat : n \in S
    <3> HIDE DEF S
    <3> QED BY <2>1, <2>2, ClosedSets
  <2> QED BY <2>3, AgentFacts
<1> QED BY <1>3, <1>4

\* One agent owes another amount: the sums from it on move by the difference.
LEMMA OneOwesMore ==
  ASSUME TypeOK, NEW due \in [0..Survey -> Int], IsDue(due),
         NEW a \in Agents, NEW d \in Nat,
         Due(a)' = d, \A b \in Agents : b # a => Due(b)' = Due(b)
  PROVE  \E owed \in [0..Survey -> Int] :
           /\ owed[0] = 0
           /\ \A b \in Agents : owed[b] = owed[b - 1] + Due(b)'
           /\ owed[Survey] = due[Survey] + d - Due(a)
<1> DEFINE more == [i \in 0..Survey |-> IF i >= a THEN due[i] + d - Due(a) ELSE due[i]]
<1>1. Survey \in Nat /\ a \in 1..Survey /\ a \in Int
  BY AgentFacts
<1>2. \A b \in Agents : Due(b) \in Nat
  BY DEF TypeOK, Agent, Due
<1>3. Due(a) \in Nat
  BY <1>2
<1>4. more \in [0..Survey -> Int]
  BY <1>1, <1>3
<1>5. more[0] = 0
  BY <1>1 DEF IsDue
<1>6. ASSUME NEW b \in Agents PROVE more[b] = more[b - 1] + Due(b)'
  <2>1. b \in 1..Survey
    BY AgentFacts
  <2>2. b \in 0..Survey /\ b - 1 \in 0..Survey
    BY <1>1, <2>1
  <2>3. due[b] = due[b - 1] + Due(b)
    BY DEF IsDue
  <2>4. due[b] \in Int /\ due[b - 1] \in Int /\ Due(b) \in Nat
    BY <1>2, <2>2
  <2>5. CASE b = a
    <3>1. more[b] = due[b] + d - Due(a) /\ more[b - 1] = due[b - 1]
      BY <1>1, <2>2, <2>5
    <3> QED BY <1>3, <2>3, <2>4, <2>5, <3>1
  <2>6. CASE b # a
    <3>1. Due(b)' = Due(b)
      BY <2>6
    <3>2. b >= a <=> b - 1 >= a
      BY <1>1, <2>1, <2>6
    <3>3. \/ more[b] = due[b] + d - Due(a) /\ more[b - 1] = due[b - 1] + d - Due(a)
          \/ more[b] = due[b] /\ more[b - 1] = due[b - 1]
      BY <2>2, <3>2
    <3> QED BY <1>3, <2>3, <2>4, <3>1, <3>3
  <2> QED BY <2>5, <2>6
<1>7. more[Survey] = due[Survey] + d - Due(a)
  <2>1. Survey \in 0..Survey /\ Survey >= a
    BY <1>1
  <2> QED BY <2>1
<1> HIDE DEF more
<1> QED BY <1>4, <1>5, <1>6, <1>7

\* A step of one agent, of the body or of a request keeps the balance of what is
\* paid and what is counted or due, or a fault has lost some.
LEMMA Balance ==
  ASSUME TypeOK, TypeOK', PaidIsCounted, NEW a \in Agents,
         \A b \in Agents : b # a => Due(b)' = Due(b),
         counted' + Due(a)' + DueForDedupe' + lost' + paid
           <= counted + Due(a) + DueForDedupe + lost + paid',
         faults' = 0 =>
           /\ faults = 0
           /\ counted' + Due(a)' + DueForDedupe' + lost' + paid
                = counted + Due(a) + DueForDedupe + lost + paid'
  PROVE  PaidIsCounted'
<1>1. PICK due : /\ due \in [0..Survey -> Int] /\ IsDue(due)
                 /\ counted + due[Survey] + DueForDedupe + lost <= paid
                 /\ faults = 0 => counted + due[Survey] + DueForDedupe + lost = paid
  BY DEF PaidIsCounted
<1>2. Due(a) \in Nat /\ DueForDedupe \in Nat
  BY DEF TypeOK, Agent, Main, Dedupe, Due, DueForDedupe
<1>3. Due(a)' \in Nat /\ DueForDedupe' \in Nat
  BY DEF TypeOK, Agent, Main, Dedupe, Due, DueForDedupe
<1>4. PICK owed : /\ owed \in [0..Survey -> Int]
                  /\ owed[0] = 0
                  /\ \A b \in Agents : owed[b] = owed[b - 1] + Due(b)'
                  /\ owed[Survey] = due[Survey] + Due(a)' - Due(a)
  <2>1. PICK d \in Nat : Due(a)' = d
    BY <1>3
  <2>2. \E owed \in [0..Survey -> Int] :
          /\ owed[0] = 0
          /\ \A b \in Agents : owed[b] = owed[b - 1] + Due(b)'
          /\ owed[Survey] = due[Survey] + d - Due(a)
    BY <1>1, <2>1, OneOwesMore
  <2> QED BY <2>1, <2>2
<1>5. /\ counted \in Nat /\ counted' \in Nat /\ paid \in Nat /\ paid' \in Nat
      /\ lost \in Nat /\ lost' \in Nat
  BY DEF TypeOK
<1>6. owed[Survey] \in Int /\ due[Survey] \in Int
  BY <1>1, <1>4, AgentFacts
<1>7. owed[Survey] = due[Survey] + Due(a)' - Due(a)
  BY <1>4
<1>8. counted' + owed[Survey] + DueForDedupe' + lost' <= paid'
  <2>1. counted + due[Survey] + DueForDedupe + lost <= paid
    BY <1>1
  <2> QED BY <1>2, <1>3, <1>5, <1>6, <1>7, <2>1
<1>9. faults' = 0 => counted' + owed[Survey] + DueForDedupe' + lost' = paid'
  <2> SUFFICES ASSUME faults' = 0
               PROVE  counted' + owed[Survey] + DueForDedupe' + lost' = paid'
    OBVIOUS
  <2>1. /\ counted + due[Survey] + DueForDedupe + lost = paid
        /\ counted' + Due(a)' + DueForDedupe' + lost' + paid
             = counted + Due(a) + DueForDedupe + lost + paid'
    BY <1>1
  <2>2. counted' + owed[Survey] + DueForDedupe' + lost'
          = counted' + Due(a)' + DueForDedupe' + lost' + (due[Survey] - Due(a))
    BY <1>2, <1>3, <1>5, <1>6, <1>7
  <2> QED BY <1>2, <1>3, <1>5, <1>6, <2>1, <2>2
<1>10. Survey' = Survey /\ Agents' = Agents
  BY DEF Survey, Agents, FileAgents
<1> QED BY <1>4, <1>8, <1>9, <1>10 DEF PaidIsCounted, IsDue

\* What is counted was paid; and so is all that was paid and not lost, if nothing is due.
LEMMA CountedIsPaid ==
  ASSUME TypeOK, PaidIsCounted
  PROVE  /\ counted <= paid
         /\ /\ faults = 0 /\ DueForDedupe = 0
            /\ \A a \in Agents : agent[a].done /\ agent[a].pc = "rest"
            => counted + lost = paid
<1>1. PICK due \in [0..Survey -> Int] :
        /\ IsDue(due)
        /\ counted + due[Survey] + DueForDedupe + lost <= paid
        /\ faults = 0 => counted + due[Survey] + DueForDedupe + lost = paid
  BY DEF PaidIsCounted
<1>2. DueForDedupe \in Nat /\ counted \in Nat /\ paid \in Nat /\ lost \in Nat
  BY DEF TypeOK, Main, Dedupe, DueForDedupe
<1>3. due[Survey] \in Int
  BY AgentFacts
<1>4. /\ due[Survey] >= 0
      /\ (\A a \in Agents : agent[a].done /\ agent[a].pc = "rest") => due[Survey] = 0
  BY <1>1, DueFacts
<1> QED BY <1>1, <1>2, <1>3, <1>4

\* The settlement of a row adds what it shows to the charge, once.
LEMMA SettleFacts ==
  ASSUME TypeOK, Settle(0, parent)
  PROVE  /\ parent' \in Parent /\ charged' \in Nat
         /\ parent'.status = parent.status /\ parent'.cancelledAt = parent.cancelledAt
         /\ parent'.result = parent.result
         /\ parent'.terminalState = parent.terminalState
         /\ parent'.tokens = parent.tokens /\ parent'.settled = TRUE
         /\ charged' = IF parent.settled THEN charged ELSE charged + parent.tokens
<1>1. parent \in Parent /\ parent.tokens \in Nat /\ charged \in Nat
  BY DEF TypeOK, Parent
<1>2. Max({0, parent.tokens}) = parent.tokens
  BY <1>1, MaxOfTwo
<1>3. /\ parent' = IF parent.settled THEN parent
                   ELSE [parent EXCEPT !.tokens = parent.tokens, !.settled = TRUE]
      /\ charged' = IF parent.settled THEN charged ELSE charged + parent.tokens
  BY <1>2 DEF Settle
<1>4. CASE parent.settled
  <2>1. parent' = parent /\ charged' = charged
    BY <1>3, <1>4
  <2>2. parent.settled = TRUE
    BY <1>1, <1>4 DEF Parent
  <2> QED BY <1>1, <1>4, <2>1, <2>2
<1>5. CASE ~parent.settled
  <2>1. parent' = [parent EXCEPT !.tokens = parent.tokens, !.settled = TRUE]
    BY <1>3, <1>5
  <2>2. charged' = charged + parent.tokens /\ charged' \in Nat
    BY <1>1, <1>3, <1>5
  <2> QED BY <1>1, <1>5, <2>1, <2>2 DEF Parent
<1> QED BY <1>4, <1>5

\* The roll-up writes the state, and charges what is counted unless the run is settled.
LEMMA RollUpFacts ==
  ASSUME TypeOK, NEW state \in RunState, RollUp(state)
  PROVE  /\ child' = child /\ counted' = counted
         /\ parent' \in Parent /\ charged' \in Nat
         /\ parent'.terminalState = state
         /\ parent'.status = parent.status /\ parent'.cancelledAt = parent.cancelledAt
         /\ parent'.result = parent.result
         /\ parent'.tokens = counted /\ parent'.settled = TRUE
         /\ charged' = IF parent.settled THEN charged ELSE charged + counted
<1> DEFINE row == [parent EXCEPT !.tokens = counted, !.terminalState = state]
<1>1. counted \in Nat /\ charged \in Nat /\ parent \in Parent
  BY DEF TypeOK
<1>2. Max({counted, counted}) = counted
  BY <1>1, MaxOfTwo
<1>3. Settle(counted, row) /\ child' = child /\ counted' = counted
  BY DEF RollUp
<1>4. /\ row \in Parent /\ row.tokens = counted /\ row.settled = parent.settled
      /\ row.status = parent.status /\ row.cancelledAt = parent.cancelledAt
      /\ row.result = parent.result /\ row.terminalState = state
  BY <1>1 DEF Parent
<1> HIDE DEF row
<1>5. /\ parent' = IF row.settled THEN row
                   ELSE [row EXCEPT !.tokens = counted, !.settled = TRUE]
      /\ charged' = IF row.settled THEN charged ELSE charged + counted
  BY <1>2, <1>3, <1>4 DEF Settle
<1>6. CASE parent.settled
  <2>1. parent' = row /\ charged' = charged
    BY <1>4, <1>5, <1>6
  <2>2. parent.settled = TRUE
    BY <1>1, <1>6 DEF Parent
  <2> QED BY <1>1, <1>3, <1>4, <1>6, <2>1, <2>2
<1>7. CASE ~parent.settled
  <2>1. ~row.settled
    BY <1>4, <1>7
  <2>2. parent' = [row EXCEPT !.tokens = counted, !.settled = TRUE]
    BY <1>5, <2>1
  <2>3. charged' = charged + counted /\ charged' \in Nat
    BY <1>1, <1>5, <2>1
  <2> QED BY <1>1, <1>3, <1>4, <1>7, <2>2, <2>3 DEF Parent
<1> QED BY <1>6, <1>7

\* finalizeDeepReview writes the state of the items that it leaves.
LEMMA FinalizeFacts ==
  ASSUME TypeOK, NEW class \in Failed, FinalizeTree(class)
  PROVE  /\ items' = Swept(class) /\ items' \in [Agents -> ItemState]
         /\ \A a \in Agents : items'[a] = IF items[a] = "selected" THEN class ELSE items[a]
         /\ child' = child /\ counted' = counted
         /\ Planned' = Planned
         /\ parent' \in Parent /\ charged' \in Nat
         /\ parent'.terminalState = TerminalState(Restrict(items, Planned))'
         /\ parent'.terminalState \in {"skipped", "complete", "partial", "failed"}
         /\ parent'.status = parent.status /\ parent'.cancelledAt = parent.cancelledAt
         /\ parent'.result = parent.result
         /\ parent'.tokens = counted /\ parent'.settled = TRUE
         /\ charged' = IF parent.settled THEN charged ELSE charged + counted
<1> DEFINE state == TerminalState(Restrict(Swept(class), Planned))
<1>1. items' = Swept(class) /\ RollUp(state)
  BY DEF FinalizeTree
<1>2. \A a \in Agents : items'[a] = IF items[a] = "selected" THEN class ELSE items[a]
  BY <1>1 DEF Swept
<1>3. items' \in [Agents -> ItemState]
  BY <1>1 DEF TypeOK, Swept, ItemState, Done, Failed
<1>4. Planned' = Planned
  BY <1>2 DEF Planned, Failed, Agents, FileAgents, Survey
<1>5. state = TerminalState(Restrict(items, Planned))'
  BY <1>1, <1>4 DEF TerminalState
<1>6. state \in {"skipped", "complete", "partial", "failed"}
  BY TerminalStateFacts
<1> HIDE DEF state
<1>7. state \in RunState
  BY <1>6 DEF RunState
<1> QED BY <1>1, <1>2, <1>3, <1>4, <1>5, <1>6, <1>7, RollUpFacts

-----------------------------------------------------------------------------
(* Types.                                                                  *)

\* Where a replay goes.
LEMMA ReplayFacts ==
  ASSUME NEW pc
  PROVE  Replayed(pc) \in {"link", "dedupe", "finalize"}
BY DEF Replayed

\* The agents that rest.
LEMMA RestingFacts ==
  /\ Resting \in Agent
  /\ [Resting EXCEPT !.done = TRUE] \in Agent
  /\ [Resting EXCEPT !.pc = "dead"] \in Agent
  /\ \A n \in 0..MAX_TURNS : [Resting EXCEPT !.turn = n] \in Agent
<1>1. Resting \in Agent
  BY DeepReviewAssumption DEF Resting, Agent
<1> QED BY <1>1 DEF Agent

\* The bounds of the faults are kept.
LEMMA FaultFacts ==
  ASSUME TypeOK, Fault \/ LateFault
  PROVE  /\ faults' \in 0..MaxFaults /\ lateFaults' \in 0..MaxLateFaults
         /\ faults' # 0 /\ ~Undisturbed'
BY DeepReviewAssumption DEF TypeOK, Fault, LateFault, Undisturbed

\* What calls may lose is a number.
LEMMA UnreportedFacts ==
  ASSUME TypeOK
  PROVE  \A used \in Unreported : used \in Nat /\ lost + used \in Nat /\ paid + used \in Nat
BY DEF TypeOK, Unreported

\* The dedupe's call moves the body, and is paid or lost.
LEMMA TypeOfDedupe ==
  ASSUME TypeOK, DedupeFindings
  PROVE  main' \in Main /\ paid' \in Nat /\ lost' \in Nat
<1> DEFINE Typed == main' \in Main /\ paid' \in Nat /\ lost' \in Nat
<1>1. main \in Main /\ paid \in Nat /\ lost \in Nat
  BY DEF TypeOK
<1>2. ASSUME NEW pc \in {"finalize", "dedupePersist"}, Goto(pc), UNCHANGED usage
      PROVE  Typed
  BY <1>1, <1>2 DEF Goto, Main, usage
<1>3. ASSUME NEW due \in Nat, NEW more \in Nat, NEW gone \in Nat,
             paid' = paid + more, lost' = lost + gone,
             main' = [main EXCEPT !.pc = "dedupeSave", !.used = due]
      PROVE  Typed
  <2>1. main' \in Main
    BY <1>1, <1>3 DEF Main
  <2>2. paid' \in Nat /\ lost' \in Nat
    BY <1>1, <1>3
  <2> QED BY <2>1, <2>2
<1>4. CASE dedupe.status \in {"completed", "running"}
  BY <1>2, <1>4 DEF DedupeFindings
<1>5. CASE dedupe.status \notin {"completed", "running"}
  <2> DEFINE reports(used) ==
               /\ paid' = paid + used /\ lost' = lost
               /\ main' = [main EXCEPT !.pc = "dedupeSave", !.used = used]
             throws(used) ==
               /\ paid' = paid + used /\ lost' = lost + used
               /\ main' = [main EXCEPT !.pc = "dedupeSave", !.used = 0]
  <2>1. (\E used \in Cost : reports(used)) \/ (\E used \in Unreported : throws(used))
    BY <1>5 DEF DedupeFindings
  <2>2. ASSUME NEW used \in Cost, reports(used) PROVE Typed
    <3>1. used \in Nat /\ lost' = lost + 0
      BY <1>1, <2>2, DeepReviewAssumption
    <3> QED BY <1>3, <2>2, <3>1
  <2>3. ASSUME NEW used \in Unreported, throws(used) PROVE Typed
    <3>1. used \in Nat
      BY UnreportedFacts
    <3> QED BY <1>3, <2>3, <3>1
  <2>4. CASE \E used \in Cost : reports(used)
    <3>1. PICK used \in Cost : reports(used)
      BY <2>4
    <3> QED BY <2>2, <3>1
  <2>5. CASE \E used \in Unreported : throws(used)
    <3>1. PICK used \in Unreported : throws(used)
      BY <2>5
    <3> QED BY <2>3, <3>1
  <2> QED BY <2>1, <2>4, <2>5
<1> QED BY <1>4, <1>5

\* The steps of the body that write its place only.
LEMMA TypeOfBody ==
  ASSUME TypeOK,
         LinkRun \/ StartSurvey \/ SurveyDone \/ SaveDedupe \/ SealThrows \/ DedupeThrows
           \/ FinalizeThrows \/ MainIsStopped \/ DedupeFindings \/ PersistDedupe
  PROVE  TypeOK'
<1> USE DEF TypeOK, Main, tree, money, world, bounds, usage, Goto
<1>1. CASE LinkRun
  BY <1>1 DEF LinkRun
<1>2. CASE StartSurvey
  <2>1. Resting \in Agent
    BY RestingFacts
  <2> QED BY <1>2, <2>1 DEF StartSurvey
<1>3. CASE SurveyDone
  BY <1>3 DEF SurveyDone
<1>4. CASE SaveDedupe
  BY <1>4 DEF SaveDedupe, Dedupe
<1>5. CASE SealThrows
  BY <1>5, FaultFacts DEF SealThrows
<1>6. CASE DedupeThrows
  BY <1>6, FaultFacts DEF DedupeThrows
<1>7. CASE FinalizeThrows
  BY <1>7, FaultFacts DEF FinalizeThrows
<1>8. CASE MainIsStopped
  BY <1>8 DEF MainIsStopped
<1>9. CASE DedupeFindings
  <2>1. main' \in Main /\ paid' \in Nat /\ lost' \in Nat
    <3> HIDE DEF TypeOK, Main
    <3> QED BY <1>9, TypeOfDedupe
  <2> QED BY <1>9, <2>1 DEF DedupeFindings
<1>10. CASE PersistDedupe
  <2>1. counted' \in Nat /\ dedupe' \in Dedupe
    BY <1>10 DEF PersistDedupe, Dedupe
  <2>2. main' \in Main /\ faults' \in 0..MaxFaults /\ lateFaults' \in 0..MaxLateFaults
    BY <1>10, FaultFacts DEF PersistDedupe, ReturnTo
  <2> QED BY <1>10, <2>1, <2>2 DEF PersistDedupe
<1> QED BY <1>1, <1>2, <1>3, <1>4, <1>5, <1>6, <1>7, <1>8, <1>9, <1>10

\* Replays, and what the body writes into the rows.
LEMMA TypeOfPlan ==
  ASSUME TypeOK, PlanIsRead, StagesAreInOrder,
         \/ SealPlan \/ CreatePlan \/ AddSurveyItem \/ ReturnPlan
         \/ MainCrashes \/ SealCrashesLate
  PROVE  TypeOK'
<1> USE DEF TypeOK, tree, money, world, bounds, usage, Goto
<1>1. CASE SealPlan
  <2>1. CASE ReadPlan
    <3>1. Cardinality(Planned) \in 0..NFiles + 1
      BY PlannedSize
    <3>2. Cardinality(Planned) \in 0..NFiles + 2
      BY <3>1, AgentFacts
    <3> DEFINE size == Cardinality(Planned)
               next == IF child[Survey] # "absent" THEN "surveyItem" ELSE "sealed"
    <3>3. /\ size \in 0..NFiles + 1 /\ size \in 0..NFiles + 2
          /\ next \in {"surveyItem", "sealed"}
          /\ main' = [main EXCEPT !.files = size, !.count = size,
                                  !.survey = child[Survey] # "absent", !.pc = next]
      BY <2>1, <3>1, <3>2 DEF ReadPlan
    <3> HIDE DEF size, next
    <3>4. main' \in Main
      BY <3>3 DEF Main
    <3> QED BY <1>1, <2>1, <3>4 DEF SealPlan, ReadPlan
  <2>2. CASE FindNoPlan
    BY <1>1, <2>2 DEF SealPlan, FindNoPlan, Main
  <2> QED BY <1>1, <2>1, <2>2 DEF SealPlan
<1>2. CASE AddSurveyItem
  <2>1. items' \in [Agents -> ItemState]
    BY <1>2 DEF AddSurveyItem, ItemState
  <2> QED BY <1>2, <2>1 DEF AddSurveyItem, Main
<1>3. CASE ReturnPlan
  <2> DEFINE size == main.count + IF main.survey THEN 1 ELSE 0
             next == IF main.files = 0 /\ ~main.survey THEN "finalize" ELSE "agents"
  <2>1. /\ main' = [main EXCEPT !.sealed = TRUE, !.count = size, !.pc = next]
        /\ next \in {"finalize", "agents"}
    BY <1>3 DEF ReturnPlan
  <2>2. ~main.sealed /\ main.count \in {0, NFiles, Survey}
    BY <1>3 DEF ReturnPlan, PlanIsRead, PlanRead, StagesAreInOrder, Planning
  <2>3. size \in 0..NFiles + 2
    BY <2>2, AgentFacts
  <2> HIDE DEF size, next
  <2>4. main' \in Main
    BY <2>1, <2>3 DEF Main
  <2> QED BY <1>3, <2>4 DEF ReturnPlan
<1>4. ASSUME NEW pcs, Crashes(pcs) PROVE main' \in Main
  <2>1. 0 \in 0..NFiles + 1 /\ 0 \in 0..NFiles + 2
    BY AgentFacts
  <2>2. CASE main.sealed
    BY <1>4, <2>2, ReplayFacts DEF Crashes, Main
  <2>3. CASE ~main.sealed
    BY <1>4, <2>1, <2>3 DEF Crashes, Main
  <2> QED BY <2>2, <2>3
<1>5. CASE MainCrashes
  BY <1>4, <1>5, FaultFacts DEF MainCrashes
<1>6. CASE SealCrashesLate
  BY <1>4, <1>6, FaultFacts DEF SealCrashesLate
<1>7. CASE CreatePlan
  <2>1. main' \in Main
    <3>1. NFiles \in 0..NFiles + 1 /\ NFiles \in 0..NFiles + 2
      BY AgentFacts
    <3> QED BY <1>7, <3>1 DEF CreatePlan, Main
  <2>2. parent' \in Parent
    BY <1>7 DEF CreatePlan, Parent, JobStatus, Live, RunState
  <2>3. /\ items' \in [Agents -> ItemState]
        /\ child' \in [Agents -> {"absent"} \union JobStatus]
    BY <1>7 DEF CreatePlan, ItemState, JobStatus, Live
  <2> QED BY <1>7, <2>1, <2>2, <2>3 DEF CreatePlan
<1> QED BY <1>1, <1>2, <1>3, <1>5, <1>6, <1>7

\* The steps that write the parent's row.
LEMMA TypeOfParent ==
  ASSUME TypeOK,
         \/ FinalizeRun \/ AcceptRun \/ FailRun \/ SettleFailedRun
         \/ \E c \in Cancellers : CancelNext(c)
  PROVE  TypeOK'
<1> USE DEF tree, money, run, world, bounds, usage
<1>1. /\ parent \in Parent /\ items \in [Agents -> ItemState]
      /\ child \in [Agents -> {"absent"} \union JobStatus]
      /\ main \in Main /\ cancel \in [Cancellers -> CancelPc]
      /\ closing \in Held /\ closing.rows \subseteq Agents /\ closing.state \in RunState
  BY DEF TypeOK, Held
<1>2. ASSUME NEW pc \in {"accept", "fail", "settle", "ended", "finalize", "link"}, Goto(pc)
      PROVE  main' \in Main
  BY <1>1, <1>2 DEF Goto, Main
<1>3. ASSUME NEW pc \in CancelPc, NEW c \in Cancellers, cancel' = [cancel EXCEPT ![c] = pc]
      PROVE  cancel' \in [Cancellers -> CancelPc]
  BY <1>1, <1>3
<1>4. ASSUME Accept PROVE parent' \in Parent
  BY <1>1, <1>4 DEF Accept, Parent, JobStatus
<1>5. CASE FinalizeRun
  <2>1. CASE PartitionError
    BY <1>2, <1>5, <2>1 DEF FinalizeRun, TypeOK
  <2>2. CASE ~PartitionError
    <3> DEFINE class == IF main.failure THEN "failed" ELSE "swept"
    <3>1. FinalizeTree(class) /\ class \in Failed /\ main' \in Main
      BY <1>2, <1>5, <2>2 DEF FinalizeRun, Failed
    <3> HIDE DEF class
    <3>2. /\ items' \in [Agents -> ItemState] /\ child' = child /\ counted' = counted
          /\ parent' \in Parent /\ charged' \in Nat
      BY <3>1, FinalizeFacts
    <3> QED BY <1>5, <3>1, <3>2 DEF FinalizeRun, TypeOK
  <2> QED BY <2>1, <2>2
<1>6. CASE AcceptRun
  <2>1. main' \in Main /\ faults' \in 0..MaxFaults /\ lateFaults' \in 0..MaxLateFaults
    BY <1>2, <1>6, FaultFacts DEF AcceptRun, ReturnTo, TypeOK
  <2> QED BY <1>4, <1>6, <2>1 DEF AcceptRun, TypeOK
<1>7. CASE FailRun
  <2>1. parent' \in Parent
    BY <1>1, <1>7 DEF FailRun, Parent, JobStatus
  <2>2. main' \in Main
    BY <1>2, <1>7 DEF FailRun
  <2> QED BY <1>7, <2>1, <2>2 DEF FailRun, TypeOK
<1>8. CASE SettleFailedRun
  <2>1. parent' \in Parent /\ charged' \in Nat
    BY <1>8, SettleFacts DEF SettleFailedRun
  <2>2. main' \in Main /\ faults' \in 0..MaxFaults /\ lateFaults' \in 0..MaxLateFaults
    <3>1. CASE Goto("ended") /\ UNCHANGED bounds
      BY <1>2, <3>1 DEF TypeOK
    <3>2. CASE Goto(Replayed("settle")) /\ Fault
      <4>1. Replayed("settle") \in {"link", "dedupe", "finalize"}
        BY ReplayFacts
      <4>2. main' \in Main
        BY <1>1, <3>2, <4>1 DEF Goto, Main
      <4> QED BY <3>2, <4>2, FaultFacts
    <3> QED BY <1>8, <3>1, <3>2 DEF SettleFailedRun, ReturnTo
  <2> QED BY <1>8, <2>1, <2>2 DEF SettleFailedRun, TypeOK
<1>9. ASSUME NEW c \in Cancellers, CancelKills(c) PROVE TypeOK'
  BY <1>3, <1>9 DEF CancelKills, TypeOK, CancelPc
<1>10. ASSUME NEW c \in Cancellers, CancelWrites(c) PROVE TypeOK'
  <2>1. parent' \in Parent
    BY <1>1, <1>10 DEF CancelWrites, Parent, JobStatus
  <2> QED BY <1>3, <1>10, <2>1 DEF CancelWrites, TypeOK, CancelPc
<1>11. Unlocked \in Held
  BY DEF Unlocked, Held, RunState
<1>12. ASSUME NEW c \in Cancellers, CancelClosesTree(c) PROVE TypeOK'
  <2>1. closing' \in Held
    BY <1>1, <1>12 DEF CancelClosesTree, Held
  <2> QED BY <1>3, <1>12, <2>1 DEF CancelClosesTree, TypeOK, CancelPc
<1>13. ASSUME NEW c \in Cancellers, CancelClosesItems(c) PROVE TypeOK'
  <2>1. /\ items' \in [Agents -> ItemState]
        /\ child' \in [Agents -> {"absent"} \union JobStatus]
    BY <1>1, <1>13 DEF CancelClosesItems, ItemState, JobStatus, Done, Failed
  <2> QED BY <1>3, <1>11, <1>13, <2>1 DEF CancelClosesItems, TypeOK, CancelPc
<1>14. ASSUME NEW c \in Cancellers, CancelSweeps(c) PROVE TypeOK'
  <2>1. closing' \in Held
    BY <1>1, <1>14 DEF CancelSweeps, Held
  <2> QED BY <1>3, <1>14, <2>1 DEF CancelSweeps, TypeOK, CancelPc
<1>15. ASSUME NEW c \in Cancellers, CancelReadsCoverage(c) PROVE TypeOK'
  <2>1. TerminalState(Restrict(SweptByCancel, Planned)) \in RunState
    BY TerminalStateFacts DEF RunState
  <2>2. closing' \in Held
    BY <1>1, <1>11, <1>15, <2>1 DEF CancelReadsCoverage, Held
  <2>3. cancel' \in [Cancellers -> CancelPc]
    BY <1>1, <1>15 DEF CancelReadsCoverage, CancelPc
  <2> QED BY <1>15, <2>2, <2>3 DEF CancelReadsCoverage, TypeOK
<1>16. ASSUME NEW c \in Cancellers, CancelFinalizes(c) PROVE TypeOK'
  <2>1. items' \in [Agents -> ItemState]
    BY <1>1, <1>16 DEF CancelFinalizes, SweptByCancel, ItemState, Done, Failed
  <2>2. child' = child /\ counted' = counted /\ parent' \in Parent /\ charged' \in Nat
    BY <1>1, <1>16, RollUpFacts DEF CancelFinalizes
  <2> QED BY <1>3, <1>11, <1>16, <2>1, <2>2 DEF CancelFinalizes, TypeOK, CancelPc
<1>17. ASSUME NEW c \in Cancellers, CancelAccepts(c) PROVE TypeOK'
  BY <1>3, <1>4, <1>17 DEF CancelAccepts, TypeOK, CancelPc
<1>18. ASSUME NEW c \in Cancellers, CancelSettles(c) PROVE TypeOK'
  <2>1. parent' \in Parent /\ charged' \in Nat
    BY <1>18, SettleFacts DEF CancelSettles
  <2> QED BY <1>3, <1>18, <2>1 DEF CancelSettles, TypeOK, CancelPc
<1> QED BY <1>5, <1>6, <1>7, <1>8, <1>9, <1>10, <1>12, <1>13, <1>14, <1>15, <1>16, <1>17,
           <1>18 DEF CancelNext

\* The turns of an agent.
LEMMA TypeOfTurns ==
  ASSUME TypeOK, AgentsCloseTheirItems, NEW a \in Agents, TurnNext(a) \/ TurnFaults(a)
  PROVE  TypeOK'
<1> USE DEF tree, money, run, world, bounds, usage
<1>1. /\ agent \in [Agents -> Agent] /\ agent[a] \in Agent
      /\ items \in [Agents -> ItemState] /\ child \in [Agents -> {"absent"} \union JobStatus]
  BY DEF TypeOK
<1>2. ASSUME NEW ag \in Agent, agent' = [agent EXCEPT ![a] = ag]
      PROVE  agent' \in [Agents -> Agent]
  BY <1>1, <1>2
<1>3. ASSUME NEW job \in JobStatus, child' = [child EXCEPT ![a] = job]
      PROVE  child' \in [Agents -> {"absent"} \union JobStatus]
  BY <1>1, <1>3
<1>4. \A used \in Cost : used \in Nat
  BY DeepReviewAssumption
<1>5. \A state : ChildStatus(state) \in JobStatus
  BY DEF ChildStatus, JobStatus
<1>6. ASSUME Restart(a)
      PROVE  /\ agent' \in [Agents -> Agent]
             /\ faults' \in 0..MaxFaults /\ lateFaults' \in 0..MaxLateFaults
  <2>1. [Resting EXCEPT !.turn = agent[a].turn] \in Agent
    BY <1>1, RestingFacts DEF Agent
  <2> QED BY <1>2, <1>6, <2>1, FaultFacts DEF Restart
<1>7. ASSUME CloseReturns(a)
      PROVE  /\ agent' \in [Agents -> Agent]
             /\ faults' \in 0..MaxFaults /\ lateFaults' \in 0..MaxLateFaults
  <2>1. [Resting EXCEPT !.done = TRUE] \in Agent
    BY RestingFacts
  <2> QED BY <1>2, <1>6, <1>7, <2>1 DEF CloseReturns, TypeOK
<1>8. CASE TurnReads(a)
  BY <1>1, <1>8 DEF TurnReads, Agent, TypeOK
<1>9. CASE TurnCallsModel(a)
  <2>1. PICK used \in Cost, wasted \in Unreported :
          /\ paid' = paid + used + wasted /\ lost' = lost + wasted
          /\ agent' = [agent EXCEPT ![a].pc = "count", ![a].used = used]
    BY <1>9 DEF TurnCallsModel
  <2>2. agent' \in [Agents -> Agent]
    BY <1>1, <1>4, <2>1 DEF Agent
  <2>3. paid' \in Nat /\ lost' \in Nat
    BY <1>4, <2>1, UnreportedFacts DEF TypeOK
  <2>4. child' \in [Agents -> {"absent"} \union JobStatus]
    BY <1>3, <1>9 DEF TurnCallsModel, JobStatus, Live
  <2> QED BY <1>9, <2>2, <2>3, <2>4 DEF TurnCallsModel, TypeOK
<1>10. CASE TurnFails(a)
  <2>1. child' \in [Agents -> {"absent"} \union JobStatus]
    BY <1>1, <1>3, <1>10 DEF TurnFails, JobStatus, Live
  <2>2. paid' \in Nat /\ lost' \in Nat
    <3>1. PICK used \in Uncounted(a) :
            /\ paid' = IF agent[a].pc = "call" THEN paid + used ELSE paid
            /\ lost' = lost + used
      BY <1>10 DEF TurnFails
    <3>2. used \in Unreported
      BY <3>1 DEF Uncounted
    <3> QED BY <3>1, <3>2, UnreportedFacts DEF TypeOK
  <2>3. agent' \in [Agents -> Agent]
    BY <1>1, <1>10 DEF TurnFails, Agent
  <2> QED BY <1>10, <2>1, <2>2, <2>3 DEF TurnFails, TypeOK
<1>11. CASE TurnCounts(a)
  <2>1. agent' \in [Agents -> Agent]
    <3>1. CASE agent' = [agent EXCEPT ![a] =
                           [[agent[a] EXCEPT !.used = 0] EXCEPT
                              !.pc = "close", !.close = "completed"]]
      <4>1. [agent[a] EXCEPT !.used = 0] \in Agent
        BY <1>1 DEF Agent
      <4> DEFINE ag == [[agent[a] EXCEPT !.used = 0] EXCEPT
                          !.pc = "close", !.close = "completed"]
      <4>2. ag \in Agent
        BY <4>1 DEF Agent
      <4> HIDE DEF ag
      <4> QED BY <1>2, <3>1, <4>2 DEF ag
    <3>2. CASE /\ agent[a].turn + 1 < MAX_TURNS
               /\ agent' = [agent EXCEPT ![a] =
                              [[agent[a] EXCEPT !.used = 0] EXCEPT
                                 !.pc = "rest", !.turn = @ + 1]]
      <4>1. agent[a].turn + 1 \in 0..MAX_TURNS
        BY <1>1, <3>2, DeepReviewAssumption DEF Agent
      <4> QED BY <1>1, <3>2, <4>1 DEF Agent
    <3> QED BY <1>11, <3>1, <3>2 DEF TurnCounts
  <2>2. counted' \in Nat
    BY <1>1, <1>11 DEF TurnCounts, TypeOK, Agent
  <2> QED BY <1>11, <2>1, <2>2 DEF TurnCounts, TypeOK
<1>12. CASE TurnCloses(a)
  <2>1. agent[a].close # "none" \/ items[a] # "selected"
    BY <1>12 DEF TurnCloses, AgentsCloseTheirItems, Done, Failed
  <2>2. items' \in [Agents -> ItemState]
    BY <1>1, <1>12, <2>1 DEF TurnCloses, Agent, ItemState, Done, Failed
  <2>3. child' \in [Agents -> {"absent"} \union JobStatus]
    BY <1>3, <1>5, <1>12 DEF TurnCloses, TypeOK
  <2> QED BY <1>7, <1>12, <2>2, <2>3 DEF TurnCloses, TypeOK
<1>13. CASE TurnCrashes(a)
  BY <1>6, <1>13 DEF TurnCrashes, TypeOK
<1>14. CASE TurnThrows(a)
  <2>1. [Resting EXCEPT !.pc = "dead"] \in Agent
    BY RestingFacts
  <2>2. agent' \in [Agents -> Agent]
    BY <1>2, <1>14, <2>1 DEF TurnThrows
  <2>3. main' \in Main
    BY <1>14 DEF TurnThrows, TypeOK, Main
  <2> QED BY <1>14, <2>2, <2>3, FaultFacts DEF TurnThrows, TypeOK
<1> QED BY <1>8, <1>9, <1>10, <1>11, <1>12, <1>13, <1>14 DEF TurnNext, TurnFaults

-----------------------------------------------------------------------------
(* What steps leave alone.                                                 *)

\* The state of the items is theirs while they stay.
LEMMA ItemsStay ==
  ASSUME items' = items
  PROVE  /\ Planned' = Planned
         /\ TerminalState(Restrict(items, Planned))' = TerminalState(Restrict(items, Planned))
         /\ Agents' = Agents /\ FileAgents' = FileAgents /\ Survey' = Survey
<1>1. Agents' = Agents /\ FileAgents' = FileAgents /\ Survey' = Survey
  BY DEF Agents, FileAgents, Survey
<1>2. Planned' = Planned
  BY <1>1 DEF Planned
<1>3. Restrict(items, Planned)' = Restrict(items, Planned)
  BY <1>2 DEF Restrict
<1> QED BY <1>1, <1>2, <1>3 DEF TerminalState

\* A state that was told of the items is, while they and the survey's agent stay.
SurveyStays ==
  /\ items[Survey] = "selected" /\ parent.cancelledAt
  /\ agent[Survey].pc \notin {"call", "count"}
  /\ agent[Survey].close \in {"none", "cancelled"}
  => /\ agent'[Survey].pc \notin {"call", "count"}
     /\ agent'[Survey].close \in {"none", "cancelled"}

\* What a request has read stays so while it holds the tree: nobody else writes the items
\* that it sweeps, and a child that it closes stays live.
LEMMA HoldStays ==
  ASSUME RequestsHoldTheTree, UNCHANGED <<items, cancel, closing>>,
         parent.cancelledAt => parent'.cancelledAt, SurveyStays,
         \A a \in Agents : child[a] \in Live => child'[a] \in Live,
         closing.rows \subseteq Agents
  PROVE  RequestsHoldTheTree'
<1>1. /\ Planned' = Planned
      /\ Agents' = Agents /\ FileAgents' = FileAgents /\ Survey' = Survey
  BY ItemsStay
<1>2. SweptByCancel' = SweptByCancel
  BY <1>1 DEF SweptByCancel
<1>3. TerminalState(Restrict(SweptByCancel, Planned))'
        = TerminalState(Restrict(SweptByCancel, Planned))
  BY <1>1, <1>2 DEF TerminalState, Restrict
<1>4. SweptByCancel[Survey] = "selected" => items[Survey] = "selected"
  BY AgentFacts DEF SweptByCancel
<1>5. Tells(closing.state, SweptByCancel) => Tells(closing.state, SweptByCancel)'
  BY <1>1, <1>2, <1>3, <1>4 DEF Tells, SurveyIsLate, SurveyStays
<1> QED BY <1>1, <1>5 DEF RequestsHoldTheTree

\* Steps that leave the tree and the agents as they are.
LEMMA TreeStays ==
  ASSUME TypeOK, Coverage, UNCHANGED <<items, child, agent, cancel, closing>>,
         parent'.terminalState = parent.terminalState,
         parent'.cancelledAt = parent.cancelledAt,
         main.sealed => main'.sealed
  PROVE  /\ PlanIsWhole' /\ AgentsCloseTheirItems' /\ LeftoversHaveACause'
         /\ OnlyCancelsComeEarly' /\ StateTellsCoverage' /\ RequestsHoldTheTree'
<1>1. PlanIsWhole' /\ LeftoversHaveACause'
  BY ItemsStay DEF Coverage, PlanIsWhole, LeftoversHaveACause
<1>2. AgentsCloseTheirItems'
  BY ItemsStay DEF Coverage, AgentsCloseTheirItems, Agrees, ChildStatus
<1>3. OnlyCancelsComeEarly'
  BY ItemsStay DEF Coverage, OnlyCancelsComeEarly
<1>4. StateTellsCoverage'
  BY ItemsStay DEF Coverage, StateTellsCoverage, Tells, SurveyIsLate
<1>5. RequestsHoldTheTree'
  BY HoldStays DEF Coverage, SurveyStays, TypeOK, Held
<1> QED BY <1>1, <1>2, <1>3, <1>4, <1>5

\* Steps that leave the body and the items as they are.
LEMMA BodyStays ==
  ASSUME Coverage, UNCHANGED <<main, dedupe, parent, cancel, items>>
  PROVE  /\ PlanIsRead' /\ StagesAreInOrder' /\ LeftoversHaveACause'
         /\ OnlyCancelsComeEarly'
<1>1. PlanIsRead'
  BY ItemsStay DEF Coverage, PlanIsRead, PlanRead
<1>2. StagesAreInOrder'
  BY DEF Coverage, StagesAreInOrder
<1>3. LeftoversHaveACause' /\ OnlyCancelsComeEarly'
  BY ItemsStay DEF Coverage, LeftoversHaveACause, OnlyCancelsComeEarly
<1> QED BY <1>1, <1>2, <1>3

\* Nobody holds the tree: there is nothing to keep.
LEMMA NobodyHolds ==
  ASSUME ~TreeLocked, cancel' = cancel
  PROVE  RequestsHoldTheTree'
BY DEF TreeLocked, RequestsHoldTheTree, Locking

\* Steps of a request leave the body and its agents alone.
LEMMA RequestsLeaveTheBody ==
  ASSUME Coverage, UNCHANGED <<main, dedupe, agent>>
  PROVE  StagesAreInOrder' /\ StagesAreWaitedFor'
BY DEF Coverage, StagesAreInOrder, StagesAreWaitedFor, Behind, Agents, FileAgents, Survey

-----------------------------------------------------------------------------
(* Coverage: the body.                                                     *)

\* Steps that move the body from place to place.
LEMMA CoverageOfBody ==
  ASSUME TypeOK, Coverage,
         \/ LinkRun \/ ReturnPlan \/ SurveyDone \/ DedupeFindings \/ SaveDedupe
         \/ PersistDedupe \/ SealThrows \/ DedupeThrows \/ FinalizeThrows \/ MainCrashes
         \/ SealCrashesLate \/ MainIsStopped \/ AcceptRun \/ FailRun \/ SettleFailedRun
         \/ FinalizeRun /\ PartitionError
  PROVE  Coverage'
<1> USE DEF tree, money, world, Goto
<1>1. /\ UNCHANGED <<items, child, agent, cancel, closing>>
      /\ parent'.terminalState = parent.terminalState
      /\ parent'.cancelledAt = parent.cancelledAt
  <2>1. CASE AcceptRun
    BY <2>1 DEF AcceptRun, Accept, TypeOK, Parent
  <2>2. CASE FailRun
    BY <2>2 DEF FailRun, TypeOK, Parent
  <2>3. CASE SettleFailedRun
    BY <2>3, SettleFacts DEF SettleFailedRun
  <2>4. CASE LinkRun \/ ReturnPlan \/ SurveyDone \/ SaveDedupe
    BY <2>4 DEF LinkRun, ReturnPlan, SurveyDone, SaveDedupe
  <2>7. CASE DedupeFindings
    BY <2>7 DEF DedupeFindings
  <2>5. CASE PersistDedupe \/ SealThrows \/ DedupeThrows \/ FinalizeThrows
    BY <2>5 DEF PersistDedupe, SealThrows, DedupeThrows, FinalizeThrows
  <2>6. CASE \/ MainCrashes \/ SealCrashesLate \/ MainIsStopped
             \/ FinalizeRun /\ PartitionError
    BY <2>6 DEF MainCrashes, SealCrashesLate, MainIsStopped, FinalizeRun
  <2> QED BY <2>1, <2>2, <2>3, <2>4, <2>5, <2>6, <2>7
<1> DEFINE Stages == /\ main.sealed => main'.sealed
                     /\ PlanIsRead' /\ PlanIsNew'
                     /\ StagesAreInOrder' /\ StagesAreWaitedFor'
<1>2. SUFFICES Stages
  BY <1>1, TreeStays DEF Coverage
<1>3. main \in Main /\ Agents' = Agents /\ FileAgents' = FileAgents /\ Survey' = Survey
  BY DEF TypeOK, Agents, FileAgents, Survey
<1> USE DEF Coverage, PlanIsRead, PlanIsNew, PlanRead, StagesAreInOrder, StagesAreWaitedFor, Behind,
            Planning, Reviewing, Closing, Main
<1>4. CASE LinkRun
  BY <1>1, <1>3, <1>4 DEF LinkRun
<1>5. CASE ReturnPlan
  BY <1>1, <1>3, <1>5, AgentFacts DEF ReturnPlan
<1>6. CASE SurveyDone
  BY <1>1, <1>3, <1>6, AgentFacts DEF SurveyDone
<1>7. CASE DedupeFindings
  <2>1. main.pc = "dedupe" /\ main.sealed' = main.sealed /\ main.survey' = main.survey
        /\ main.files' = main.files /\ main.count' = main.count
        /\ main.failure' = main.failure /\ dedupe' = dedupe
        /\ \/ main.pc' = "finalize"
           \/ main.pc' = "dedupePersist" /\ dedupe.status = "running"
           \/ main.pc' = "dedupeSave" /\ dedupe.status = "absent"
    <3>1. dedupe \in Dedupe /\ main.pc = "dedupe" /\ dedupe' = dedupe
      BY <1>7 DEF DedupeFindings, TypeOK
    <3>2. CASE dedupe.status \in {"completed", "running"}
      BY <1>3, <1>7, <3>1, <3>2 DEF DedupeFindings
    <3>3. CASE dedupe.status \notin {"completed", "running"}
      <4>1. \E used : main' = [main EXCEPT !.pc = "dedupeSave", !.used = used]
        BY <1>7, <3>3 DEF DedupeFindings
      <4> QED BY <1>3, <3>1, <3>3, <4>1 DEF Dedupe
    <3> QED BY <3>2, <3>3
  <2> QED BY <1>1, <1>3, <2>1
<1>8. CASE SaveDedupe
  BY <1>1, <1>3, <1>8 DEF SaveDedupe
<1>9. CASE PersistDedupe
  BY <1>1, <1>3, <1>9 DEF PersistDedupe, ReturnTo
<1>10. CASE SealThrows
  BY <1>1, <1>3, <1>10 DEF SealThrows
<1>11. CASE DedupeThrows
  BY <1>1, <1>3, <1>11 DEF DedupeThrows
<1>12. CASE FinalizeThrows
  BY <1>1, <1>3, <1>12 DEF FinalizeThrows
<1>13. CASE MainCrashes
  BY <1>1, <1>3, <1>13 DEF MainCrashes, Crashes, Replayed
<1>14. CASE SealCrashesLate
  BY <1>1, <1>3, <1>14 DEF SealCrashesLate, Crashes, Replayed
<1>15. CASE MainIsStopped
  BY <1>1, <1>3, <1>15 DEF MainIsStopped
<1>16. CASE AcceptRun
  BY <1>1, <1>3, <1>16 DEF AcceptRun, ReturnTo
<1>17. CASE FailRun
  BY <1>1, <1>3, <1>17 DEF FailRun
<1>18. CASE SettleFailedRun
  BY <1>1, <1>3, <1>18 DEF SettleFailedRun, ReturnTo, Replayed
<1>19. CASE FinalizeRun /\ PartitionError
  BY <1>1, <1>3, <1>19 DEF FinalizeRun
<1> QED BY <1>4, <1>5, <1>6, <1>7, <1>8, <1>9, <1>10, <1>11, <1>12, <1>13, <1>14, <1>15,
           <1>16, <1>17, <1>18, <1>19

\* A plan is read back from the rows that there are, or there are none.
LEMMA CoverageOfSealing ==
  ASSUME TypeOK, Coverage, SealPlan
  PROVE  Coverage'
<1> USE DEF tree, money, world
<1>1. Agents' = Agents /\ FileAgents' = FileAgents /\ Survey' = Survey
  BY DEF Agents, FileAgents, Survey
<1>2. /\ main.pc = "seal" /\ ~main.sealed /\ ~main.failure /\ main \in Main
      /\ UNCHANGED <<dedupe, agent, cancel, closing>>
  BY DEF SealPlan, Coverage, StagesAreInOrder, Planning, TypeOK
<1>3. CASE ReadPlan
  <2>1. UNCHANGED <<parent, items, child>>
    BY <1>3 DEF ReadPlan
  <2>2. main'.sealed = main.sealed /\ main'.failure = main.failure
    BY <1>2, <1>3 DEF ReadPlan, Main
  <2>3. /\ PlanIsWhole' /\ AgentsCloseTheirItems' /\ LeftoversHaveACause'
        /\ OnlyCancelsComeEarly' /\ StateTellsCoverage' /\ RequestsHoldTheTree'
    BY <1>2, <2>1, <2>2, TreeStays
  <2>4. /\ main'.files = Cardinality(Planned) /\ main'.count = Cardinality(Planned)
        /\ main'.survey = (child[Survey] # "absent")
        /\ main'.pc = IF child[Survey] # "absent" THEN "surveyItem" ELSE "sealed"
    BY <1>2, <1>3 DEF ReadPlan, Main
  <2>5. PlanIsRead'
    <3>1. CASE \A a \in Agents : items[a] = "absent" /\ child[a] = "absent"
      <4>1. Cardinality(Planned) = 0 /\ child[Survey] = "absent"
        BY <3>1, PlannedFacts, AgentFacts
      <4> QED BY <1>1, <2>1, <2>4, <3>1, <4>1 DEF PlanIsRead
    <3>2. CASE /\ \A a \in Agents : child[a] # "absent"
               /\ \A a \in FileAgents : items[a] # "absent"
      <4>1. /\ child[Survey] # "absent"
            /\ Cardinality(Planned) \in {NFiles, Survey}
            /\ Cardinality(Planned) = Survey => items[Survey] # "absent"
        BY <3>2, PlannedFacts, AgentFacts
      <4> QED BY <1>1, <1>2, <2>1, <2>2, <2>4, <3>2, <4>1 DEF PlanIsRead
    <3> QED BY <3>1, <3>2 DEF Coverage, PlanIsWhole
  <2>6. StagesAreInOrder' /\ StagesAreWaitedFor' /\ PlanIsNew'
    BY <1>1, <1>2, <2>2, <2>4
       DEF StagesAreInOrder, StagesAreWaitedFor, Behind, Planning, Reviewing, Closing,
           PlanIsNew
  <2> QED BY <2>3, <2>5, <2>6 DEF Coverage
<1>4. CASE FindNoPlan
  <2>1. UNCHANGED <<parent, items, child>> /\ main' = [main EXCEPT !.pc = "plan"]
    BY <1>4 DEF FindNoPlan, Goto
  <2>2. /\ main'.sealed = main.sealed /\ main'.failure = main.failure
        /\ main'.pc = "plan"
    BY <1>2, <2>1 DEF Main
  <2>3. /\ PlanIsWhole' /\ AgentsCloseTheirItems' /\ LeftoversHaveACause'
        /\ OnlyCancelsComeEarly' /\ StateTellsCoverage' /\ RequestsHoldTheTree'
    BY <1>2, <2>1, <2>2, TreeStays
  <2>4. PlanIsRead' /\ StagesAreInOrder' /\ StagesAreWaitedFor'
    BY <1>1, <1>2, <2>2
       DEF PlanIsRead, PlanRead, StagesAreInOrder, StagesAreWaitedFor, Behind, Planning,
           Reviewing, Closing
  <2>5. PlanIsNew'
    <3>1. \A a \in Agents : items[a] = "absent"
      BY <1>4 DEF FindNoPlan, AlreadySealed, Planned
    <3>2. \A a \in Agents : child[a] = "absent"
      <4>1. 1 \in FileAgents /\ 1 \in Agents
        BY AgentFacts DEF FileAgents, Agents
      <4> QED BY <3>1, <4>1 DEF Coverage, PlanIsWhole
    <3> QED BY <1>1, <2>1, <3>1, <3>2 DEF PlanIsNew
  <2> QED BY <2>3, <2>4, <2>5 DEF Coverage
<1> QED BY <1>3, <1>4 DEF SealPlan

\* A plan is created where no rows are: a request that holds the tree meanwhile has read
\* none, and closes, sweeps and tells of nothing.
LEMMA CoverageOfCreation ==
  ASSUME TypeOK, Coverage, CreatePlan
  PROVE  Coverage'
<1> USE DEF tree, money, world
<1>1. Agents' = Agents /\ FileAgents' = FileAgents /\ Survey' = Survey
  BY DEF Agents, FileAgents, Survey
<1>2. /\ main.pc = "plan" /\ ~main.sealed /\ ~main.failure /\ main \in Main
      /\ UNCHANGED <<dedupe, agent, cancel, closing>>
      /\ \A a \in Agents : items[a] = "absent" /\ child[a] = "absent"
  BY DEF CreatePlan, Coverage, PlanIsNew, StagesAreInOrder, Planning, TypeOK
<1>3. /\ \A a \in FileAgents : items'[a] = "selected"
      /\ items'[Survey] = "absent" /\ \A a \in Agents : child'[a] = "queued"
  BY AgentFacts DEF CreatePlan
<1>4. parent'.terminalState = "none" /\ parent'.cancelledAt = parent.cancelledAt
  BY DEF CreatePlan, TypeOK, Parent
<1>5. /\ main'.files = NFiles /\ main'.count = NFiles /\ main'.survey = TRUE
      /\ main'.pc = "surveyItem" /\ main'.sealed = main.sealed
      /\ main'.failure = main.failure
  BY <1>2 DEF CreatePlan, Main
<1>6. PlanIsWhole' /\ LeftoversHaveACause'
  BY <1>1, <1>3, AgentFacts DEF PlanIsWhole, LeftoversHaveACause
<1>7. PlanIsRead' /\ PlanIsNew'
  BY <1>1, <1>2, <1>3, <1>5, AgentFacts DEF PlanIsRead, PlanIsNew
<1>8. StagesAreInOrder' /\ StagesAreWaitedFor'
  BY <1>1, <1>2, <1>5
     DEF StagesAreInOrder, StagesAreWaitedFor, Behind, Planning, Reviewing, Closing
<1>9. \A a \in Agents : agent'[a] = Resting
  BY <1>2 DEF Coverage, AgentsCloseTheirItems
<1>10. AgentsCloseTheirItems'
  BY <1>1, <1>9 DEF AgentsCloseTheirItems, Resting
<1>11. OnlyCancelsComeEarly'
  BY <1>1, <1>2, <1>3, <1>4, AgentFacts DEF Coverage, OnlyCancelsComeEarly
<1>12. StateTellsCoverage'
  BY <1>4 DEF StateTellsCoverage, Tells
<1>13. RequestsHoldTheTree'
  <2>1. closing.rows \subseteq Agents
    BY DEF TypeOK, Held
  <2>2. ASSUME NEW c \in Cancellers, cancel[c] \in Locking PROVE closing.rows = {}
    BY <1>2, <2>1, <2>2 DEF Coverage, RequestsHoldTheTree, Locking, Live
  <2>3. ASSUME NEW c \in Cancellers, cancel[c] = "commit" PROVE closing.state = "skipped"
    <3>1. closing.state \in {"skipped", "complete", "partial", "failed"}
          /\ Tells(closing.state, SweptByCancel)
      BY <2>3 DEF Coverage, RequestsHoldTheTree
    <3>2. 1 \in FileAgents /\ 1 \in Agents
      BY AgentFacts DEF FileAgents, Agents
    <3>3. SweptByCancel[1] = "absent"
      BY <1>2, <2>2, <2>3, <3>2 DEF SweptByCancel, Locking
    <3> QED BY <3>1, <3>2, <3>3 DEF Tells, Done, Failed
  <2>4. \A c \in Cancellers : cancel[c] = "commit" =>
          closing'.state = "skipped" /\ Tells(closing.state, SweptByCancel)'
    BY <1>2, <2>3 DEF Tells
  <2> QED BY <1>2, <2>2, <2>4 DEF Coverage, RequestsHoldTheTree, Locking
<1> QED BY <1>6, <1>7, <1>8, <1>10, <1>11, <1>12, <1>13 DEF Coverage

\* A survey item that is added behind a cancellation is late.
LEMMA CoverageOfSurveyItem ==
  ASSUME TypeOK, Coverage, AddSurveyItem
  PROVE  Coverage'
<1> USE DEF tree, money, world, Goto
<1>1. Agents' = Agents /\ FileAgents' = FileAgents /\ Survey' = Survey
  BY DEF Agents, FileAgents, Survey
<1>2. /\ main.pc = "surveyItem" /\ ~main.sealed /\ ~main.failure /\ main \in Main
      /\ UNCHANGED <<parent, child, dedupe, agent, cancel, closing>>
      /\ main' = [main EXCEPT !.pc = "sealed"]
  BY DEF AddSurveyItem, Coverage, StagesAreInOrder, Planning, TypeOK
<1>3. /\ \A a \in FileAgents : items[a] # "absent" /\ items'[a] = items[a]
      /\ items[Survey] # "absent" => items' = items
      /\ items[Survey] = "absent" => items'[Survey] = "selected"
      /\ items'[Survey] # "absent" /\ items \in [Agents -> ItemState]
  BY <1>2, AgentFacts DEF AddSurveyItem, TypeOK, Coverage, PlanIsRead, PlanRead
<1>4. /\ main'.files = main.files /\ main'.count = main.count
      /\ main'.survey = main.survey /\ main'.pc = "sealed"
      /\ main'.sealed = main.sealed /\ main'.failure = main.failure
  BY <1>2 DEF Main
<1>5. PlanIsWhole' /\ LeftoversHaveACause'
  BY <1>1, <1>2, <1>3, AgentFacts DEF Coverage, PlanIsWhole, LeftoversHaveACause
<1>6. PlanIsRead' /\ PlanIsNew'
  BY <1>1, <1>2, <1>3, <1>4 DEF Coverage, PlanIsRead, PlanIsNew, PlanRead
<1>7. StagesAreInOrder' /\ StagesAreWaitedFor'
  BY <1>1, <1>2, <1>4
     DEF StagesAreInOrder, StagesAreWaitedFor, Behind, Planning, Reviewing, Closing
<1>8. \A a \in Agents : agent'[a] = Resting /\ agent[a] = Resting
  BY <1>2 DEF Coverage, AgentsCloseTheirItems
<1>9. AgentsCloseTheirItems'
  BY <1>1, <1>8 DEF AgentsCloseTheirItems, Resting
<1>10. OnlyCancelsComeEarly'
  BY <1>1, <1>2, <1>3, <1>4, AgentFacts DEF Coverage, OnlyCancelsComeEarly
<1>11. Planned # {} /\ parent.cancelledAt' = parent.cancelledAt
  BY <1>2, <1>3, AgentFacts DEF Planned
<1>12. agent'[Survey] = Resting
  BY <1>8, AgentFacts
<1>13. CASE items' = items
  <2>1. StateTellsCoverage'
    BY <1>2, <1>13, ItemsStay DEF Coverage, StateTellsCoverage, Tells, SurveyIsLate
  <2>2. RequestsHoldTheTree'
    BY <1>2, <1>13, HoldStays DEF Coverage, SurveyStays, TypeOK, Held
  <2> QED BY <1>5, <1>6, <1>7, <1>9, <1>10, <2>1, <2>2 DEF Coverage
<1>14. CASE items[Survey] = "absent" /\ items'[Survey] = "selected"
  <2>1. StateTellsCoverage'
    <3> SUFFICES ASSUME parent.terminalState \in {"complete", "partial", "failed"}
                 PROVE  Tells(parent.terminalState, items)'
      BY <1>2 DEF StateTellsCoverage, Tells
    <3>1. parent.cancelledAt
      BY <1>2 DEF Coverage, OnlyCancelsComeEarly
    <3>2. \A a \in FileAgents : items[a] = "cancelled"
      BY <1>2, AgentFacts
         DEF Coverage, OnlyCancelsComeEarly, StateTellsCoverage, Tells, Done, Failed
    <3>3. parent.terminalState = TerminalState(Restrict(items, Planned))
      BY <1>14 DEF Coverage, StateTellsCoverage, Tells, SurveyIsLate
    <3>4. \A a \in Planned : items[a] \in Failed
      BY <1>14, <3>2, AgentFacts DEF Planned, Failed
    <3>5. parent.terminalState = "failed"
      BY <1>11, <3>3, <3>4, CoverageFacts
    <3> QED BY <1>1, <1>2, <1>3, <1>12, <1>14, <3>1, <3>2, <3>5
            DEF Tells, SurveyIsLate, Resting, Failed, Done
  <2>2. RequestsHoldTheTree'
    <3>1. Survey \notin closing.rows \/ \A c \in Cancellers : cancel[c] \notin {"coverage", "commit"}
      BY <1>14 DEF Coverage, RequestsHoldTheTree
    <3>2. ASSUME NEW c \in Cancellers, cancel[c] = "commit"
          PROVE  Tells(closing.state, SweptByCancel)'
      <4>1. Tells(closing.state, SweptByCancel) /\ parent.cancelledAt
        BY <3>2 DEF Coverage, RequestsHoldTheTree, OnlyCancelsComeEarly
      <4>2. /\ SweptByCancel[Survey] = "absent" /\ SweptByCancel'[Survey] = "selected"
            /\ \A a \in FileAgents : SweptByCancel'[a] = SweptByCancel[a]
        BY <1>1, <1>2, <1>3, <1>14, <3>1, <3>2, AgentFacts DEF SweptByCancel
      <4> SUFFICES ASSUME closing.state \in {"complete", "partial", "failed"}
                   PROVE  Tells(closing.state, SweptByCancel)'
        BY <1>2 DEF Tells
      <4>3. \A a \in FileAgents : SweptByCancel[a] = "cancelled"
        <5>1. \A a \in FileAgents : SweptByCancel[a] \in {"absent", "selected", "cancelled"}
          BY <1>2, AgentFacts DEF SweptByCancel, Coverage, OnlyCancelsComeEarly
        <5> QED BY <4>1, <5>1 DEF Tells, Done, Failed
      <4>4. closing.state = TerminalState(Restrict(SweptByCancel, Planned))
        BY <4>1, <4>2 DEF Tells, SurveyIsLate
      <4>5. \A a \in Planned : SweptByCancel[a] \in Failed
        BY <1>14, <4>3, AgentFacts DEF Planned, Failed
      <4>6. closing.state = "failed"
        BY <1>11, <4>4, <4>5, CoverageFacts
      <4> QED BY <1>1, <1>2, <1>12, <4>1, <4>2, <4>3, <4>6
              DEF Tells, SurveyIsLate, Resting, Failed, Done
    <3>3. \A a \in Agents : items[a] = "selected" => items'[a] = "selected"
      BY <1>3, <1>14, AgentFacts
    <3>4. closing.rows \subseteq Agents
      BY DEF TypeOK, Held
    <3> QED BY <1>2, <3>2, <3>3, <3>4 DEF Coverage, RequestsHoldTheTree
  <2> QED BY <1>5, <1>6, <1>7, <1>9, <1>10, <2>1, <2>2 DEF Coverage
<1> QED BY <1>3, <1>13, <1>14

\* The survey starts when the lanes are through.
LEMMA CoverageOfSurvey ==
  ASSUME TypeOK, Coverage, StartSurvey
  PROVE  Coverage'
<1> USE DEF tree, money, world, Goto
<1>1. Agents' = Agents /\ FileAgents' = FileAgents /\ Survey' = Survey
  BY DEF Agents, FileAgents, Survey
<1>2. /\ main.pc = "agents" /\ main.sealed /\ ~main.failure /\ main \in Main
      /\ UNCHANGED <<parent, items, child, dedupe, cancel, closing>>
      /\ agent' = [agent EXCEPT ![Survey] = Resting]
  BY DEF StartSurvey, Coverage, StagesAreInOrder, Reviewing, TypeOK
<1>3. /\ main'.files = main.files /\ main'.count = main.count
      /\ main'.survey = main.survey /\ main'.sealed = main.sealed
      /\ main'.failure = main.failure
      /\ main'.pc = IF main.survey THEN "survey" ELSE "finalize"
  BY <1>2 DEF StartSurvey, Main
<1>4. /\ \A a \in FileAgents : agent'[a] = agent[a]
      /\ agent'[Survey] = Resting
  BY <1>2, AgentFacts DEF TypeOK
<1>5. main.survey => \A a \in FileAgents : agent[a].done
  <2>1. main.survey => main.files \in {NFiles, Survey}
    BY <1>2 DEF Coverage, PlanIsRead, PlanRead
  <2>2. \A a \in FileAgents : a \in 1..NFiles /\ a \in 1..Survey
    BY AgentFacts
  <2>3. \A a \in 1..main.files : agent[a].done
    BY DEF StartSurvey, FilesDone
  <2> QED BY <2>1, <2>2, <2>3
<1>6. PlanIsWhole' /\ LeftoversHaveACause'
  BY <1>1, <1>2 DEF Coverage, PlanIsWhole, LeftoversHaveACause
<1>7. PlanIsRead' /\ PlanIsNew'
  BY <1>1, <1>2, <1>3 DEF Coverage, PlanIsRead, PlanIsNew, PlanRead
<1>8. StagesAreInOrder'
  BY <1>2, <1>3 DEF StagesAreInOrder, Planning, Reviewing, Closing
<1>9. StagesAreWaitedFor'
  BY <1>1, <1>2, <1>3, <1>4, <1>5 DEF StagesAreWaitedFor, Behind
<1>10. AgentsCloseTheirItems'
  <2>1. \A a \in Agents : agent'[a] = agent[a] \/ agent'[a] = Resting
    BY <1>4, AgentFacts
  <2> QED BY <1>1, <1>2, <1>3, <2>1
          DEF Coverage, AgentsCloseTheirItems, Resting, Agrees, ChildStatus
<1>11. OnlyCancelsComeEarly'
  BY <1>1, <1>2, <1>3 DEF Coverage, OnlyCancelsComeEarly
<1>12. StateTellsCoverage'
  BY <1>2, <1>4, ItemsStay DEF Coverage, StateTellsCoverage, Tells, SurveyIsLate, Resting
<1>13. RequestsHoldTheTree'
  BY <1>2, <1>4, HoldStays DEF Coverage, SurveyStays, Resting, TypeOK, Held
<1> QED BY <1>6, <1>7, <1>8, <1>9, <1>10, <1>11, <1>12, <1>13 DEF Coverage

\* Whoever finalizes the tree leaves no item open, and tells its state.
LEMMA CoverageOfFinalize ==
  ASSUME TypeOK, Coverage, NEW class \in Failed, FinalizeTree(class), agent' = agent,
         main'.sealed = main.sealed,
         class = "swept" => \A a \in Agents : items[a] # "selected"
  PROVE  /\ PlanIsWhole' /\ AgentsCloseTheirItems'
         /\ LeftoversHaveACause' /\ StateTellsCoverage'
<1>1. Agents' = Agents /\ FileAgents' = FileAgents /\ Survey' = Survey
  BY DEF Agents, FileAgents, Survey
<1>2. /\ \A a \in Agents : items'[a] = IF items[a] = "selected" THEN class ELSE items[a]
      /\ child' = child /\ items \in [Agents -> ItemState] /\ Planned' = Planned
      /\ parent'.terminalState = TerminalState(Restrict(items, Planned))'
      /\ parent'.cancelledAt = parent.cancelledAt
  BY FinalizeFacts DEF TypeOK
<1>3. \A a \in Agents : /\ items'[a] = "absent" <=> items[a] = "absent"
                        /\ items'[a] # "selected"
                        /\ items[a] \in Done => items'[a] = items[a]
                        /\ items[a] # "absent" => items'[a] \in Done
  BY <1>2 DEF ItemState, Done, Failed
<1>4. PlanIsWhole'
  BY <1>1, <1>2, <1>3, AgentFacts DEF Coverage, PlanIsWhole
<1>5. LeftoversHaveACause'
  BY <1>1, <1>2 DEF Coverage, LeftoversHaveACause, Failed
<1>6. AgentsCloseTheirItems'
  <2>1. ASSUME NEW a \in Agents, agent[a].done
        PROVE  items'[a] \in Done /\ Agrees(a)'
    BY <1>2, <1>3, <2>1 DEF Coverage, AgentsCloseTheirItems, Agrees, ChildStatus
  <2> QED BY <1>1, <1>3, <2>1 DEF Coverage, AgentsCloseTheirItems
<1>7. StateTellsCoverage'
  <2>1. ASSUME parent'.terminalState \in {"complete", "partial", "failed"}
        PROVE  \A a \in FileAgents : items'[a] \in Done
    <3>1. TerminalState(Restrict(items, Planned))' # "skipped" => Planned' # {}
      BY CoverageFacts
    <3>2. PICK a \in Agents : items[a] # "absent"
      BY <1>2, <2>1, <3>1 DEF Planned
    <3>3. \A b \in FileAgents : items[b] # "absent"
      BY <3>2 DEF Coverage, PlanIsWhole
    <3> QED BY <1>3, <3>3, AgentFacts
  <2> QED BY <1>1, <1>2, <1>3, <2>1, AgentFacts DEF StateTellsCoverage, Tells
<1> QED BY <1>4, <1>5, <1>6, <1>7

\* The body finalizes a run whose agents have closed their items, or that failed.
LEMMA CoverageOfFinalizeRun ==
  ASSUME TypeOK, Coverage, FinalizeRun, ~PartitionError
  PROVE  Coverage'
<1> USE DEF tree, money, world, Goto
<1> DEFINE class == IF main.failure THEN "failed" ELSE "swept"
<1>1. Agents' = Agents /\ FileAgents' = FileAgents /\ Survey' = Survey
  BY DEF Agents, FileAgents, Survey
<1>2. /\ main.pc = "finalize" /\ main.sealed /\ main \in Main
      /\ FinalizeTree(class) /\ class \in Failed
      /\ main' = [main EXCEPT !.pc = "accept"]
      /\ UNCHANGED <<dedupe, agent, cancel, closing>> /\ ~TreeLocked
  BY DEF FinalizeRun, Coverage, StagesAreInOrder, Closing, TypeOK, Failed
<1>3. /\ main'.files = main.files /\ main'.count = main.count
      /\ main'.survey = main.survey /\ main'.sealed = main.sealed
      /\ main'.failure = main.failure /\ main'.pc = "accept"
  BY <1>2 DEF Main
<1>4. class = "swept" => \A a \in Agents : items[a] # "selected"
  <2> SUFFICES ASSUME ~main.failure PROVE \A a \in Agents : items[a] # "selected"
    OBVIOUS
  <2>1. CASE main.survey
    <3>1. \A a \in Agents : agent[a].done
      BY <1>2, <2>1 DEF Coverage, StagesAreWaitedFor, Behind
    <3> QED BY <3>1 DEF Coverage, AgentsCloseTheirItems, Done, Failed
  <2>2. CASE ~main.survey
    BY <1>2, <2>2 DEF Coverage, PlanIsRead, PlanRead
  <2> QED BY <2>1, <2>2
<1> HIDE DEF class
<1>5. /\ PlanIsWhole' /\ AgentsCloseTheirItems'
      /\ LeftoversHaveACause' /\ StateTellsCoverage'
  BY <1>2, <1>3, <1>4, CoverageOfFinalize
<1>6. \A a \in Agents : /\ items'[a] = "absent" <=> items[a] = "absent"
  BY <1>2, FinalizeFacts DEF Failed
<1>7. PlanIsRead' /\ PlanIsNew'
  BY <1>1, <1>2, <1>3, <1>6, AgentFacts DEF Coverage, PlanIsRead, PlanIsNew, PlanRead
<1>8. StagesAreInOrder' /\ StagesAreWaitedFor'
  BY <1>1, <1>2, <1>3 DEF Coverage, StagesAreInOrder, StagesAreWaitedFor, Behind,
                          Planning, Reviewing, Closing
<1>9. OnlyCancelsComeEarly'
  <2>1. parent'.cancelledAt = parent.cancelledAt
    BY <1>2, FinalizeFacts
  <2> QED BY <1>1, <1>2, <1>3, <2>1 DEF Coverage, OnlyCancelsComeEarly
<1>10. RequestsHoldTheTree'
  BY <1>2, NobodyHolds
<1> QED BY <1>5, <1>7, <1>8, <1>9, <1>10 DEF Coverage

-----------------------------------------------------------------------------
(* Coverage: the requests.                                                 *)

\* A request moves on: it locks, reads and unlocks.
LEMMA RequestsTakeTurns ==
  ASSUME TypeOK, Coverage, NEW c \in Cancellers, CancelNext(c)
  PROVE  RequestsHoldTheTree'
<1> USE DEF tree, money, run
<1>1. /\ cancel \in [Cancellers -> CancelPc] /\ items \in [Agents -> ItemState]
      /\ closing.rows \subseteq Agents /\ RequestsHoldTheTree
  BY DEF TypeOK, Held, Coverage
<1>2. \A d \in Cancellers : d # c => cancel'[d] = cancel[d]
  BY <1>1 DEF CancelNext, CancelKills, CancelWrites, CancelClosesTree, CancelClosesItems,
              CancelSweeps, CancelReadsCoverage, CancelFinalizes, CancelAccepts,
              CancelSettles
<1>3. ASSUME cancel'[c] \notin Locking, cancel[c] \in Locking PROVE RequestsHoldTheTree'
  <2>1. \A d \in Cancellers : cancel'[d] \notin Locking
    BY <1>1, <1>2, <1>3 DEF RequestsHoldTheTree
  <2> QED BY <2>1 DEF RequestsHoldTheTree, Locking
<1>4. CASE CancelKills(c) \/ CancelWrites(c) \/ CancelAccepts(c) \/ CancelSettles(c)
  <2>1. /\ cancel[c] \notin Locking /\ cancel'[c] \notin Locking
        /\ UNCHANGED <<items, child, closing, agent>>
    BY <1>1, <1>4 DEF CancelKills, CancelWrites, CancelAccepts, CancelSettles, Locking
  <2>2. \A d \in Cancellers :
          cancel'[d] \in Locking => cancel[d] \in Locking /\ cancel'[d] = cancel[d]
    BY <1>2, <2>1
  <2>3. parent.cancelledAt => parent'.cancelledAt
    BY <1>4, SettleFacts
       DEF CancelKills, CancelWrites, CancelAccepts, CancelSettles, Accept, TypeOK, Parent
  <2>4. /\ SweptByCancel' = SweptByCancel /\ Planned' = Planned
        /\ Survey' = Survey /\ FileAgents' = FileAgents
    BY <2>1 DEF SweptByCancel, Planned, Agents, FileAgents, Survey
  <2>5. TerminalState(Restrict(SweptByCancel, Planned))'
          = TerminalState(Restrict(SweptByCancel, Planned))
    BY <2>4 DEF TerminalState, Restrict
  <2>6. Tells(closing.state, SweptByCancel) => Tells(closing.state, SweptByCancel)'
    BY <2>1, <2>3, <2>4, <2>5 DEF Tells, SurveyIsLate
  <2> QED BY <1>1, <2>1, <2>2, <2>6 DEF RequestsHoldTheTree, Locking
<1>5. CASE CancelClosesTree(c) \/ CancelSweeps(c)
  <2>1. \A d \in Cancellers : d # c => cancel'[d] \notin Locking
    BY <1>2, <1>5 DEF CancelClosesTree, CancelSweeps, TreeLocked, Locking
  <2>2. CASE CancelClosesTree(c)
    <3>1. cancel'[c] = "items" /\ closing'.rows = {a \in Agents : child[a] \in Live}
          /\ child' = child
      BY <1>1, <2>2 DEF CancelClosesTree, TypeOK, Held
    <3> QED BY <2>1, <3>1 DEF RequestsHoldTheTree, Locking
  <2>3. CASE CancelSweeps(c)
    <3>1. cancel'[c] = "coverage" /\ closing'.rows = {a \in Agents : items[a] = "selected"}
          /\ items' = items
      BY <1>1, <2>3 DEF CancelSweeps, TypeOK, Held
    <3> QED BY <2>1, <3>1 DEF RequestsHoldTheTree, Locking
  <2> QED BY <1>5, <2>2, <2>3
<1>6. CASE CancelClosesItems(c) \/ CancelFinalizes(c)
  BY <1>1, <1>3, <1>6 DEF CancelClosesItems, CancelFinalizes, Locking
<1>7. CASE CancelReadsCoverage(c)
  <2>1. CASE cancel' = [cancel EXCEPT ![c] = "threw"]
    BY <1>1, <1>3, <1>7, <2>1 DEF CancelReadsCoverage, Locking
  <2>2. CASE /\ \A a \in Agents : SweptByCancel[a] # "selected"
             /\ closing' = [closing EXCEPT !.state =
                              TerminalState(Restrict(SweptByCancel, Planned))]
             /\ cancel' = [cancel EXCEPT ![c] = "commit"]
    <3> DEFINE state == TerminalState(Restrict(SweptByCancel, Planned))
    <3>1. cancel[c] = "coverage" /\ items' = items
      BY <1>7 DEF CancelReadsCoverage
    <3>2. /\ closing'.rows = closing.rows /\ closing'.state = state
          /\ cancel'[c] = "commit" /\ \A a \in closing.rows : items[a] = "selected"
      BY <1>1, <2>2, <3>1 DEF TypeOK, Held, RequestsHoldTheTree
    <3>3. \A d \in Cancellers : d # c => cancel'[d] \notin Locking
      BY <1>1, <1>2, <3>1 DEF RequestsHoldTheTree, Locking
    <3>4. /\ SweptByCancel' = SweptByCancel /\ Planned' = Planned
          /\ Survey' = Survey /\ FileAgents' = FileAgents
      BY <3>1, <3>2 DEF SweptByCancel, Planned, Agents, FileAgents, Survey
    <3>5. TerminalState(Restrict(SweptByCancel, Planned))' = state
      BY <3>4 DEF TerminalState, Restrict
    <3>6. state \in {"skipped", "complete", "partial", "failed"}
          /\ (state = "skipped" <=> Planned = {})
      BY CoverageFacts
    <3> HIDE DEF state
    <3>7. ASSUME state # "skipped" PROVE \A a \in FileAgents : SweptByCancel[a] \in Done
      <4>1. \A a \in FileAgents : items[a] # "absent" /\ a \in Agents
        BY <3>6, <3>7, AgentFacts DEF Planned, Coverage, PlanIsWhole
      <4>2. \A a \in FileAgents : SweptByCancel[a] \in ItemState \ {"absent", "selected"}
        BY <1>1, <2>2, <4>1 DEF SweptByCancel, ItemState, Done, Failed
      <4> QED BY <4>2 DEF ItemState
    <3>8. Tells(closing.state, SweptByCancel)'
      <4>1. SweptByCancel[Survey] # "selected"
        BY <2>2, AgentFacts
      <4> QED BY <3>2, <3>4, <3>5, <3>7, <4>1 DEF Tells
    <3> QED BY <3>1, <3>2, <3>3, <3>6, <3>8 DEF RequestsHoldTheTree, Locking
  <2> QED BY <1>7, <2>1, <2>2 DEF CancelReadsCoverage
<1> QED BY <1>4, <1>5, <1>6, <1>7 DEF CancelNext

\* A request closes what is open, in its own name.
LEMMA CoverageOfCancel ==
  ASSUME TypeOK, Coverage, NEW c \in Cancellers, CancelNext(c)
  PROVE  Coverage'
<1> USE DEF tree, money, run
<1>1. Agents' = Agents /\ FileAgents' = FileAgents /\ Survey' = Survey
  BY DEF Agents, FileAgents, Survey
<1>2. UNCHANGED <<main, dedupe, agent>>
  BY DEF CancelNext, CancelKills, CancelWrites, CancelClosesTree, CancelClosesItems,
         CancelSweeps, CancelReadsCoverage, CancelFinalizes, CancelAccepts, CancelSettles
<1>3. StagesAreInOrder' /\ StagesAreWaitedFor' /\ RequestsHoldTheTree'
  BY <1>2, RequestsLeaveTheBody, RequestsTakeTurns
<1>4. /\ parent \in Parent /\ items \in [Agents -> ItemState]
      /\ cancel \in [Cancellers -> CancelPc]
      /\ closing.rows \subseteq Agents /\ closing.state \in RunState
  BY DEF TypeOK, Held
<1>5. ASSUME UNCHANGED <<items, child>>,
             parent'.terminalState = parent.terminalState,
             parent.cancelledAt => parent'.cancelledAt,
             \A d \in Cancellers : cancel'[d] \notin {"read", "write"} =>
               parent'.cancelledAt
      PROVE  Coverage'
  <2>1. PlanIsWhole' /\ LeftoversHaveACause' /\ PlanIsNew'
    BY <1>2, <1>5, ItemsStay DEF Coverage, PlanIsWhole, LeftoversHaveACause, PlanIsNew
  <2>2. PlanIsRead'
    BY <1>2, <1>5, ItemsStay DEF Coverage, PlanIsRead, PlanRead
  <2>3. AgentsCloseTheirItems'
    BY <1>2, <1>5, ItemsStay DEF Coverage, AgentsCloseTheirItems, Agrees, ChildStatus
  <2>4. OnlyCancelsComeEarly'
    BY <1>2, <1>5, ItemsStay DEF Coverage, OnlyCancelsComeEarly
  <2>5. StateTellsCoverage'
    BY <1>2, <1>5, ItemsStay DEF Coverage, StateTellsCoverage, Tells, SurveyIsLate
  <2> QED BY <1>3, <2>1, <2>2, <2>3, <2>4, <2>5 DEF Coverage
<1>6. CASE CancelKills(c)
  BY <1>4, <1>5, <1>6 DEF CancelKills, Coverage, OnlyCancelsComeEarly
<1>7. CASE CancelWrites(c)
  BY <1>4, <1>5, <1>7 DEF CancelWrites, Parent
<1>8. CASE CancelAccepts(c)
  <2>1. parent'.terminalState = parent.terminalState
        /\ parent'.cancelledAt = parent.cancelledAt
    BY <1>4, <1>8 DEF CancelAccepts, Accept, Parent
  <2> QED BY <1>4, <1>5, <1>8, <2>1 DEF CancelAccepts, Coverage, OnlyCancelsComeEarly
<1>9. CASE CancelSettles(c)
  <2>1. parent'.terminalState = parent.terminalState
        /\ parent'.cancelledAt = parent.cancelledAt
    BY <1>9, SettleFacts DEF CancelSettles
  <2> QED BY <1>4, <1>5, <1>9, <2>1 DEF CancelSettles, Coverage, OnlyCancelsComeEarly
<1>10. CASE CancelClosesTree(c) \/ CancelSweeps(c) \/ CancelReadsCoverage(c)
  <2>1. /\ UNCHANGED <<items, child, parent>> /\ cancel[c] \notin {"read", "write"}
        /\ \A d \in Cancellers : d # c => cancel'[d] = cancel[d]
    BY <1>4, <1>10 DEF CancelClosesTree, CancelSweeps, CancelReadsCoverage
  <2> QED BY <1>5, <2>1 DEF Coverage, OnlyCancelsComeEarly
<1>11. ASSUME \A a \in Agents : \/ items'[a] = items[a]
                                \/ items[a] = "selected" /\ items'[a] = "cancelled",
              \A a \in Agents : \/ child'[a] = child[a]
                                \/ child[a] \in Live /\ child'[a] = "cancelled",
              parent'.cancelledAt = parent.cancelledAt,
              parent'.terminalState = parent.terminalState \/ parent.cancelledAt,
              \A d \in Cancellers : cancel'[d] \notin {"read", "write"} =>
                cancel[d] \notin {"read", "write"},
              StateTellsCoverage'
       PROVE  Coverage'
  <2>1. PlanIsWhole' /\ LeftoversHaveACause'
    BY <1>1, <1>11, AgentFacts DEF Coverage, PlanIsWhole, LeftoversHaveACause, Live
  <2>2. PlanIsRead' /\ PlanIsNew'
    BY <1>1, <1>2, <1>11, AgentFacts DEF Coverage, PlanIsRead, PlanIsNew, PlanRead, Live
  <2>3. OnlyCancelsComeEarly'
    BY <1>1, <1>2, <1>11 DEF Coverage, OnlyCancelsComeEarly
  <2>4. AgentsCloseTheirItems'
    <3>1. \A a \in Agents : items[a] \in Done => items'[a] = items[a]
      BY <1>11 DEF Done, Failed
    <3>2. ASSUME NEW a \in Agents, agent[a].done
          PROVE  items'[a] \in Done /\ Agrees(a)'
      BY <1>11, <3>1, <3>2
         DEF Coverage, AgentsCloseTheirItems, Agrees, ChildStatus, Live
    <3>3. \A a \in Agents : items[a] # "absent" => items'[a] # "absent"
      BY <1>11
    <3> QED BY <1>1, <1>2, <3>1, <3>2, <3>3 DEF Coverage, AgentsCloseTheirItems
  <2> QED BY <1>3, <1>11, <2>1, <2>2, <2>3, <2>4 DEF Coverage
<1>12. CASE CancelFinalizes(c)
  <2>1. /\ cancel[c] = "commit" /\ cancel' = [cancel EXCEPT ![c] = "accept"]
        /\ items' = SweptByCancel /\ RollUp(closing.state)
    BY <1>12 DEF CancelFinalizes
  <2>2. /\ \A a \in closing.rows : items[a] = "selected"
        /\ Tells(closing.state, SweptByCancel)
    BY <2>1 DEF Coverage, RequestsHoldTheTree
  <2>3. \A a \in Agents : \/ items'[a] = items[a]
                          \/ items[a] = "selected" /\ items'[a] = "cancelled"
    BY <2>1, <2>2 DEF SweptByCancel
  <2>4. /\ child' = child /\ parent'.terminalState = closing.state
        /\ parent'.cancelledAt = parent.cancelledAt
    BY <1>4, <2>1, RollUpFacts
  <2>5. Planned' = Planned
    BY <1>1, <2>3 DEF Planned
  <2>6. TerminalState(Restrict(items, Planned))' = TerminalState(Restrict(SweptByCancel, Planned))
    BY <2>1, <2>5 DEF TerminalState, Restrict
  <2>7. StateTellsCoverage'
    BY <1>1, <1>2, <2>1, <2>2, <2>4, <2>6 DEF StateTellsCoverage, Tells, SurveyIsLate
  <2>8. parent.cancelledAt
    BY <2>1 DEF Coverage, OnlyCancelsComeEarly
  <2> QED BY <1>4, <1>11, <2>1, <2>3, <2>4, <2>7, <2>8
<1>13. CASE CancelClosesItems(c)
  <2>1. /\ \A a \in Agents :
             items'[a] = IF items[a] = "selected" THEN "cancelled" ELSE items[a]
        /\ \A a \in Agents :
             child'[a] = IF a \in closing.rows THEN "cancelled" ELSE child[a]
        /\ parent' = parent /\ cancel[c] = "items"
        /\ cancel' = [cancel EXCEPT ![c] = "finalize"]
    BY <1>13 DEF CancelClosesItems, Rewritten, Coverage, LeftoversHaveACause
  <2>2. \A a \in closing.rows : child[a] \in Live
    BY <2>1 DEF Coverage, RequestsHoldTheTree
  <2>3. \A a \in Agents : items[a] \in Done => items'[a] = items[a]
    BY <2>1 DEF Done, Failed
  <2>4. StateTellsCoverage'
    <3> SUFFICES ASSUME parent.terminalState \in {"complete", "partial", "failed"}
                 PROVE  /\ \A a \in FileAgents : items'[a] \in Done
                        /\ items'[Survey] # "selected"
                        /\ parent.terminalState = TerminalState(Restrict(items, Planned))'
      BY <1>1, <2>1 DEF StateTellsCoverage, Tells
    <3>1. \A a \in FileAgents : items[a] \in Done /\ items'[a] = items[a]
      BY <2>3, AgentFacts DEF Coverage, StateTellsCoverage, Tells
    <3>2. items'[Survey] # "selected"
      BY <2>1, AgentFacts
    <3>3. CASE items[Survey] # "selected"
      <4>1. items' = items
        <5>1. \A a \in Agents : items'[a] = items[a]
          BY <2>1, <3>1, <3>3, AgentFacts
        <5>2. items' \in [Agents -> ItemState]
          BY <1>4, <5>1, <1>13 DEF CancelClosesItems
        <5> QED BY <1>4, <5>1, <5>2
      <4>2. parent.terminalState = TerminalState(Restrict(items, Planned))
        BY <3>3 DEF Coverage, StateTellsCoverage, Tells, SurveyIsLate
      <4> QED BY <3>1, <3>2, <4>1, <4>2, ItemsStay
    <3>4. CASE SurveyIsLate(parent.terminalState, items)
      <4>1. /\ \A a \in Agents : items'[a] \in Failed
            /\ parent.terminalState = "failed"
        BY <2>1, <3>1, <3>4, AgentFacts DEF SurveyIsLate, Failed
      <4>2. Planned' # {} /\ \A a \in Planned' : items'[a] \in Failed
        BY <1>1, <4>1, AgentFacts DEF Planned, Failed
      <4>3. Planned' # {} /\ (\A a \in Planned' : items'[a] \in Failed)
              => TerminalState(Restrict(items, Planned))' = "failed"
        BY CoverageFacts
      <4> QED BY <3>1, <3>2, <4>1, <4>2, <4>3
    <3> QED BY <3>3, <3>4 DEF Coverage, StateTellsCoverage, Tells
  <2> QED BY <1>4, <1>11, <2>1, <2>2, <2>4
<1> QED BY <1>6, <1>7, <1>8, <1>9, <1>10, <1>12, <1>13 DEF CancelNext

-----------------------------------------------------------------------------
(* Coverage: the agents.                                                   *)

\* An agent that may take a turn has an item, and so does one under way.
LEMMA AgentsAreSealed ==
  ASSUME TypeOK, Coverage, NEW a \in Agents,
         MayTakeTurn(a) \/ agent[a].pc \notin {"rest", "dead"}
  PROVE  main.sealed /\ items[a] # "absent"
<1>1. CASE agent[a].pc \notin {"rest", "dead"}
  <2>1. agent[a].pc \in {"call", "count", "close"}
    BY <1>1 DEF TypeOK, Agent
  <2> QED BY <1>1, <2>1 DEF Coverage, AgentsCloseTheirItems, Resting
<1>2. CASE MayTakeTurn(a)
  <2>1. main.sealed
    BY <1>2 DEF MayTakeTurn, LanesRun, Coverage, StagesAreInOrder, Reviewing
  <2>2. \/ a <= main.files
        \/ main.survey
    BY <1>2 DEF MayTakeTurn, Coverage, StagesAreInOrder
  <2>3. a >= 1
    BY AgentFacts
  <2>4. main.survey
    BY <2>1, <2>2, <2>3, AgentFacts DEF Coverage, PlanIsRead, PlanRead
  <2>5. (\A b \in FileAgents : items[b] # "absent") /\ items[Survey] # "absent"
    BY <2>1, <2>4 DEF Coverage, PlanIsRead, PlanRead
  <2> QED BY <2>1, <2>5, AgentFacts
<1> QED BY <1>1, <1>2

\* What an agent may become between its starts and its closes.
MovesTo(a, ag) ==
  /\ ~ag.done
  /\ ag.pc # "close" => ag.close = "none"
  /\ ag.pc # "count" => ag.used = 0
  /\ ag.pc = "close" /\ ag.close = "none" => items[a] \in Done
  /\ /\ a = Survey /\ items[a] = "selected" /\ parent.cancelledAt
     /\ agent[a].pc \notin {"call", "count"} /\ agent[a].close \in {"none", "cancelled"}
     => ag.pc \notin {"call", "count"} /\ ag.close \in {"none", "cancelled"}

\* An agent moves, and may mark its child, but closes nothing.
LEMMA CoverageOfMove ==
  ASSUME TypeOK, Coverage, NEW a \in Agents,
         UNCHANGED <<main, dedupe, parent, cancel, closing, items>>,
         main.sealed, items[a] # "absent", ~agent[a].done,
         NEW ag, agent' = [agent EXCEPT ![a] = ag],
         child' = child \/ child' = [child EXCEPT ![a] = "running"],
         MovesTo(a, ag)
  PROVE  Coverage'
<1> USE DEF MovesTo
<1>1. Agents' = Agents /\ FileAgents' = FileAgents /\ Survey' = Survey
  BY DEF Agents, FileAgents, Survey
<1>2. PlanIsRead' /\ StagesAreInOrder' /\ LeftoversHaveACause' /\ OnlyCancelsComeEarly'
  BY BodyStays
<1>3. /\ agent'[a] = ag /\ \A b \in Agents : b # a => agent'[b] = agent[b]
      /\ \A b \in Agents : b # a => child'[b] = child[b]
  BY DEF TypeOK
<1>4. PlanIsWhole' /\ PlanIsNew'
  <2>1. \A b \in Agents : child'[b] = "absent" => child[b] = "absent"
    BY DEF TypeOK
  <2>2. main.pc # "plan"
    BY DEF Coverage, StagesAreInOrder, Planning
  <2> QED BY <1>1, <2>1, <2>2 DEF Coverage, PlanIsWhole, PlanIsNew
<1>5. StagesAreWaitedFor'
  <2>1. \A b \in Agents : agent'[b].done = agent[b].done \/ b = a
    BY <1>3
  <2> QED BY <1>1, <2>1, AgentFacts DEF Coverage, StagesAreWaitedFor, Behind
<1>6. AgentsCloseTheirItems'
  <2>1. ASSUME NEW b \in Agents, b # a, agent'[b].done PROVE Agrees(b)'
    BY <1>3, <2>1 DEF Coverage, AgentsCloseTheirItems, Agrees, ChildStatus
  <2> QED BY <1>1, <1>3, <2>1 DEF Coverage, AgentsCloseTheirItems
<1>7. SurveyStays
  BY <1>3, AgentFacts DEF SurveyStays
<1>8. StateTellsCoverage'
  <2>1. SurveyIsLate(parent.terminalState, items) => SurveyIsLate(parent.terminalState, items)'
    BY <1>1, <1>7 DEF SurveyIsLate, SurveyStays
  <2> QED BY <2>1, ItemsStay DEF Coverage, StateTellsCoverage, Tells
<1>9. RequestsHoldTheTree'
  <2>1. \A b \in Agents : child[b] \in Live => child'[b] \in Live
    BY DEF TypeOK, Live
  <2> QED BY <1>7, <2>1, HoldStays DEF Coverage, TypeOK, Held
<1> QED BY <1>2, <1>4, <1>5, <1>6, <1>8, <1>9 DEF Coverage

\* A turn up to its close, and the death of a worker.
LEMMA CoverageOfTurn ==
  ASSUME TypeOK, Coverage, NEW a \in Agents,
         TurnReads(a) \/ TurnCallsModel(a) \/ TurnFails(a) \/ TurnCounts(a) \/ TurnCrashes(a)
  PROVE  Coverage'
<1> USE DEF tree, money, world
<1>1. /\ UNCHANGED <<main, dedupe, parent, cancel, closing, items>>
      /\ MayTakeTurn(a) \/ agent[a].pc \notin {"rest", "dead"}
  BY DEF TurnReads, TurnCallsModel, TurnFails, TurnCounts, TurnCrashes
<1>2. main.sealed /\ items[a] # "absent"
  BY <1>1, AgentsAreSealed
<1>3. ~agent[a].done /\ agent[a] \in Agent /\ items[a] \in ItemState
  BY <1>1 DEF MayTakeTurn, Coverage, AgentsCloseTheirItems, TypeOK
<1>4. /\ agent[a].pc # "close" => agent[a].close = "none"
      /\ agent[a].pc # "count" => agent[a].used = 0
  BY DEF Coverage, AgentsCloseTheirItems
<1>5. CASE TurnReads(a)
  <2>1. agent[a].pc = "rest"
    BY <1>5 DEF TurnReads, MayTakeTurn
  <2>2. CASE /\ items[a] # "selected"
             /\ agent' = [agent EXCEPT ![a].pc = "close"]
    <3> DEFINE ag == [agent[a] EXCEPT !.pc = "close"]
    <3>1. agent' = [agent EXCEPT ![a] = ag]
      BY <2>2
    <3>2. ~ag.done /\ ag.pc = "close" /\ ag.close = "none" /\ ag.used = 0
      BY <1>3, <1>4, <2>1 DEF Agent
    <3>3. items[a] \in Done
      BY <1>2, <1>3, <2>2 DEF ItemState
    <3>4. child' = child
      BY <1>5 DEF TurnReads
    <3> HIDE DEF ag
    <3>5. MovesTo(a, ag)
      BY <2>2, <3>2, <3>3 DEF MovesTo
    <3> QED BY <1>1, <1>2, <1>3, <3>1, <3>4, <3>5, CoverageOfMove
  <2>3. CASE /\ items[a] = "selected" /\ parent.cancelledAt
             /\ agent' = [agent EXCEPT ![a].pc = "close", ![a].close = "cancelled"]
    <3> DEFINE ag == [agent[a] EXCEPT !.pc = "close", !.close = "cancelled"]
    <3>1. agent' = [agent EXCEPT ![a] = ag]
      BY <1>3, <2>3 DEF TypeOK
    <3>2. ~ag.done /\ ag.pc = "close" /\ ag.close = "cancelled" /\ ag.used = 0
      BY <1>3, <1>4, <2>1 DEF Agent
    <3>3. child' = child
      BY <1>5 DEF TurnReads
    <3> HIDE DEF ag
    <3>4. MovesTo(a, ag)
      BY <3>2 DEF MovesTo
    <3> QED BY <1>1, <1>2, <1>3, <3>1, <3>3, <3>4, CoverageOfMove
  <2>4. CASE /\ items[a] = "selected" /\ ~parent.cancelledAt
             /\ agent' = [agent EXCEPT ![a].pc = "call"]
    <3> DEFINE ag == [agent[a] EXCEPT !.pc = "call"]
    <3>1. agent' = [agent EXCEPT ![a] = ag]
      BY <2>4
    <3>2. ~ag.done /\ ag.pc = "call" /\ ag.close = "none" /\ ag.used = 0
      BY <1>3, <1>4, <2>1 DEF Agent
    <3>3. child' = child
      BY <1>5 DEF TurnReads
    <3> HIDE DEF ag
    <3>4. MovesTo(a, ag)
      BY <2>4, <3>2 DEF MovesTo
    <3> QED BY <1>1, <1>2, <1>3, <3>1, <3>3, <3>4, CoverageOfMove
  <2>5. CASE /\ items[a] = "selected" /\ ~parent.cancelledAt
             /\ agent' = [agent EXCEPT ![a].pc = "close", ![a].close = "failed"]
    <3> DEFINE ag == [agent[a] EXCEPT !.pc = "close", !.close = "failed"]
    <3>1. agent' = [agent EXCEPT ![a] = ag]
      BY <1>3, <2>5 DEF TypeOK
    <3>2. ~ag.done /\ ag.pc = "close" /\ ag.close = "failed" /\ ag.used = 0
      BY <1>3, <1>4, <2>1 DEF Agent
    <3>3. child' = child
      BY <1>5 DEF TurnReads
    <3> HIDE DEF ag
    <3>4. MovesTo(a, ag)
      BY <2>5, <3>2 DEF MovesTo
    <3> QED BY <1>1, <1>2, <1>3, <3>1, <3>3, <3>4, CoverageOfMove
  <2> QED BY <1>5, <2>2, <2>3, <2>4, <2>5 DEF TurnReads
<1>6. CASE TurnCallsModel(a)
  <2>1. \E used : agent' = [agent EXCEPT ![a].pc = "count", ![a].used = used]
    BY <1>6 DEF TurnCallsModel
  <2> PICK used : agent' = [agent EXCEPT ![a].pc = "count", ![a].used = used]
    BY <2>1
  <2> DEFINE ag == [agent[a] EXCEPT !.pc = "count", !.used = used]
  <2>2. agent' = [agent EXCEPT ![a] = ag] /\ agent[a].pc = "call"
    BY <1>3, <1>6 DEF TypeOK, TurnCallsModel
  <2>3. ~ag.done /\ ag.pc = "count" /\ ag.close = "none"
    BY <1>3, <1>4, <2>2 DEF Agent
  <2>4. child' = [child EXCEPT ![a] = "running"]
    BY <1>6 DEF TurnCallsModel
  <2> HIDE DEF ag
  <2>5. MovesTo(a, ag)
    BY <2>2, <2>3 DEF MovesTo
  <2> QED BY <1>1, <1>2, <1>3, <2>2, <2>4, <2>5, CoverageOfMove
<1>7. CASE TurnFails(a)
  <2> DEFINE ag == [agent[a] EXCEPT !.pc = "close", !.used = 0, !.close = "failed"]
  <2>1. /\ agent' = [agent EXCEPT ![a] = ag]
        /\ agent[a].pc \in {"call", "count"} \/ agent[a].close = "completed"
    BY <1>3, <1>7 DEF TypeOK, TurnFails
  <2>2. ~ag.done /\ ag.pc = "close" /\ ag.close = "failed" /\ ag.used = 0
    BY <1>3 DEF Agent
  <2>3. child' = child \/ child' = [child EXCEPT ![a] = "running"]
    BY <1>7 DEF TurnFails
  <2> HIDE DEF ag
  <2>4. MovesTo(a, ag)
    BY <2>1, <2>2 DEF MovesTo
  <2> QED BY <1>1, <1>2, <1>3, <2>1, <2>3, <2>4, CoverageOfMove
<1>8. CASE TurnCounts(a)
  <2> DEFINE rested == [agent[a] EXCEPT !.used = 0]
             last == [rested EXCEPT !.pc = "close", !.close = "completed"]
             next == [rested EXCEPT !.pc = "rest", !.turn = @ + 1]
  <2>1. agent[a].pc = "count" /\ child' = child
    BY <1>8 DEF TurnCounts
  <2>2. /\ ~last.done /\ last.pc = "close" /\ last.close = "completed" /\ last.used = 0
        /\ ~next.done /\ next.pc = "rest" /\ next.close = "none" /\ next.used = 0
    BY <1>3, <1>4, <2>1 DEF Agent
  <2>3. agent' = [agent EXCEPT ![a] = last] \/ agent' = [agent EXCEPT ![a] = next]
    BY <1>8 DEF TurnCounts
  <2> HIDE DEF rested, last, next
  <2>4. MovesTo(a, last) /\ MovesTo(a, next)
    BY <2>1, <2>2 DEF MovesTo
  <2> QED BY <1>1, <1>2, <1>3, <2>1, <2>3, <2>4, CoverageOfMove
<1>9. CASE TurnCrashes(a)
  <2> DEFINE ag == [Resting EXCEPT !.turn = agent[a].turn]
  <2>1. agent' = [agent EXCEPT ![a] = ag] /\ child' = child
    BY <1>9 DEF TurnCrashes, Restart
  <2>2. ~ag.done /\ ag.pc = "rest" /\ ag.close = "none" /\ ag.used = 0
    BY DEF Resting
  <2> HIDE DEF ag
  <2>3. MovesTo(a, ag)
    BY <2>2 DEF MovesTo
  <2> QED BY <1>1, <1>2, <1>3, <2>1, <2>3, CoverageOfMove
<1> QED BY <1>5, <1>6, <1>7, <1>8, <1>9

\* A turn closes its item, unless another has, and leaves a child that agrees.
LEMMA CoverageOfClose ==
  ASSUME TypeOK, Coverage, NEW a \in Agents, TurnCloses(a)
  PROVE  Coverage'
<1> USE DEF money, world
<1>1. Agents' = Agents /\ FileAgents' = FileAgents /\ Survey' = Survey
  BY DEF Agents, FileAgents, Survey
<1>2. /\ UNCHANGED <<main, dedupe, parent, cancel, closing>> /\ ~TreeLocked
      /\ agent[a].pc = "close" /\ agent[a] \in Agent
      /\ items \in [Agents -> ItemState] /\ child \in [Agents -> {"absent"} \union JobStatus]
  BY DEF TurnCloses, TypeOK
<1>3. main.sealed /\ items[a] # "absent" /\ ~agent[a].done
  BY <1>2, AgentsAreSealed DEF Coverage, AgentsCloseTheirItems
<1>4. \/ items[a] \in Done
      \/ items[a] = "selected" /\ agent[a].close \in {"completed", "failed", "cancelled"}
  <2>1. items[a] \in {"absent", "selected"} \union Done
    BY <1>2 DEF ItemState
  <2>2. "selected" \notin Done
    BY DEF Done, Failed
  <2>3. items[a] = "selected" => agent[a].close # "none"
    BY <1>2, <2>2 DEF Coverage, AgentsCloseTheirItems
  <2>4. agent[a].close \in {"none", "completed", "failed", "cancelled"}
    BY <1>2 DEF Agent
  <2> QED BY <1>3, <2>1, <2>3, <2>4
<1>5. PICK ag : /\ agent' = [agent EXCEPT ![a] = ag]
                /\ ag.pc = "rest" /\ ag.close = "none" /\ ag.used = 0
  <2> DEFINE done == [Resting EXCEPT !.done = TRUE]
             again == [Resting EXCEPT !.turn = agent[a].turn]
  <2>1. /\ done.pc = "rest" /\ done.close = "none" /\ done.used = 0
        /\ again.pc = "rest" /\ again.close = "none" /\ again.used = 0
    BY DEF Resting
  <2>2. agent' = [agent EXCEPT ![a] = done] \/ agent' = [agent EXCEPT ![a] = again]
    BY DEF TurnCloses, CloseReturns, Restart
  <2> HIDE DEF done, again
  <2> QED BY <2>1, <2>2
<1>6. /\ agent'[a] = ag /\ \A b \in Agents : b # a => agent'[b] = agent[b]
  BY <1>5 DEF TypeOK
<1>7. /\ items'[a] = IF items[a] = "selected" THEN agent[a].close ELSE items[a]
      /\ \A b \in Agents : b # a => items'[b] = items[b] /\ child'[b] = child[b]
      /\ items[a] # "selected" => items' = items
      /\ child'[a] \in {"completed", "failed", "cancelled"}
      /\ items'[a] \in Done \ {"swept"} \/ items'[a] = items[a]
      /\ items'[a] \in Done
  <2>1. CASE items[a] = "selected"
    <3>1. /\ items' = [items EXCEPT ![a] = agent[a].close]
          /\ child' = [child EXCEPT ![a] = ChildStatus(agent[a].close)]
      BY <2>1 DEF TurnCloses
    <3> QED BY <1>2, <1>4, <2>1, <3>1 DEF ChildStatus, Done, Failed
  <2>2. CASE items[a] # "selected"
    <3>1. /\ items' = items
          /\ child' = IF Agrees(a) THEN child ELSE [child EXCEPT ![a] = ChildStatus(items[a])]
      BY <2>2 DEF TurnCloses
    <3> QED BY <1>2, <1>4, <2>2, <3>1 DEF ChildStatus, Agrees
  <2> QED BY <2>1, <2>2
<1>8. Agrees(a)'
  <2>1. CASE items[a] = "selected"
    <3>1. child'[a] = ChildStatus(agent[a].close) /\ items'[a] = agent[a].close
      BY <1>2, <2>1 DEF TurnCloses
    <3> QED BY <3>1 DEF Agrees, ChildStatus
  <2>2. CASE items[a] # "selected"
    <3>1. /\ items' = items
          /\ child' = IF Agrees(a) THEN child ELSE [child EXCEPT ![a] = ChildStatus(items[a])]
      BY <2>2 DEF TurnCloses
    <3>2. CASE Agrees(a)
      BY <3>1, <3>2 DEF Agrees, ChildStatus
    <3>3. CASE ~Agrees(a)
      BY <1>2, <3>1, <3>3 DEF Agrees, ChildStatus
    <3> QED BY <3>2, <3>3
  <2> QED BY <2>1, <2>2
<1>9. PlanIsWhole'
  <2>1. /\ \A b \in FileAgents : items[b] # "absent"
        /\ \A b \in Agents : child[b] # "absent"
    BY <1>3 DEF Coverage, PlanIsWhole
  <2> QED BY <1>1, <1>7, <2>1, AgentFacts DEF PlanIsWhole, Done, Failed
<1>10. PlanIsRead'
  <2>1. \A b \in Agents : items[b] # "absent" => items'[b] # "absent"
    BY <1>7 DEF Done, Failed
  <2> QED BY <1>1, <1>2, <1>3, <2>1, AgentFacts DEF Coverage, PlanIsRead, PlanRead
<1>11. StagesAreInOrder' /\ PlanIsNew'
  BY <1>2, <1>3 DEF Coverage, StagesAreInOrder, Planning, PlanIsNew
<1>12. StagesAreWaitedFor'
  <2>1. \A b \in Agents : agent[b].done => agent'[b].done
    BY <1>3, <1>6
  <2> QED BY <1>1, <1>2, <2>1, AgentFacts DEF Coverage, StagesAreWaitedFor, Behind
<1>13. AgentsCloseTheirItems'
  <2>1. ASSUME NEW b \in Agents, b # a, agent'[b].done PROVE Agrees(b)'
    BY <1>6, <1>7, <2>1 DEF Coverage, AgentsCloseTheirItems, Agrees, ChildStatus
  <2>2. ASSUME NEW b \in Agents
        PROVE  /\ agent'[b].done =>
                    agent'[b].pc = "rest" /\ items'[b] \in Done /\ Agrees(b)'
               /\ agent'[b].pc \in {"call", "count", "close"} => items'[b] # "absent"
               /\ agent'[b].pc # "close" => agent'[b].close = "none"
               /\ agent'[b].pc # "count" => agent'[b].used = 0
               /\ agent'[b].pc = "close" /\ agent'[b].close = "none" => items'[b] \in Done
    <3>1. CASE b = a
      BY <1>5, <1>6, <1>7, <1>8, <3>1
    <3>2. CASE b # a
      BY <1>6, <1>7, <2>1, <3>2 DEF Coverage, AgentsCloseTheirItems
    <3> QED BY <3>1, <3>2
  <2> QED BY <1>1, <1>2, <1>3, <2>2 DEF AgentsCloseTheirItems
<1>14. LeftoversHaveACause' /\ OnlyCancelsComeEarly'
  BY <1>1, <1>2, <1>3, <1>4, <1>7
     DEF Coverage, LeftoversHaveACause, OnlyCancelsComeEarly, Done
<1>15. StateTellsCoverage'
  <2>1. CASE items[a] # "selected"
    <3>1. items' = items
      BY <1>7, <2>1
    <3>2. SurveyIsLate(parent.terminalState, items)
            => SurveyIsLate(parent.terminalState, items)'
      BY <1>1, <1>2, <1>5, <1>6, <3>1, AgentFacts DEF SurveyIsLate
    <3> QED BY <1>2, <3>1, <3>2, ItemsStay DEF Coverage, StateTellsCoverage, Tells
  <2>2. CASE items[a] = "selected"
    <3>1. ASSUME parent.terminalState \in {"complete", "partial", "failed"}
          PROVE  /\ \A b \in FileAgents : items'[b] \in Done
                 /\ items'[Survey] # "selected"
                 /\ parent.terminalState = TerminalState(Restrict(items, Planned))'
      <4>1. \A b \in FileAgents : items[b] \in Done
        BY <3>1 DEF Coverage, StateTellsCoverage, Tells
      <4>2. a = Survey
        BY <2>2, <4>1, AgentFacts DEF Done, Failed
      <4>3. SurveyIsLate(parent.terminalState, items)
        BY <2>2, <3>1, <4>2 DEF Coverage, StateTellsCoverage, Tells
      <4>4. items'[Survey] = "cancelled"
        BY <1>4, <1>7, <2>2, <4>2, <4>3 DEF SurveyIsLate, Done, Failed
      <4>5. \A b \in FileAgents : items'[b] = items[b]
        BY <1>7, <4>2, AgentFacts
      <4>6. parent.terminalState = "failed" /\ \A b \in Agents : items'[b] \in Failed
        BY <4>3, <4>4, <4>5, AgentFacts DEF SurveyIsLate, Failed
      <4>7. Planned' # {} /\ \A b \in Planned' : items'[b] \in Failed
        BY <1>1, <4>6, AgentFacts DEF Planned, Failed
      <4>8. Planned' # {} /\ (\A b \in Planned' : items'[b] \in Failed)
              => TerminalState(Restrict(items, Planned))' = "failed"
        BY CoverageFacts
      <4> QED BY <4>1, <4>4, <4>5, <4>6, <4>7, <4>8
    <3> QED BY <1>1, <1>2, <3>1 DEF StateTellsCoverage, Tells
  <2> QED BY <2>1, <2>2
<1>16. RequestsHoldTheTree'
  BY <1>2, NobodyHolds
<1> QED BY <1>9, <1>10, <1>11, <1>12, <1>13, <1>14, <1>15, <1>16 DEF Coverage

\* A turn that fails for good stops its lane; the body closes the run as failed.
LEMMA CoverageOfThrow ==
  ASSUME TypeOK, Coverage, NEW a \in Agents, TurnThrows(a)
  PROVE  Coverage'
<1> USE DEF tree, world
<1>1. Agents' = Agents /\ FileAgents' = FileAgents /\ Survey' = Survey
  BY DEF Agents, FileAgents, Survey
<1>2. /\ UNCHANGED <<parent, items, child, dedupe, cancel, closing>>
      /\ agent[a].pc = "close" /\ main \in Main
      /\ agent' = [agent EXCEPT ![a] = [Resting EXCEPT !.pc = "dead"]]
  BY DEF TurnThrows, TypeOK
<1>3. main.sealed /\ ~agent[a].done
  BY <1>2, AgentsAreSealed DEF Coverage, AgentsCloseTheirItems
<1>4. /\ \A b \in Agents : b # a => agent'[b] = agent[b]
      /\ ~agent'[a].done /\ agent'[a].pc = "dead" /\ agent'[a].close = "none"
      /\ agent'[a].used = 0
  BY <1>2 DEF TypeOK, Resting
<1>5. /\ main'.files = main.files /\ main'.count = main.count
      /\ main'.survey = main.survey /\ main'.sealed = main.sealed
      /\ \/ main' = main
         \/ main'.pc = "finalize" /\ main'.failure = TRUE
  BY <1>2 DEF TurnThrows, Main
<1>6. PlanIsWhole' /\ LeftoversHaveACause' /\ PlanIsNew'
  BY <1>1, <1>2, <1>5 DEF Coverage, PlanIsWhole, LeftoversHaveACause, PlanIsNew
<1>7. PlanIsRead'
  BY <1>1, <1>2, <1>3, <1>5 DEF Coverage, PlanIsRead, PlanRead
<1>8. StagesAreInOrder'
  BY <1>2, <1>3, <1>5 DEF Coverage, StagesAreInOrder, Planning, Reviewing, Closing
<1>9. StagesAreWaitedFor'
  BY <1>1, <1>3, <1>4, <1>5, AgentFacts DEF Coverage, StagesAreWaitedFor, Behind
<1>10. AgentsCloseTheirItems'
  <2>1. ASSUME NEW b \in Agents, agent'[b].done PROVE Agrees(b)'
    BY <1>2, <1>4, <2>1 DEF Coverage, AgentsCloseTheirItems, Agrees, ChildStatus
  <2> QED BY <1>1, <1>2, <1>3, <1>4, <1>5, <2>1 DEF Coverage, AgentsCloseTheirItems
<1>11. OnlyCancelsComeEarly'
  BY <1>1, <1>2, <1>3, <1>5 DEF Coverage, OnlyCancelsComeEarly
<1>12. SurveyStays
  BY <1>4, AgentFacts DEF SurveyStays
<1>13. StateTellsCoverage'
  <2>1. SurveyIsLate(parent.terminalState, items) => SurveyIsLate(parent.terminalState, items)'
    BY <1>1, <1>2, <1>12 DEF SurveyIsLate, SurveyStays
  <2> QED BY <1>2, <2>1, ItemsStay DEF Coverage, StateTellsCoverage, Tells
<1>14. RequestsHoldTheTree'
  BY <1>2, <1>12, HoldStays DEF Coverage, TypeOK, Held
<1> QED BY <1>6, <1>7, <1>8, <1>9, <1>10, <1>11, <1>13, <1>14 DEF Coverage

-----------------------------------------------------------------------------
(* Usage: what is paid and counted.                                        *)

\* The survey's agent waits for its stage.
LEMMA SurveyWaits ==
  ASSUME TypeOK, Coverage, SurveyRests, Next
  PROVE  SurveyRests'
<1> USE DEF world, run, Goto
<1>1. Survey' = Survey /\ main \in Main /\ Survey \in Agents
  BY AgentFacts DEF TypeOK, Survey
<1>2. ASSUME main' = main, agent' = agent PROVE SurveyRests'
  BY <1>1, <1>2 DEF SurveyRests
<1>3. ASSUME main'.pc # "agents" PROVE SurveyRests'
  BY <1>3 DEF SurveyRests
<1>4. CASE ReturnPlan
  BY <1>1, <1>4 DEF ReturnPlan, SurveyRests, Coverage, StagesAreInOrder, Planning,
                    AgentsCloseTheirItems, Resting
<1>5. CASE \/ LinkRun \/ SealPlan \/ CreatePlan \/ AddSurveyItem \/ StartSurvey
           \/ SurveyDone
  BY <1>1, <1>3, <1>5 DEF LinkRun, SealPlan, ReadPlan, FindNoPlan, CreatePlan, AddSurveyItem,
                          StartSurvey, SurveyDone, Main
<1>6. CASE DedupeFindings \/ SaveDedupe \/ PersistDedupe
  BY <1>1, <1>3, <1>6 DEF DedupeFindings, SaveDedupe, PersistDedupe, ReturnTo, Main
<1>7. CASE FinalizeRun \/ AcceptRun \/ FailRun \/ SettleFailedRun \/ MainIsStopped
  BY <1>1, <1>3, <1>7 DEF FinalizeRun, AcceptRun, FailRun, SettleFailedRun, MainIsStopped,
                          ReturnTo, Replayed, Main
<1>8. CASE MainFaults
  BY <1>1, <1>3, <1>8 DEF MainFaults, SealThrows, DedupeThrows, FinalizeThrows, MainCrashes,
                          SealCrashesLate, Crashes, Replayed, Main
<1>9. ASSUME NEW a \in Agents, TurnNext(a) \/ TurnFaults(a) PROVE SurveyRests'
  <2>1. MayTakeTurn(a) \/ agent[a].pc \notin {"rest", "dead"}
    BY <1>9 DEF TurnNext, TurnFaults, TurnReads, TurnCallsModel, TurnFails, TurnCounts,
                TurnCloses, TurnCrashes, TurnThrows
  <2>2. main.sealed
    BY <2>1, AgentsAreSealed
  <2>3. SUFFICES ASSUME main.pc = "agents", main.files # Survey, a = Survey PROVE FALSE
    <3>1. main'.pc = "agents" => main' = main
      BY <1>1, <1>9 DEF TurnNext, TurnFaults, TurnReads, TurnCallsModel, TurnFails,
                        TurnCounts, TurnCloses, TurnCrashes, TurnThrows, Main
    <3>2. \A b \in Agents : b # a => agent'[b] = agent[b]
      BY <1>9 DEF TurnNext, TurnFaults, TurnReads, TurnCallsModel, TurnFails, TurnCounts,
                  TurnCloses, TurnCrashes, TurnThrows, CloseReturns, Restart, TypeOK
    <3> QED BY <1>1, <3>1, <3>2 DEF SurveyRests
  <2>4. MayTakeTurn(a)
    BY <2>1, <2>3 DEF SurveyRests
  <2>5. main.files \in {0, NFiles, Survey} /\ Survey <= main.files
    BY <2>2, <2>3, <2>4 DEF Coverage, PlanIsRead, PlanRead, MayTakeTurn
  <2> QED BY <2>3, <2>5, AgentFacts
<1>10. ASSUME NEW c \in Cancellers, CancelNext(c) PROVE SurveyRests'
  BY <1>2, <1>10 DEF CancelNext, CancelKills, CancelWrites, CancelClosesTree, CancelClosesItems,
                     CancelSweeps, CancelReadsCoverage, CancelFinalizes, CancelAccepts, CancelSettles
<1> QED BY <1>4, <1>5, <1>6, <1>7, <1>8, <1>9, <1>10 DEF Next, MainNext

\* Steps that neither pay nor count, and forget at most the body's due.
LEMMA NothingIsPaid ==
  ASSUME TypeOK, TypeOK', PaidIsCounted,
         \A a \in Agents : Due(a)' = Due(a),
         counted' = counted, paid' = paid, lost' = lost,
         DueForDedupe' <= DueForDedupe,
         faults' = 0 => faults = 0 /\ DueForDedupe' = DueForDedupe
  PROVE  PaidIsCounted'
<1>1. Due(Survey)' = Due(Survey) /\ Survey \in Agents
  BY AgentFacts
<1>2. /\ Due(Survey) \in Nat /\ DueForDedupe \in Nat
      /\ counted \in Nat /\ paid \in Nat /\ lost \in Nat
  BY AgentFacts DEF TypeOK, Agent, Main, Dedupe, Due, DueForDedupe
<1>3. DueForDedupe' \in Nat
  BY DEF TypeOK, Main, Dedupe, DueForDedupe
<1>4. counted' + Due(Survey)' + DueForDedupe' + lost' + paid
        <= counted + Due(Survey) + DueForDedupe + lost + paid'
  BY <1>1, <1>2, <1>3
<1>5. faults' = 0 =>
        /\ faults = 0
        /\ counted' + Due(Survey)' + DueForDedupe' + lost' + paid
             = counted + Due(Survey) + DueForDedupe + lost + paid'
  BY <1>1, <1>2, <1>3
<1> QED BY <1>1, <1>4, <1>5, Balance

\* A charge that is not touched stays covered.
LEMMA ChargeStays ==
  ASSUME TypeOK, TypeOK', ChargedOnce, charged' = charged, paid' >= paid,
         parent'.tokens = parent.tokens, parent'.settled = parent.settled
  PROVE  ChargedOnce'
<1>1. /\ parent.tokens \in Nat /\ charged \in Nat /\ paid \in Nat /\ paid' \in Nat
      /\ parent.tokens <= paid /\ charged <= paid
  BY DEF TypeOK, Parent, ChargedOnce
<1>2. parent'.tokens <= paid' /\ charged' <= paid'
  BY <1>1
<1> QED BY <1>2 DEF ChargedOnce

\* A settlement charges what the row or the tree shows.
LEMMA ChargeOfSettle ==
  ASSUME TypeOK, TypeOK', PaidIsCounted, ChargedOnce, paid' = paid,
         \/ Settle(0, parent)
         \/ \E class \in Failed : FinalizeTree(class)
         \/ \E state \in RunState : RollUp(state)
  PROVE  ChargedOnce'
<1>1. /\ parent.tokens \in Nat /\ charged \in Nat /\ paid \in Nat /\ counted \in Nat
      /\ parent.tokens <= paid /\ charged <= paid /\ counted <= paid
      /\ ~parent.settled => charged = 0
  BY CountedIsPaid DEF TypeOK, Parent, ChargedOnce
<1>2. CASE Settle(0, parent)
  <2>1. /\ parent'.tokens = parent.tokens /\ parent'.settled = TRUE
        /\ charged' = IF parent.settled THEN charged ELSE charged + parent.tokens
    BY <1>2, SettleFacts
  <2>2. charged' <= paid'
    BY <1>1, <2>1
  <2> QED BY <1>1, <2>1, <2>2 DEF ChargedOnce
<1>3. CASE \/ \E class \in Failed : FinalizeTree(class)
           \/ \E state \in RunState : RollUp(state)
  <2>1. /\ parent'.tokens = counted /\ parent'.settled = TRUE
        /\ charged' = IF parent.settled THEN charged ELSE charged + counted
    BY <1>3, FinalizeFacts, RollUpFacts
  <2>2. charged' <= paid'
    BY <1>1, <2>1
  <2> QED BY <1>1, <2>1, <2>2 DEF ChargedOnce
<1> QED BY <1>2, <1>3

-----------------------------------------------------------------------------
(* Usage: the steps.                                                       *)

\* Steps that move the body, and no money.
LEMMA MoneyOfBody ==
  ASSUME TypeOK, TypeOK', Coverage, SurveyRests, PaidIsCounted, ChargedOnce,
         \/ LinkRun \/ SealPlan \/ CreatePlan \/ AddSurveyItem \/ ReturnPlan
         \/ StartSurvey \/ SurveyDone \/ SaveDedupe \/ FailRun \/ AcceptRun
         \/ MainIsStopped \/ FinalizeRun \/ SettleFailedRun \/ MainFaults
  PROVE  PaidIsCounted' /\ ChargedOnce'
<1> USE DEF tree, money, world, bounds, usage, Goto
<1>1. /\ main \in Main /\ faults \in Nat /\ parent \in Parent
      /\ Agents' = Agents /\ paid \in Nat
  BY DeepReviewAssumption DEF TypeOK, Agents, FileAgents, Survey
<1>2. counted' = counted /\ paid' = paid /\ lost' = lost
  <2>1. ASSUME NEW class, FinalizeTree(class) PROVE counted' = counted
    BY <2>1 DEF FinalizeTree, RollUp
  <2>2. CASE FinalizeRun
    BY <2>1, <2>2 DEF FinalizeRun
  <2>3. CASE \/ LinkRun \/ SealPlan \/ CreatePlan \/ AddSurveyItem \/ ReturnPlan
             \/ StartSurvey \/ SurveyDone
    BY <2>3 DEF LinkRun, SealPlan, CreatePlan, AddSurveyItem, ReturnPlan, StartSurvey,
                SurveyDone
  <2>4. CASE SaveDedupe \/ FailRun \/ AcceptRun \/ MainIsStopped \/ SettleFailedRun
    BY <2>4 DEF SaveDedupe, FailRun, AcceptRun, MainIsStopped, SettleFailedRun
  <2>5. CASE MainFaults
    BY <2>5 DEF MainFaults, SealThrows, DedupeThrows, FinalizeThrows, MainCrashes,
                SealCrashesLate
  <2> QED BY <2>2, <2>3, <2>4, <2>5
<1>3. \A a \in Agents : Due(a)' = Due(a)
  <2>1. CASE StartSurvey
    <3>1. /\ agent' = [agent EXCEPT ![Survey] = Resting] /\ main.pc = "agents"
          /\ \A a \in 1..main.files : agent[a].done
      BY <2>1 DEF StartSurvey, FilesDone
    <3>2. agent[Survey].pc = "rest"
      <4>1. CASE main.files # Survey
        BY <3>1, <4>1 DEF SurveyRests
      <4>2. CASE main.files = Survey
        <5>1. agent[Survey].done
          BY <3>1, <4>2, AgentFacts
        <5> QED BY <5>1, AgentFacts DEF Coverage, AgentsCloseTheirItems
      <4> QED BY <4>1, <4>2
    <3>3. \A a \in Agents : a # Survey => agent'[a] = agent[a]
      BY <3>1 DEF TypeOK
    <3>4. agent'[Survey].pc = "rest"
      BY <3>1, AgentFacts DEF TypeOK, Resting
    <3> QED BY <3>2, <3>3, <3>4 DEF Due
  <2>2. CASE ~StartSurvey
    <3>1. agent' = agent
      BY <2>2 DEF LinkRun, SealPlan, CreatePlan, AddSurveyItem, ReturnPlan, SurveyDone,
                  SaveDedupe, FailRun, AcceptRun, MainIsStopped, FinalizeRun, SettleFailedRun,
                  MainFaults, SealThrows, DedupeThrows, FinalizeThrows, MainCrashes,
                  SealCrashesLate
    <3> QED BY <3>1 DEF Due
  <2> QED BY <2>1, <2>2
<1>4. /\ DueForDedupe' <= DueForDedupe
      /\ faults' = 0 => faults = 0 /\ DueForDedupe' = DueForDedupe
  <2>1. DueForDedupe \in Nat /\ DueForDedupe' \in Nat
    BY DEF TypeOK, Main, Dedupe, DueForDedupe
  <2>2. CASE SaveDedupe
    <3>1. main.pc = "dedupeSave" /\ main'.pc = "dedupePersist"
          /\ dedupe'.status = "running" /\ dedupe'.used = main.used
          /\ faults' = faults
      BY <1>1, <2>2 DEF SaveDedupe, Main
    <3>2. DueForDedupe' = DueForDedupe
      BY <3>1 DEF DueForDedupe
    <3> QED BY <2>1, <3>1, <3>2
  <2>3. CASE \/ LinkRun \/ SealPlan \/ CreatePlan \/ AddSurveyItem \/ ReturnPlan
             \/ StartSurvey \/ SurveyDone \/ FailRun \/ AcceptRun \/ MainIsStopped
             \/ FinalizeRun \/ SettleFailedRun
    <3>1. /\ main.pc # "dedupeSave" /\ main'.pc # "dedupeSave" /\ dedupe' = dedupe
      BY <1>1, <2>3 DEF LinkRun, SealPlan, ReadPlan, FindNoPlan, CreatePlan, AddSurveyItem,
           ReturnPlan, StartSurvey, SurveyDone, FailRun, AcceptRun, MainIsStopped, FinalizeRun,
           SettleFailedRun, ReturnTo, Replayed, Main
    <3>2. DueForDedupe' = DueForDedupe
      BY <3>1 DEF DueForDedupe
    <3>3. faults' = faults \/ Fault
      BY <2>3 DEF LinkRun, SealPlan, CreatePlan, AddSurveyItem, ReturnPlan, StartSurvey,
           SurveyDone, FailRun, AcceptRun, MainIsStopped, FinalizeRun, SettleFailedRun, ReturnTo
    <3>4. faults' = 0 => faults = 0
      BY <3>3, FaultFacts
    <3> QED BY <2>1, <3>2, <3>4
  <2>4. CASE MainFaults
    <3>1. faults' # 0 /\ dedupe' = dedupe /\ main'.pc # "dedupeSave"
          /\ (main.pc = "dedupeSave" => dedupe.status = "absent")
      BY <1>1, <2>4, FaultFacts
         DEF MainFaults, SealThrows, DedupeThrows, FinalizeThrows, MainCrashes,
             SealCrashesLate, Crashes, Replayed, Main, Coverage, StagesAreInOrder
    <3>2. DueForDedupe' <= DueForDedupe
      <4>1. CASE main.pc = "dedupeSave"
        <5>1. DueForDedupe' = 0
          BY <3>1, <4>1 DEF DueForDedupe
        <5> QED BY <2>1, <5>1
      <4>2. CASE main.pc # "dedupeSave"
        <5>1. DueForDedupe' = DueForDedupe
          BY <3>1, <4>2 DEF DueForDedupe
        <5> QED BY <2>1, <5>1
      <4> QED BY <4>1, <4>2
    <3> QED BY <3>1, <3>2
  <2> QED BY <2>2, <2>3, <2>4
<1>5. PaidIsCounted'
  BY <1>2, <1>3, <1>4, NothingIsPaid
<1>6. ChargedOnce'
  <2>1. CASE SettleFailedRun
    BY <1>2, <2>1, ChargeOfSettle DEF SettleFailedRun
  <2>2. CASE FinalizeRun /\ ~PartitionError
    <3>1. \E class \in Failed : FinalizeTree(class)
      BY <2>2 DEF FinalizeRun, Failed
    <3> QED BY <1>2, <3>1, ChargeOfSettle
  <2>3. CASE ~SettleFailedRun /\ ~(FinalizeRun /\ ~PartitionError)
    <3>1. /\ charged' = charged /\ parent'.tokens = parent.tokens
          /\ parent'.settled = parent.settled
      <4>1. CASE SealPlan
        BY <4>1 DEF SealPlan, ReadPlan, FindNoPlan
      <4>7. CASE CreatePlan
        BY <1>1, <4>7 DEF CreatePlan, Parent
      <4>5. CASE FailRun
        BY <1>1, <4>5 DEF FailRun, Parent
      <4>6. CASE AcceptRun
        BY <1>1, <4>6 DEF AcceptRun, Accept, Parent
      <4>2. CASE \/ LinkRun \/ AddSurveyItem \/ ReturnPlan \/ StartSurvey \/ SurveyDone
                 \/ SaveDedupe \/ MainIsStopped
        BY <4>2 DEF LinkRun, AddSurveyItem, ReturnPlan, StartSurvey, SurveyDone, SaveDedupe,
                    MainIsStopped
      <4>3. CASE FinalizeRun /\ PartitionError
        BY <4>3 DEF FinalizeRun
      <4>4. CASE MainFaults
        BY <4>4 DEF MainFaults, SealThrows, DedupeThrows, FinalizeThrows, MainCrashes,
                    SealCrashesLate
      <4> QED BY <2>3, <4>1, <4>2, <4>3, <4>4, <4>5, <4>6, <4>7
    <3>2. paid' >= paid
      BY <1>1, <1>2
    <3> QED BY <3>1, <3>2, ChargeStays
  <2> QED BY <2>1, <2>2, <2>3
<1> QED BY <1>5, <1>6

\* The dedupe's call is paid, and counted when its result is there.
LEMMA MoneyOfDedupe ==
  ASSUME TypeOK, TypeOK', Coverage, PaidIsCounted, ChargedOnce,
         DedupeFindings \/ PersistDedupe
  PROVE  PaidIsCounted' /\ ChargedOnce'
<1> USE DEF tree, money, world, bounds, usage, Goto
<1>1. /\ main \in Main /\ faults \in Nat /\ counted \in Nat /\ paid \in Nat /\ lost \in Nat
      /\ dedupe \in Dedupe
      /\ parent' = parent /\ charged' = charged /\ agent' = agent
  <2>1. faults \in Nat
    BY DeepReviewAssumption DEF TypeOK
  <2>2. parent' = parent /\ charged' = charged /\ agent' = agent
    BY DEF DedupeFindings, PersistDedupe
  <2> QED BY <2>1, <2>2 DEF TypeOK
<1>2. /\ \A a \in Agents : Due(a)' = Due(a) /\ Due(a) \in Nat
      /\ Survey \in Agents
  BY <1>1, AgentFacts DEF Due, TypeOK, Agent
<1>3. CASE PersistDedupe
  <2>1. /\ main.pc = "dedupePersist" /\ main'.pc # "dedupeSave"
        /\ dedupe.status = "running" /\ dedupe'.status = "completed"
        /\ counted' = counted + dedupe.used /\ paid' = paid /\ lost' = lost
    BY <1>1, <1>3 DEF PersistDedupe, ReturnTo, Main, Dedupe, Coverage, StagesAreInOrder
  <2>2. DueForDedupe = dedupe.used /\ DueForDedupe' = 0 /\ dedupe.used \in Nat
    BY <1>1, <2>1 DEF DueForDedupe, Dedupe
  <2>3. counted' + Due(Survey)' + DueForDedupe' + lost' + paid
          = counted + Due(Survey) + DueForDedupe + lost + paid'
    BY <1>1, <1>2, <2>1, <2>2
  <2>4. counted' + Due(Survey)' + DueForDedupe' + lost' + paid
          <= counted + Due(Survey) + DueForDedupe + lost + paid'
    BY <1>1, <1>2, <2>1, <2>2
  <2>5. faults' = 0 => faults = 0
    BY <1>3, FaultFacts DEF PersistDedupe, ReturnTo
  <2>6. PaidIsCounted'
    BY <1>2, <2>3, <2>4, <2>5, Balance
  <2>7. paid' >= paid
    BY <1>1, <2>1
  <2> QED BY <1>1, <2>6, <2>7, ChargeStays
<1>4. CASE DedupeFindings
  <2>1. main.pc = "dedupe" /\ counted' = counted /\ dedupe' = dedupe /\ faults' = faults
    BY <1>4 DEF DedupeFindings
  <2>2. CASE dedupe.status \in {"completed", "running"}
    <3>1. main'.pc # "dedupeSave" /\ paid' = paid /\ lost' = lost
      BY <1>1, <1>4, <2>2 DEF DedupeFindings, Main
    <3>2. DueForDedupe' = DueForDedupe /\ DueForDedupe \in Nat
      BY <1>1, <2>1, <3>1 DEF DueForDedupe, Dedupe, Main
    <3>3. DueForDedupe' <= DueForDedupe /\ paid' >= paid
      BY <1>1, <3>1, <3>2
    <3>4. PaidIsCounted'
      BY <1>2, <2>1, <3>1, <3>2, <3>3, NothingIsPaid
    <3> QED BY <1>1, <3>3, <3>4, ChargeStays
  <2>3. CASE dedupe.status \notin {"completed", "running"}
    <3> DEFINE Bill(due, gone) ==
                 /\ paid' = paid + due + gone /\ lost' = lost + gone
                 /\ main' = [main EXCEPT !.pc = "dedupeSave", !.used = due]
    <3>1. \E due, gone \in Nat : Bill(due, gone)
      <4>1. \/ \E used \in Cost :
                 /\ paid' = paid + used /\ lost' = lost
                 /\ main' = [main EXCEPT !.pc = "dedupeSave", !.used = used]
            \/ \E used \in Unreported :
                 /\ paid' = paid + used /\ lost' = lost + used
                 /\ main' = [main EXCEPT !.pc = "dedupeSave", !.used = 0]
        BY <1>4, <2>3 DEF DedupeFindings
      <4>2. ASSUME NEW used \in Cost, paid' = paid + used, lost' = lost,
                   main' = [main EXCEPT !.pc = "dedupeSave", !.used = used]
            PROVE  used \in Nat /\ Bill(used, 0)
        <5>1. used \in Nat /\ paid + used + 0 = paid + used /\ lost + 0 = lost
          BY <1>1, DeepReviewAssumption
        <5> QED BY <4>2, <5>1
      <4>3. ASSUME NEW used \in Unreported, paid' = paid + used, lost' = lost + used,
                   main' = [main EXCEPT !.pc = "dedupeSave", !.used = 0]
            PROVE  used \in Nat /\ Bill(0, used)
        <5>1. used \in Nat /\ paid + 0 + used = paid + used
          BY <1>1, UnreportedFacts
        <5> QED BY <4>3, <5>1
      <4> HIDE DEF Bill
      <4> QED BY <4>1, <4>2, <4>3
    <3> PICK due \in Nat, gone \in Nat : Bill(due, gone)
      BY <3>1
    <3>2. DueForDedupe = 0 /\ DueForDedupe' = due
      BY <1>1, <2>1, <2>3 DEF DueForDedupe, Main
    <3>3. counted' + Due(Survey)' + DueForDedupe' + lost' + paid
            = counted + Due(Survey) + DueForDedupe + lost + paid'
      BY <1>1, <1>2, <2>1, <3>2
    <3>4. counted' + Due(Survey)' + DueForDedupe' + lost' + paid
            <= counted + Due(Survey) + DueForDedupe + lost + paid'
      BY <1>1, <1>2, <2>1, <3>2
    <3>5. PaidIsCounted'
      BY <1>2, <2>1, <3>3, <3>4, Balance
    <3>6. paid' >= paid
      BY <1>1
    <3> QED BY <1>1, <3>5, <3>6, ChargeStays
  <2> QED BY <2>2, <2>3
<1> QED BY <1>3, <1>4

\* The turns of an agent pay, and count what they have paid.
LEMMA MoneyOfTurns ==
  ASSUME TypeOK, TypeOK', Coverage, PaidIsCounted, ChargedOnce,
         NEW a \in Agents, TurnNext(a) \/ TurnFaults(a)
  PROVE  PaidIsCounted' /\ ChargedOnce'
<1> USE DEF tree, money, world, bounds, usage
<1>1. /\ counted \in Nat /\ paid \in Nat /\ lost \in Nat /\ agent[a] \in Agent
      /\ agent'[a] \in Agent /\ DueForDedupe \in Nat /\ main \in Main
  <2>1. Agents' = Agents
    BY DEF Agents, FileAgents, Survey
  <2>2. agent'[a] \in Agent
    BY <2>1 DEF TypeOK
  <2> QED BY <2>2 DEF TypeOK, Main, Dedupe, DueForDedupe
<1>2. /\ parent' = parent /\ charged' = charged /\ dedupe' = dedupe
      /\ faults' = 0 => faults = 0
  <2>1. parent' = parent /\ charged' = charged /\ dedupe' = dedupe
    BY DEF TurnNext, TurnFaults, TurnReads, TurnCallsModel, TurnFails, TurnCounts,
           TurnCloses, TurnCrashes, TurnThrows
  <2>2. faults' = faults \/ Fault
    BY DEF TurnNext, TurnFaults, TurnReads, TurnCallsModel, TurnFails, TurnCounts,
           TurnCloses, TurnCrashes, TurnThrows, CloseReturns, Restart
  <2> QED BY <2>1, <2>2, FaultFacts
<1>3. DueForDedupe' = DueForDedupe
  <2>1. main' = main \/ (main.pc # "dedupeSave" /\ main'.pc # "dedupeSave")
    BY <1>1 DEF TurnNext, TurnFaults, TurnReads, TurnCallsModel, TurnFails, TurnCounts,
           TurnCloses, TurnCrashes, TurnThrows, Main
  <2> QED BY <1>2, <2>1 DEF DueForDedupe
<1>4. \A b \in Agents : b # a => Due(b)' = Due(b)
  <2>1. \A b \in Agents : b # a => agent'[b] = agent[b]
    BY DEF TurnNext, TurnFaults, TurnReads, TurnCallsModel, TurnFails, TurnCounts,
           TurnCloses, TurnCrashes, TurnThrows, CloseReturns, Restart, TypeOK
  <2> QED BY <2>1 DEF Due
<1>5. /\ counted' \in Nat /\ paid' \in Nat /\ lost' \in Nat /\ paid' >= paid
      /\ counted' + Due(a)' + lost' + paid <= counted + Due(a) + lost + paid'
      /\ faults' = 0 => counted' + Due(a)' + lost' + paid = counted + Due(a) + lost + paid'
  <2>1. Due(a) \in Nat /\ Due(a)' \in Nat
    BY <1>1 DEF Due, Agent
  <2>2. CASE TurnCallsModel(a)
    <3>1. PICK used \in Cost, wasted \in Unreported :
            /\ paid' = paid + used + wasted /\ lost' = lost + wasted
            /\ agent' = [agent EXCEPT ![a].pc = "count", ![a].used = used]
      BY <2>2 DEF TurnCallsModel
    <3>2. used \in Nat /\ wasted \in Nat
      BY DeepReviewAssumption, UnreportedFacts
    <3>3. Due(a) = 0 /\ counted' = counted
      BY <2>2 DEF TurnCallsModel, Due
    <3>4. Due(a)' = used
      BY <1>1, <3>1 DEF Due, TypeOK, Agent
    <3> QED BY <1>1, <3>1, <3>2, <3>3, <3>4
  <2>3. CASE TurnCounts(a)
    <3>1. /\ agent[a].pc = "count" /\ counted' = counted + agent[a].used
          /\ paid' = paid /\ lost' = lost
      BY <2>3 DEF TurnCounts
    <3>2. agent'[a].pc # "count"
      <4> DEFINE rested == [agent[a] EXCEPT !.used = 0]
                 closed == [rested EXCEPT !.pc = "close", !.close = "completed"]
                 next == [rested EXCEPT !.pc = "rest", !.turn = @ + 1]
      <4>1. closed.pc = "close" /\ next.pc = "rest"
        BY <1>1 DEF Agent
      <4>2. \/ agent' = [agent EXCEPT ![a] = closed]
            \/ agent' = [agent EXCEPT ![a] = next]
        BY <2>3 DEF TurnCounts
      <4> HIDE DEF rested, closed, next
      <4> QED BY <4>1, <4>2 DEF TypeOK
    <3>3. Due(a) = agent[a].used /\ Due(a)' = 0
      BY <3>1, <3>2 DEF Due
    <3> QED BY <1>1, <2>1, <3>1, <3>3
  <2>4. CASE TurnFails(a)
    <3>1. PICK used \in Uncounted(a) :
            /\ paid' = IF agent[a].pc = "call" THEN paid + used ELSE paid
            /\ lost' = lost + used
      BY <2>4 DEF TurnFails
    <3>2. used \in Nat /\ (agent[a].pc # "call" => used = agent[a].used)
      BY <3>1, UnreportedFacts DEF Uncounted
    <3>3. counted' = counted /\ Due(a)' = 0
      BY <2>4 DEF TurnFails, Due, TypeOK
    <3>4. agent[a].pc \in {"call", "count", "close"}
      BY <2>4 DEF TurnFails
    <3>5. agent[a].pc = "close" => agent[a].used = 0
      BY DEF Coverage, AgentsCloseTheirItems
    <3>6. Due(a) = IF agent[a].pc = "call" THEN 0 ELSE used
      <4>1. CASE agent[a].pc = "count"
        BY <3>2, <4>1 DEF Due
      <4>2. CASE agent[a].pc # "count"
        BY <3>2, <3>4, <3>5, <4>2 DEF Due
      <4> QED BY <4>1, <4>2
    <3> QED BY <1>1, <3>1, <3>2, <3>3, <3>6
  <2>5. CASE TurnReads(a) \/ TurnCloses(a) \/ TurnThrows(a)
    <3>1. agent[a].pc # "count" /\ counted' = counted /\ paid' = paid /\ lost' = lost
      BY <2>5 DEF TurnReads, MayTakeTurn, TurnCloses, TurnThrows
    <3>2. agent'[a].pc # "count"
      BY <1>1, <2>5 DEF TurnReads, TurnCloses, TurnThrows, CloseReturns, Restart,
                        Resting, TypeOK, Agent
    <3>3. Due(a) = 0 /\ Due(a)' = 0
      BY <3>1, <3>2 DEF Due
    <3> QED BY <1>1, <3>1, <3>3
  <2>6. CASE TurnCrashes(a)
    <3>1. counted' = counted /\ paid' = paid /\ lost' = lost /\ faults' # 0
      BY <2>6, FaultFacts DEF TurnCrashes, Restart
    <3>2. agent'[a].pc = "rest"
      BY <2>6 DEF TurnCrashes, Restart, Resting, TypeOK
    <3>3. Due(a)' = 0
      BY <3>2 DEF Due
    <3> QED BY <1>1, <2>1, <3>1, <3>3
  <2> QED BY <2>2, <2>3, <2>4, <2>5, <2>6 DEF TurnNext, TurnFaults
<1>6. Due(a) \in Nat /\ Due(a)' \in Nat
  BY <1>1 DEF Due, Agent
<1>7. counted' + Due(a)' + DueForDedupe' + lost' + paid
        <= counted + Due(a) + DueForDedupe + lost + paid'
  BY <1>1, <1>3, <1>5, <1>6
<1>8. faults' = 0 =>
        /\ faults = 0
        /\ counted' + Due(a)' + DueForDedupe' + lost' + paid
             = counted + Due(a) + DueForDedupe + lost + paid'
  BY <1>1, <1>2, <1>3, <1>5, <1>6
<1>9. PaidIsCounted'
  BY <1>4, <1>7, <1>8, Balance
<1> QED BY <1>2, <1>5, <1>9, ChargeStays

\* A request charges what is counted, or what the row shows.
LEMMA MoneyOfRequests ==
  ASSUME TypeOK, TypeOK', Coverage, PaidIsCounted, ChargedOnce,
         NEW c \in Cancellers, CancelNext(c)
  PROVE  PaidIsCounted' /\ ChargedOnce'
<1> USE DEF tree, money, run, bounds, usage
<1>1. paid \in Nat /\ parent \in Parent
  BY DEF TypeOK
<1>2. /\ main' = main /\ dedupe' = dedupe /\ agent' = agent /\ faults' = faults
      /\ counted' = counted /\ paid' = paid /\ lost' = lost
  BY DEF CancelNext, CancelKills, CancelWrites, CancelClosesTree, CancelClosesItems,
         CancelSweeps, CancelReadsCoverage, CancelFinalizes,
         CancelAccepts, CancelSettles, RollUp
<1>3. \A a \in Agents : Due(a)' = Due(a)
  BY <1>2 DEF Due
<1>4. DueForDedupe' = DueForDedupe /\ DueForDedupe \in Nat
  BY <1>2 DEF DueForDedupe, TypeOK, Main, Dedupe
<1>5. DueForDedupe' <= DueForDedupe
  BY <1>4
<1>6. PaidIsCounted'
  BY <1>2, <1>3, <1>4, <1>5, NothingIsPaid
<1>7. CASE CancelFinalizes(c)
  <2>1. RollUp(closing.state) /\ closing.state \in RunState
    BY <1>7 DEF CancelFinalizes, Coverage, RequestsHoldTheTree, RunState
  <2> QED BY <1>2, <1>6, <2>1, ChargeOfSettle
<1>8. CASE CancelSettles(c)
  BY <1>2, <1>6, <1>8, ChargeOfSettle DEF CancelSettles
<1>9. CASE \/ CancelKills(c) \/ CancelWrites(c) \/ CancelClosesTree(c) \/ CancelAccepts(c)
           \/ CancelClosesItems(c) \/ CancelSweeps(c) \/ CancelReadsCoverage(c)
  <2>1. /\ charged' = charged /\ parent'.tokens = parent.tokens
        /\ parent'.settled = parent.settled
    BY <1>1, <1>9 DEF CancelKills, CancelWrites, CancelClosesTree, CancelClosesItems,
                      CancelSweeps, CancelReadsCoverage, CancelAccepts, Accept, Parent
  <2>2. paid' >= paid
    BY <1>1, <1>2
  <2> QED BY <1>6, <2>1, <2>2, ChargeStays
<1> QED BY <1>7, <1>8, <1>9 DEF CancelNext

-----------------------------------------------------------------------------
(* Usage: a run that nothing disturbs.                                     *)

\* A step of a run that is still undisturbed is neither a fault nor a request's.
LEMMA DisturbancesStay ==
  ASSUME TypeOK, Next, Undisturbed'
  PROVE  /\ Undisturbed /\ ~MainFaults
         /\ \A c \in Cancellers : ~CancelNext(c)
         /\ cancel' = cancel /\ ~Fault
<1> USE DEF run, world, bounds
<1>1. ~Fault /\ ~LateFault
  BY FaultFacts
<1>2. ~MainFaults
  BY <1>1 DEF MainFaults, SealThrows, DedupeThrows, FinalizeThrows, MainCrashes,
              SealCrashesLate
<1>3. \A c \in Cancellers : ~CancelNext(c)
  <2> SUFFICES ASSUME NEW c \in Cancellers, CancelNext(c) PROVE cancel'[c] # "read"
    BY DEF Undisturbed, CancelBegun
  <2> QED BY DEF CancelNext, CancelKills, CancelWrites, CancelClosesTree, CancelClosesItems,
         CancelSweeps, CancelReadsCoverage, CancelFinalizes,
                 CancelAccepts, CancelSettles, TypeOK
<1>4. CASE MainNext
  <2>1. cancel' = cancel /\ (faults' = faults \/ Fault)
    BY <1>4 DEF MainNext, LinkRun, SealPlan, CreatePlan, AddSurveyItem, ReturnPlan, StartSurvey,
         SurveyDone, DedupeFindings, SaveDedupe, PersistDedupe, FinalizeRun, AcceptRun,
         FailRun, SettleFailedRun, MainIsStopped, ReturnTo
  <2> QED BY <1>1, <1>2, <1>3, <2>1 DEF Undisturbed, CancelBegun
<1>5. ASSUME NEW a \in Agents, TurnNext(a) \/ TurnFaults(a)
      PROVE  Undisturbed /\ cancel' = cancel
  <2>1. cancel' = cancel /\ (faults' = faults \/ Fault)
    BY <1>5 DEF TurnNext, TurnFaults, TurnReads, TurnCallsModel, TurnFails, TurnCounts,
           TurnCloses, TurnCrashes, TurnThrows, CloseReturns, Restart
  <2> QED BY <1>1, <2>1 DEF Undisturbed, CancelBegun
<1> QED BY <1>1, <1>2, <1>3, <1>4, <1>5 DEF Next

\* What the journal says of the plan of an undisturbed run, and of its agents.
LEMMA UndisturbedFacts ==
  ASSUME TypeOK, Coverage, UndisturbedStages
  PROVE  /\ main.sealed => /\ main.files = NFiles /\ main.survey
                           /\ main.count = Survey /\ Cardinality(Planned) = Survey
         /\ main.pc \in Reviewing \union Closing => main.sealed
         /\ main.pc \in {"finalize", "accept"} =>
              \A a \in Agents : agent[a].done /\ agent[a].pc = "rest"
         /\ PlanRead => NFiles # 0 /\ main.files = NFiles
<1>1. NFiles # 0
  BY AgentFacts
<1>2. main.pc \in Reviewing \union Closing => main.sealed
  BY DEF Coverage, StagesAreInOrder
<1>3. ASSUME main.sealed
      PROVE  /\ main.files = NFiles /\ main.survey
             /\ main.count = Survey /\ Cardinality(Planned) = Survey
  <2>1. main.files = NFiles
    BY <1>3 DEF UndisturbedStages, PlanRead
  <2>2. /\ main.survey /\ main.count = main.files + 1
        /\ \A a \in FileAgents : items[a] # "absent"
        /\ items[Survey] # "absent"
    BY <1>1, <1>3, <2>1 DEF Coverage, PlanIsRead, PlanRead
  <2>3. main.count = Survey
    BY <2>1, <2>2 DEF Survey
  <2> QED BY <2>1, <2>2, <2>3, PlannedFacts
<1>4. main.pc \in {"finalize", "accept"} =>
        \A a \in Agents : agent[a].done /\ agent[a].pc = "rest"
  BY <1>2, <1>3 DEF Coverage, StagesAreWaitedFor, Behind, Closing, UndisturbedStages,
                    AgentsCloseTheirItems
<1> QED BY <1>1, <1>2, <1>3, <1>4 DEF UndisturbedStages

\* Its body goes from stage to stage.
LEMMA StagesOfBody ==
  ASSUME TypeOK, Coverage, UndisturbedStages,
         \/ LinkRun \/ SealPlan \/ CreatePlan \/ AddSurveyItem \/ ReturnPlan \/ StartSurvey
         \/ SurveyDone \/ DedupeFindings \/ SaveDedupe \/ PersistDedupe,
         ~Fault
  PROVE  UndisturbedStages'
<1> USE DEF tree, money, world, bounds, usage, Goto
<1>1. /\ main \in Main /\ Survey' = Survey /\ Agents' = Agents
      /\ items' = items => Planned' = Planned
  BY ItemsStay DEF TypeOK, Survey, Agents, FileAgents
<1> USE UndisturbedFacts DEF UndisturbedStages, PlanRead, Reviewing, Closing
<1>2. CASE LinkRun
  BY <1>1, <1>2 DEF LinkRun, Main, Coverage, StagesAreInOrder, Planning
<1>3. CASE SealPlan
  <2>1. main.pc = "seal" /\ ~main.sealed /\ Planned = {} /\ parent.terminalState = "none"
    BY <1>3 DEF SealPlan, Coverage, StagesAreInOrder, Planning
  <2>2. FindNoPlan
    BY <1>3, <2>1 DEF SealPlan, ReadPlan, AlreadySealed
  <2>3. /\ main'.pc = "plan" /\ main'.sealed = main.sealed /\ main'.failure = main.failure
        /\ items' = items /\ parent' = parent
    BY <1>1, <2>2 DEF FindNoPlan, Main
  <2>4. UNCHANGED <<killed, agent>>
    BY <1>3 DEF SealPlan
  <2> QED BY <1>1, <2>1, <2>3, <2>4
<1>11. CASE CreatePlan
  <2>1. main.pc = "plan" /\ ~main.sealed
    BY <1>11 DEF CreatePlan, Coverage, StagesAreInOrder, Planning
  <2>2. /\ main'.pc = "surveyItem" /\ main'.sealed = main.sealed
        /\ main'.files = NFiles /\ main'.failure = main.failure
    BY <1>1, <1>11 DEF CreatePlan, Main
  <2>3. /\ items'[Survey] = "absent" /\ \A a \in Agents : items'[a] # "cancelled"
    BY <1>11, AgentFacts DEF CreatePlan
  <2>4. /\ parent'.status = "running" /\ parent'.terminalState = "none"
        /\ parent'.result = parent.result /\ parent'.settled = parent.settled
        /\ parent'.cancelledAt = parent.cancelledAt
    BY <1>11 DEF CreatePlan, TypeOK, Parent
  <2>5. UNCHANGED <<killed, agent>>
    BY <1>11 DEF CreatePlan
  <2> QED BY <1>1, <2>1, <2>2, <2>3, <2>4, <2>5
<1>4. CASE AddSurveyItem
  <2>1. main'.pc = "sealed" /\ main'.sealed = main.sealed /\ main'.files = main.files
        /\ main'.failure = main.failure /\ main.pc = "surveyItem"
    BY <1>1, <1>4 DEF AddSurveyItem, Main
  <2>2. \A a \in Agents : items'[a] # "cancelled"
    BY <1>4 DEF AddSurveyItem, TypeOK
  <2>3. UNCHANGED <<killed, agent, parent>>
    BY <1>4 DEF AddSurveyItem
  <2> QED BY <1>1, <2>1, <2>2, <2>3
<1>5. CASE ReturnPlan
  <2>1. /\ main.pc = "sealed" /\ main'.sealed = TRUE /\ main'.files = main.files
        /\ main'.failure = main.failure
        /\ main'.pc = IF main.files = 0 /\ ~main.survey THEN "finalize" ELSE "agents"
    BY <1>1, <1>5 DEF ReturnPlan, Main
  <2>2. main'.pc = "agents"
    BY <2>1
  <2> QED BY <1>1, <1>5, <2>1, <2>2 DEF ReturnPlan
<1>6. CASE StartSurvey
  <2>1. /\ main.pc = "agents" /\ main.sealed /\ main.survey
        /\ main' = [main EXCEPT !.pc = "survey"]
        /\ agent' = [agent EXCEPT ![Survey] = Resting]
        /\ UNCHANGED <<parent, items, charged, dedupe, killed, paid>>
    BY <1>6 DEF StartSurvey
  <2>2. /\ main'.sealed = main.sealed /\ main'.files = main.files
        /\ main'.failure = main.failure /\ main'.pc = "survey"
    BY <1>1, <2>1 DEF Main
  <2>3. \A a \in Agents : agent'[a].close \in {"none", "completed", "failed"}
    BY <2>1 DEF TypeOK, Resting
  <2> QED BY <1>1, <2>1, <2>2, <2>3
<1>7. CASE SurveyDone
  <2>1. /\ main.pc = "survey" /\ main.sealed
        /\ main' = [main EXCEPT !.pc = "dedupe"]
        /\ UNCHANGED <<parent, items, charged, dedupe, agent, killed, paid>>
    BY <1>7 DEF SurveyDone
  <2>2. /\ main'.sealed = main.sealed /\ main'.files = main.files
        /\ main'.failure = main.failure /\ main'.pc = "dedupe"
    BY <1>1, <2>1 DEF Main
  <2> QED BY <1>1, <2>1, <2>2
<1>8. CASE DedupeFindings
  <2>1. /\ main.pc = "dedupe" /\ main.sealed
        /\ UNCHANGED <<parent, items, charged, dedupe, agent, killed>>
    BY <1>8 DEF DedupeFindings
  <2>2. /\ main'.sealed = main.sealed /\ main'.files = main.files
        /\ main'.failure = main.failure
        /\ main'.pc \in {"finalize", "dedupePersist", "dedupeSave"}
        /\ main'.pc = "finalize" => dedupe.status = "completed"
    BY <1>1, <1>8 DEF DedupeFindings, Main
  <2> QED BY <1>1, <2>1, <2>2
<1>9. CASE SaveDedupe
  <2>1. /\ main.pc = "dedupeSave" /\ main.sealed
        /\ UNCHANGED <<parent, items, charged, agent, killed>>
        /\ main'.sealed = main.sealed /\ main'.files = main.files
        /\ main'.failure = main.failure /\ main'.pc = "dedupePersist"
    BY <1>1, <1>9 DEF SaveDedupe, Main
  <2> QED BY <1>1, <2>1
<1>10. CASE PersistDedupe
  <2>1. /\ main.pc = "dedupePersist" /\ main.sealed
        /\ UNCHANGED <<parent, items, charged, agent, killed>>
        /\ main'.sealed = main.sealed /\ main'.files = main.files
        /\ main'.failure = main.failure /\ main'.pc = "finalize"
        /\ dedupe'.status = "completed"
    BY <1>1, <1>10 DEF PersistDedupe, ReturnTo, Main, TypeOK, Dedupe
  <2> QED BY <1>1, <2>1
<1> QED BY <1>2, <1>3, <1>4, <1>5, <1>6, <1>7, <1>8, <1>9, <1>10, <1>11

\* It finalizes once, when all is counted, and accepts the result.
LEMMA StagesOfClosing ==
  ASSUME TypeOK, Coverage, PaidIsCounted, ChargedOnce, Undisturbed, UndisturbedStages,
         FinalizeRun \/ AcceptRun \/ FailRun \/ SettleFailedRun \/ MainIsStopped,
         ~Fault
  PROVE  UndisturbedStages'
<1> USE DEF tree, money, world, bounds, usage, Goto
<1>1. main \in Main /\ Survey' = Survey /\ Agents' = Agents
  BY DEF TypeOK, Survey, Agents, FileAgents
<1>2. ~FailRun /\ ~SettleFailedRun /\ ~MainIsStopped
  BY DEF FailRun, SettleFailedRun, MainIsStopped, UndisturbedStages
<1>3. CASE FinalizeRun
  <2>1. main.pc = "finalize" /\ main.sealed /\ ~main.failure /\ dedupe.status = "completed"
    BY <1>3, UndisturbedFacts DEF FinalizeRun, UndisturbedStages, Reviewing, Closing
  <2>2. ~PartitionError /\ \A a \in Agents : agent[a].done /\ agent[a].pc = "rest"
    BY <2>1, UndisturbedFacts DEF PartitionError
  <2>3. /\ FinalizeTree("swept") /\ "swept" \in Failed
        /\ main' = [main EXCEPT !.pc = "accept"]
        /\ UNCHANGED <<dedupe, agent, linked, killed, cancel, faults, paid, lost>>
    BY <1>3, <2>1, <2>2 DEF FinalizeRun, Failed
  <2>4. /\ main'.sealed = main.sealed /\ main'.files = main.files
        /\ main'.failure = main.failure /\ main'.pc = "accept"
    BY <1>1, <2>3 DEF Main
  <2>5. /\ \A a \in Agents :
             items'[a] = IF items[a] = "selected" THEN "swept" ELSE items[a]
        /\ parent'.cancelledAt = parent.cancelledAt /\ parent'.result = parent.result
        /\ parent'.status = parent.status /\ parent'.settled = TRUE
        /\ charged' = IF parent.settled THEN charged ELSE charged + counted
    BY <2>3, FinalizeFacts
  <2>6. ~parent.settled /\ charged = 0
    BY <2>1 DEF UndisturbedStages, ChargedOnce
  <2>7. counted + lost = paid
    <3>1. DueForDedupe = 0
      BY <2>1 DEF DueForDedupe
    <3> QED BY <2>2, <3>1, CountedIsPaid DEF Undisturbed
  <2>8. charged' + lost' = paid'
    <3>1. charged' = charged + counted /\ counted \in Nat /\ paid' = paid /\ lost' = lost
      BY <2>3, <2>5, <2>6 DEF TypeOK
    <3> QED BY <2>6, <2>7, <3>1
  <2>9. \A a \in Agents : items'[a] # "cancelled"
    BY <2>5 DEF UndisturbedStages
  <2> QED BY <1>1, <2>1, <2>2, <2>3, <2>4, <2>5, <2>8, <2>9
          DEF UndisturbedStages, PlanRead, Closing
<1>4. CASE AcceptRun /\ ~Fault
  <2>1. main.pc = "accept" /\ main.sealed /\ ~parent.result /\ parent.status # "cancelled"
        /\ UNCHANGED <<items, charged, dedupe, agent, killed, paid, lost>>
        /\ main' = [main EXCEPT !.pc = "ended"]
    BY <1>4, UndisturbedFacts DEF AcceptRun, ReturnTo, UndisturbedStages, Reviewing, Closing
  <2>2. /\ main'.sealed = main.sealed /\ main'.files = main.files
        /\ main'.failure = main.failure /\ main'.pc = "ended"
    BY <1>1, <2>1 DEF Main
  <2>3. /\ parent'.status = "completed" /\ parent'.result = TRUE
        /\ parent'.settled = parent.settled /\ parent'.cancelledAt = parent.cancelledAt
    BY <1>4, <2>1 DEF AcceptRun, Accept, TypeOK, Parent
  <2> QED BY <1>1, <2>1, <2>2, <2>3 DEF UndisturbedStages, PlanRead, Closing
<1> QED BY <1>2, <1>3, <1>4

\* Its agents take their turns while it reviews.
LEMMA StagesOfTurns ==
  ASSUME TypeOK, Coverage, UndisturbedStages, NEW a \in Agents,
         TurnNext(a) \/ TurnFaults(a), ~Fault
  PROVE  UndisturbedStages'
<1> USE DEF tree, money, world, usage
<1>1. Survey' = Survey /\ Agents' = Agents
  BY DEF Survey, Agents, FileAgents
<1>2. TurnNext(a)
  BY DEF TurnFaults, TurnCrashes, Restart, TurnThrows
<1>3. UNCHANGED <<main, parent, charged, dedupe, killed>>
  BY <1>2 DEF TurnNext, TurnReads, TurnCallsModel, TurnFails, TurnCounts, TurnCloses
<1>4. MayTakeTurn(a) \/ agent[a].pc \notin {"rest", "dead"}
  BY <1>2 DEF TurnNext, TurnReads, TurnCallsModel, TurnFails, TurnCounts, TurnCloses
<1>5. main.sealed /\ ~agent[a].done
  BY <1>4, AgentsAreSealed DEF MayTakeTurn, Coverage, AgentsCloseTheirItems
<1>6. main.pc \notin {"accept", "ended"}
  BY <1>5 DEF UndisturbedStages
<1>7. main.pc # "surveyItem"
  BY <1>5 DEF Coverage, StagesAreInOrder, Planning
<1>8. \A b \in Agents : b # a => agent'[b] = agent[b] /\ items'[b] = items[b]
  <2>1. CASE TurnReads(a)
    BY <2>1 DEF TurnReads, TypeOK
  <2>2. CASE TurnCallsModel(a)
    BY <2>2 DEF TurnCallsModel, TypeOK
  <2>3. CASE TurnFails(a)
    BY <2>3 DEF TurnFails, TypeOK
  <2>4. CASE TurnCounts(a)
    <3>1. items' = items
      BY <2>4 DEF TurnCounts
    <3>2. \E next : agent' = [agent EXCEPT ![a] = next]
      <4> DEFINE rested == [agent[a] EXCEPT !.used = 0]
                 closed == [rested EXCEPT !.pc = "close", !.close = "completed"]
                 onward == [rested EXCEPT !.pc = "rest", !.turn = @ + 1]
      <4>1. \/ agent' = [agent EXCEPT ![a] = closed]
            \/ agent' = [agent EXCEPT ![a] = onward]
        BY <2>4 DEF TurnCounts
      <4> HIDE DEF rested, closed, onward
      <4> QED BY <4>1
    <3> QED BY <3>1, <3>2 DEF TypeOK
  <2>5. CASE TurnCloses(a)
    <3>1. CloseReturns(a)
      BY <2>5 DEF TurnCloses
    <3>2. items' = items \/ items' = [items EXCEPT ![a] = agent[a].close]
      BY <2>5 DEF TurnCloses
    <3>3. CASE agent' = [agent EXCEPT ![a] = [Resting EXCEPT !.done = TRUE]]
      BY <3>2, <3>3 DEF TypeOK
    <3> QED BY <3>1, <3>3 DEF CloseReturns, Restart
  <2> QED BY <1>2, <2>1, <2>2, <2>3, <2>4, <2>5 DEF TurnNext
<1>9. agent'[a].close \in {"none", "completed", "failed"}
  <2>1. agent[a].close \in {"none", "completed", "failed"} /\ agent[a] \in Agent
        /\ ~parent.cancelledAt
    BY DEF UndisturbedStages, TypeOK
  <2>2. CASE TurnReads(a)
    <3>1. \/ agent' = [agent EXCEPT ![a].pc = "close"]
          \/ agent' = [agent EXCEPT ![a].pc = "call"]
          \/ agent' = [agent EXCEPT ![a].pc = "close", ![a].close = "failed"]
      BY <2>1, <2>2 DEF TurnReads
    <3> QED BY <2>1, <3>1 DEF TypeOK, Agent
  <2>3. CASE TurnCallsModel(a)
    BY <2>1, <2>3 DEF TurnCallsModel, TypeOK, Agent
  <2>4. CASE TurnFails(a)
    BY <2>1, <2>4 DEF TurnFails, TypeOK, Agent
  <2>5. CASE TurnCounts(a)
    <3> DEFINE rested == [agent[a] EXCEPT !.used = 0]
               closed == [rested EXCEPT !.pc = "close", !.close = "completed"]
               next == [rested EXCEPT !.pc = "rest", !.turn = @ + 1]
    <3>1. closed.close = "completed" /\ next.close = agent[a].close
      BY <2>1 DEF Agent
    <3>2. \/ agent' = [agent EXCEPT ![a] = closed]
          \/ agent' = [agent EXCEPT ![a] = next]
      BY <2>5 DEF TurnCounts
    <3> HIDE DEF rested, closed, next
    <3> QED BY <2>1, <3>1, <3>2 DEF TypeOK
  <2>6. CASE TurnCloses(a)
    BY <2>6 DEF TurnCloses, CloseReturns, Restart, Resting, TypeOK
  <2> QED BY <1>2, <2>2, <2>3, <2>4, <2>5, <2>6 DEF TurnNext
<1>10. items'[a] # "cancelled"
  <2>1. items' = items \/ items' = [items EXCEPT ![a] = agent[a].close]
    BY <1>2 DEF TurnNext, TurnReads, TurnCallsModel, TurnFails, TurnCounts, TurnCloses
  <2> QED BY <2>1 DEF UndisturbedStages, TypeOK
<1> QED BY <1>1, <1>3, <1>5, <1>6, <1>7, <1>8, <1>9, <1>10 DEF UndisturbedStages, PlanRead

-----------------------------------------------------------------------------
(* The theorems.                                                           *)

\* Every step keeps the types.
LEMMA TypeStep ==
  ASSUME IInv, [Next]_vars
  PROVE  TypeOK'
<1> USE DEF IInv, Coverage
<1>1. CASE MainNext
  BY <1>1, TypeOfBody, TypeOfPlan, TypeOfParent DEF MainNext
<1>2. CASE MainFaults
  BY <1>2, TypeOfBody, TypeOfPlan DEF MainFaults
<1>3. ASSUME NEW a \in Agents, TurnNext(a) \/ TurnFaults(a) PROVE TypeOK'
  BY <1>3, TypeOfTurns
<1>4. ASSUME NEW c \in Cancellers, CancelNext(c) PROVE TypeOK'
  BY <1>4, TypeOfParent
<1>5. CASE UNCHANGED vars
  BY <1>5 DEF vars, TypeOK, Agents, FileAgents, Survey
<1> QED BY <1>1, <1>2, <1>3, <1>4, <1>5 DEF Next

\* Every step keeps what the rows tell.
LEMMA CoverageStep ==
  ASSUME TypeOK, Coverage, Next
  PROVE  Coverage'
<1>1. CASE MainNext
  <2>1. CASE FinalizeRun
    BY <2>1, CoverageOfBody, CoverageOfFinalizeRun
  <2>2. CASE ~FinalizeRun
    BY <1>1, <2>2, CoverageOfBody, CoverageOfSealing, CoverageOfCreation,
       CoverageOfSurveyItem, CoverageOfSurvey DEF MainNext
  <2> QED BY <2>1, <2>2
<1>2. CASE MainFaults
  BY <1>2, CoverageOfBody DEF MainFaults
<1>3. ASSUME NEW a \in Agents, TurnNext(a) \/ TurnFaults(a) PROVE Coverage'
  BY <1>3, CoverageOfTurn, CoverageOfClose, CoverageOfThrow DEF TurnNext, TurnFaults
<1>4. ASSUME NEW c \in Cancellers, CancelNext(c) PROVE Coverage'
  BY <1>4, CoverageOfCancel
<1> QED BY <1>1, <1>2, <1>3, <1>4 DEF Next

\* Every step keeps the account.
LEMMA UsageStep ==
  ASSUME TypeOK, TypeOK', Coverage, SurveyRests, Usage, Next
  PROVE  Usage'
<1>1. PaidIsCounted' /\ ChargedOnce'
  <2>1. CASE MainNext \/ MainFaults
    BY <2>1, MoneyOfBody, MoneyOfDedupe DEF Usage, MainNext
  <2>2. ASSUME NEW a \in Agents, TurnNext(a) \/ TurnFaults(a)
        PROVE  PaidIsCounted' /\ ChargedOnce'
    BY <2>2, MoneyOfTurns DEF Usage
  <2>3. ASSUME NEW c \in Cancellers, CancelNext(c)
        PROVE  PaidIsCounted' /\ ChargedOnce'
    BY <2>3, MoneyOfRequests DEF Usage
  <2> QED BY <2>1, <2>2, <2>3 DEF Next
<1>2. ASSUME Undisturbed' PROVE UndisturbedStages'
  <2>1. /\ Undisturbed /\ UndisturbedStages /\ ~MainFaults /\ ~Fault
        /\ \A c \in Cancellers : ~CancelNext(c)
    BY <1>2, DisturbancesStay DEF Usage
  <2>2. CASE MainNext
    BY <2>1, <2>2, StagesOfBody, StagesOfClosing DEF Usage, MainNext
  <2>3. ASSUME NEW a \in Agents, TurnNext(a) \/ TurnFaults(a) PROVE UndisturbedStages'
    BY <2>1, <2>3, StagesOfTurns
  <2> QED BY <2>1, <2>2, <2>3 DEF Next
<1> QED BY <1>1, <1>2 DEF Usage

\* Nothing is open, spent or disturbed at first.
LEMMA Initially == Init => IInv
<1> SUFFICES ASSUME Init PROVE IInv
  OBVIOUS
<1> USE DEF Init
<1>1. TypeOK
  <2>1. Resting \in Agent
    BY RestingFacts
  <2>2. parent \in Parent /\ dedupe \in Dedupe
    BY DEF Parent, JobStatus, Live, Dedupe, RunState
  <2>3. main \in Main
    BY AgentFacts DEF Main
  <2>4. /\ items \in [Agents -> ItemState]
        /\ child \in [Agents -> {"absent"} \cup JobStatus]
        /\ cancel \in [Cancellers -> CancelPc]
        /\ agent \in [Agents -> Agent]
    <3>1. /\ items = [a \in Agents |-> "absent"] /\ child = [a \in Agents |-> "absent"]
          /\ cancel = [c \in Cancellers |-> "read"] /\ agent = [a \in Agents |-> Resting]
      OBVIOUS
    <3>2. "absent" \in ItemState /\ "read" \in CancelPc
      BY DEF ItemState, CancelPc
    <3> HIDE DEF Init
    <3>3. items \in [Agents -> ItemState] /\ child \in [Agents -> {"absent"} \cup JobStatus]
      BY <3>1, <3>2
    <3>4. cancel \in [Cancellers -> CancelPc]
      BY <3>1, <3>2
    <3>5. agent \in [Agents -> Agent]
      BY <2>1, <3>1
    <3> QED BY <3>3, <3>4, <3>5
  <2>5. /\ counted \in Nat /\ charged \in Nat /\ paid \in Nat /\ lost \in Nat
        /\ faults \in 0..MaxFaults /\ lateFaults \in 0..MaxLateFaults
    BY DeepReviewAssumption
  <2>6. linked \in BOOLEAN /\ killed \in BOOLEAN /\ closing \in Held
    BY DEF Unlocked, Held, RunState
  <2> QED BY <2>2, <2>3, <2>4, <2>5, <2>6 DEF TypeOK
<1>2. Coverage
  <2>1. PlanIsWhole /\ PlanIsRead /\ PlanIsNew /\ LeftoversHaveACause
    BY DEF PlanIsWhole, PlanIsRead, PlanIsNew, PlanRead, LeftoversHaveACause
  <2>2. StagesAreInOrder /\ StagesAreWaitedFor
    BY DEF StagesAreInOrder, StagesAreWaitedFor, Behind, Planning, Reviewing, Closing
  <2>3. AgentsCloseTheirItems
    BY DEF AgentsCloseTheirItems, Resting
  <2>4. OnlyCancelsComeEarly /\ StateTellsCoverage
    BY DEF OnlyCancelsComeEarly, StateTellsCoverage, Tells
  <2>5. RequestsHoldTheTree
    BY DEF RequestsHoldTheTree, Locking
  <2> QED BY <2>1, <2>2, <2>3, <2>4, <2>5 DEF Coverage
<1>3. SurveyRests
  BY DEF SurveyRests
<1>4. Usage
  <2>1. PaidIsCounted
    <3> DEFINE none == [i \in 0..Survey |-> 0]
    <3>1. \A a \in Agents : a \in 0..Survey /\ a - 1 \in 0..Survey
      BY AgentFacts
    <3>2. \A a \in Agents : Due(a) = 0
      BY DEF Due, Resting
    <3>3. IsDue(none)
      BY <3>1, <3>2, AgentFacts DEF IsDue
    <3>4. none[Survey] = 0 /\ DueForDedupe = 0
      BY AgentFacts DEF DueForDedupe
    <3>5. none \in [0..Survey -> Int]
      OBVIOUS
    <3> HIDE DEF none
    <3>6. /\ counted + none[Survey] + DueForDedupe + lost <= paid
          /\ faults = 0 => counted + none[Survey] + DueForDedupe + lost = paid
      BY <3>4
    <3> QED BY <3>3, <3>5, <3>6 DEF PaidIsCounted
  <2>2. ChargedOnce
    BY DEF ChargedOnce
  <2>3. UndisturbedStages
    BY DEF UndisturbedStages, PlanRead, Planned, Closing, Resting
  <2> QED BY <2>1, <2>2, <2>3 DEF Usage
<1> QED BY <1>1, <1>2, <1>3, <1>4 DEF IInv

\* A step that changes nothing keeps everything.
LEMMA Stuttering ==
  ASSUME IInv, UNCHANGED vars
  PROVE  IInv'
<1> USE DEF vars
<1>1. /\ Agents' = Agents /\ FileAgents' = FileAgents /\ Survey' = Survey
      /\ Planned' = Planned
  BY ItemsStay
<1>2. TypeOK' = TypeOK
  BY <1>1 DEF TypeOK
<1>3. Coverage'
  <2>1. PlanIsRead' /\ PlanIsNew' /\ StagesAreInOrder' /\ StagesAreWaitedFor'
    BY <1>1 DEF IInv, Coverage, PlanIsRead, PlanIsNew, PlanRead, StagesAreInOrder,
                StagesAreWaitedFor, Behind
  <2> QED BY <2>1, TreeStays DEF IInv, Coverage
<1>4. SurveyRests'
  BY <1>1 DEF IInv, SurveyRests
<1>5. PaidIsCounted' /\ ChargedOnce'
  <2>1. \A a \in Agents : Due(a)' = Due(a)
    BY DEF Due
  <2>2. DueForDedupe' = DueForDedupe
    BY DEF DueForDedupe
  <2> QED BY <1>1, <2>1, <2>2 DEF IInv, Usage, PaidIsCounted, IsDue, ChargedOnce
<1>6. Undisturbed' => UndisturbedStages'
  BY <1>1 DEF IInv, Usage, Undisturbed, CancelBegun, UndisturbedStages, PlanRead
<1> QED BY <1>2, <1>3, <1>4, <1>5, <1>6 DEF IInv, Usage

\* The argument is an invariant: plans, stages, agents, items and accounts of one
\* deep review agree after every step, whoever takes it.
THEOREM Inductive == Spec => []IInv
<1>1. ASSUME IInv, [Next]_vars PROVE IInv'
  <2>1. CASE Next
    <3>1. TypeOK'
      BY <1>1, TypeStep
    <3>2. Coverage' /\ SurveyRests' /\ Usage'
      BY <1>1, <2>1, <3>1, CoverageStep, SurveyWaits, UsageStep DEF IInv
    <3> QED BY <3>1, <3>2 DEF IInv
  <2>2. CASE UNCHANGED vars
    BY <1>1, <2>2, Stuttering
  <2> QED BY <1>1, <2>1, <2>2
<1> QED BY <1>1, Initially, PTL DEF Spec

\* Every variable has its type: an agent takes at most MAX_TURNS turns, and the plan
\* lists no more children than there are agents.
THEOREM TypeCorrect == Spec => []TypeOK
BY Inductive, PTL DEF IInv

\* Nothing but a death behind the last write has the plan read with the survey's item.
PlanSealsOnce ==
  lateFaults = 0 =>
    /\ ~main.sealed /\ main.pc \notin {"sealed", "ended"} => items[Survey] = "absent"
    /\ PlanRead => main.files # Survey

\* No step but one of the seal adds the survey's item, plans, or seals.
LEMMA OthersDoNotSeal ==
  ASSUME IInv, [Next]_vars, ~SealPlan, ~CreatePlan, ~AddSurveyItem, ~ReturnPlan,
         lateFaults' = 0
  PROVE  /\ lateFaults = 0
         /\ items[Survey] = "absent" => items'[Survey] = "absent"
         /\ main'.sealed = main.sealed /\ (PlanRead' => PlanRead /\ main'.files = main.files)
         /\ main'.pc \notin {"sealed", "ended"} => main.pc \notin {"sealed", "ended"}
              \/ main.sealed
<1> USE DEF tree, world, bounds, run, Goto, ReturnTo, Fault, LateFault, Crashes
<1>1. /\ main \in Main /\ lateFaults \in Nat /\ items \in [Agents -> ItemState]
      /\ Survey \in Agents /\ StagesAreInOrder
  BY DeepReviewAssumption, AgentFacts DEF IInv, TypeOK, Coverage
<1>2. \A class \in Failed : FinalizeTree(class) /\ items[Survey] = "absent"
        => items'[Survey] = "absent"
  BY <1>1 DEF FinalizeTree, Swept
<1>3. (IF main.failure THEN "failed" ELSE "swept") \in Failed
  BY DEF Failed
<1>4. CASE UNCHANGED vars
  BY <1>4 DEF vars, PlanRead
<1>5. CASE MainNext
  <2>1. lateFaults = 0
    BY <1>1, <1>5 DEF MainNext, LinkRun, StartSurvey, SurveyDone, DedupeFindings, SaveDedupe,
       PersistDedupe, FinalizeRun, AcceptRun, FailRun, SettleFailedRun, MainIsStopped
  <2>2. items[Survey] = "absent" => items'[Survey] = "absent"
    BY <1>2, <1>3, <1>5 DEF MainNext, LinkRun, StartSurvey, SurveyDone, DedupeFindings,
       SaveDedupe, PersistDedupe, FinalizeRun, AcceptRun, FailRun, SettleFailedRun,
       MainIsStopped
  <2>3. /\ main'.sealed = main.sealed /\ main'.files = main.files
        /\ main'.pc \notin {"surveyItem", "sealed"}
        /\ main.pc \notin {"sealed", "ended"}
    BY <1>1, <1>5 DEF Main, MainNext, LinkRun, StartSurvey, SurveyDone, DedupeFindings,
       SaveDedupe, PersistDedupe, FinalizeRun, AcceptRun, FailRun, SettleFailedRun,
       MainIsStopped, Replayed
  <2> QED BY <2>1, <2>2, <2>3 DEF PlanRead
<1>6. CASE MainFaults
  <2>1. ~SealCrashesLate /\ ~FinalizeThrows /\ lateFaults = 0 /\ items' = items
    BY <1>1, <1>6 DEF MainFaults, SealThrows, DedupeThrows, FinalizeThrows, MainCrashes,
       SealCrashesLate
  <2>2. /\ main'.sealed = main.sealed /\ main'.pc \notin {"surveyItem", "sealed"}
        /\ main.sealed => main'.files = main.files
        /\ main.pc \notin {"sealed", "ended"}
    <3>1. CASE SealThrows \/ DedupeThrows
      BY <1>1, <3>1 DEF Main, SealThrows, DedupeThrows
    <3>2. CASE MainCrashes /\ main.sealed
      <4>1. main' = [main EXCEPT !.pc = Replayed(main.pc), !.used = 0]
        BY <3>2 DEF MainCrashes
      <4>2. Replayed(main.pc) \in {"link", "dedupe", "finalize"}
        BY ReplayFacts
      <4> QED BY <1>1, <3>2, <4>1, <4>2 DEF Main, MainCrashes
    <3>3. CASE MainCrashes /\ ~main.sealed
      BY <1>1, <3>3 DEF Main, MainCrashes
    <3> QED BY <1>6, <2>1, <3>1, <3>2, <3>3 DEF MainFaults
  <2> QED BY <2>1, <2>2 DEF PlanRead
<1>7. ASSUME NEW a \in Agents, TurnNext(a) \/ TurnFaults(a)
      PROVE  /\ lateFaults = 0
             /\ \/ main' = main
                \/ /\ main.pc \in {"agents", "survey"}
                   /\ main' = [main EXCEPT !.pc = "finalize", !.failure = TRUE]
             /\ items[Survey] = "absent" => items'[Survey] = "absent"
  <2>1. \/ items' = items
        \/ items[a] = "selected" /\ items' = [items EXCEPT ![a] = agent[a].close]
    BY <1>7 DEF TurnNext, TurnFaults, TurnReads, TurnCallsModel, TurnFails, TurnCounts,
       TurnCloses, TurnCrashes, TurnThrows
  <2>2. CASE TurnThrows(a)
    BY <1>1, <2>1, <2>2 DEF TurnThrows
  <2>3. CASE ~TurnThrows(a)
    <3>1. UNCHANGED main /\ lateFaults = 0
      BY <1>1, <1>7, <2>3 DEF TurnNext, TurnFaults, TurnReads, TurnCallsModel, TurnFails,
         TurnCounts, TurnCloses, CloseReturns, Restart, TurnCrashes
    <3> QED BY <1>1, <2>1, <3>1
  <2> QED BY <2>2, <2>3
<1>8. ASSUME NEW c \in Cancellers, CancelNext(c)
      PROVE  /\ lateFaults = 0 /\ main' = main
             /\ items[Survey] = "absent" => items'[Survey] = "absent"
  <2>1. CASE CancelClosesItems(c)
    BY <1>1, <2>1 DEF CancelClosesItems, Rewritten
  <2>2. CASE CancelFinalizes(c)
    <3>1. \A a \in closing.rows : items[a] = "selected"
      BY <2>2 DEF CancelFinalizes, IInv, Coverage, RequestsHoldTheTree
    <3> QED BY <1>1, <2>2, <3>1 DEF CancelFinalizes, SweptByCancel
  <2> QED BY <1>8, <2>1, <2>2 DEF CancelNext, CancelKills, CancelWrites, CancelClosesTree,
      CancelSweeps, CancelReadsCoverage, CancelAccepts, CancelSettles
<1>9. ASSUME main' = [main EXCEPT !.pc = "finalize", !.failure = TRUE],
             main.pc \in {"agents", "survey"}
      PROVE  /\ main'.sealed = main.sealed /\ main'.files = main.files
             /\ main'.pc = "finalize" /\ main.pc \notin {"sealed", "ended"}
  BY <1>1, <1>9 DEF Main
<1> QED BY <1>4, <1>5, <1>6, <1>7, <1>8, <1>9 DEF Next, PlanRead

\* Every step, and stuttering.
LEMMA PlanSealsOnceInv == IInv /\ PlanSealsOnce /\ [Next]_vars => PlanSealsOnce'
<1> SUFFICES ASSUME IInv, PlanSealsOnce, [Next]_vars, lateFaults' = 0
             PROVE  /\ ~main'.sealed /\ main'.pc \notin {"sealed", "ended"}
                         => items'[Survey] = "absent"
                    /\ PlanRead' => main'.files # Survey
  BY DEF PlanSealsOnce
<1> USE DEF world, bounds, Goto
<1>1. main \in Main /\ StagesAreInOrder /\ items \in [Agents -> ItemState]
  BY DEF IInv, TypeOK, Coverage
<1>2. CASE SealPlan
  <2>1. ~main.sealed /\ main.pc = "seal" /\ lateFaults = 0
    BY <1>1, <1>2 DEF SealPlan, StagesAreInOrder, Planning
  <2>2. items[Survey] = "absent"
    BY <2>1 DEF PlanSealsOnce
  <2>3. CASE ReadPlan
    <3>1. items' = items /\ main'.files = Cardinality(Planned)
      BY <1>1, <2>3, PlannedSize DEF ReadPlan, Main
    <3>2. Cardinality(Planned) \in {0, NFiles}
      BY <2>2, PlannedFacts DEF IInv, Coverage, PlanIsWhole
    <3> QED BY <2>2, <3>1, <3>2, AgentFacts
  <2>4. CASE FindNoPlan
    <3>1. items' = items /\ main'.pc = "plan" /\ ~main'.sealed
      BY <1>1, <2>1, <2>4 DEF FindNoPlan, Main
    <3> QED BY <2>2, <3>1 DEF PlanRead
  <2> QED BY <1>2, <2>3, <2>4 DEF SealPlan
<1>5. CASE CreatePlan
  <2>1. items'[Survey] = "absent" /\ main'.files = NFiles
    BY <1>1, <1>5, AgentFacts DEF CreatePlan, Main
  <2> QED BY <2>1, AgentFacts
<1>3. CASE AddSurveyItem \/ ReturnPlan
  <2>1. lateFaults = 0 /\ PlanRead /\ main'.files = main.files
    BY <1>1, <1>3 DEF AddSurveyItem, ReturnPlan, PlanRead, Main
  <2>2. main'.pc = "sealed" \/ main'.sealed
    BY <1>1, <1>3 DEF AddSurveyItem, ReturnPlan, Main
  <2> QED BY <2>1, <2>2 DEF PlanSealsOnce
<1>4. CASE ~SealPlan /\ ~CreatePlan /\ ~AddSurveyItem /\ ~ReturnPlan
  BY <1>4, OthersDoNotSeal DEF PlanSealsOnce
<1> QED BY <1>2, <1>3, <1>4, <1>5

\* A plan that is sealed once counts its items.
LEMMA SealedPlanIsCovered == Spec => []PlanSealedOnceIsCovered
<1>1. Init => PlanSealsOnce
  BY AgentFacts DEF Init, PlanSealsOnce, PlanRead
<1>2. IInv /\ PlanSealsOnce => PlanSealedOnceIsCovered
  <2> SUFFICES ASSUME IInv, PlanSealsOnce, lateFaults = 0, main.sealed
               PROVE  main.count = Cardinality(Planned)
    BY DEF PlanSealedOnceIsCovered, DenominatorCoversTheItems
  <2>1. main.files # Survey /\ PlanRead
    BY DEF PlanSealsOnce, PlanRead
  <2>2. CASE main.count = 0 /\ \A a \in Agents : items[a] = "absent"
    BY <2>2, PlannedFacts
  <2>3. CASE /\ main.files = NFiles /\ main.count = main.files + 1
             /\ \A a \in FileAgents : items[a] # "absent"
             /\ items[Survey] # "absent"
    BY <2>3, PlannedFacts, AgentFacts
  <2> QED BY <2>1, <2>2, <2>3 DEF IInv, Coverage, PlanIsRead
<1> QED BY <1>1, <1>2, PlanSealsOnceInv, Inductive, PTL DEF Spec

\* What the rows tell of the files, of their agents and of the run is one story,
\* whichever of the body, the turns and the cancel requests wrote last.
THEOREM CoverageStaysConsistent == Spec => []CoverageIsConsistent
<1>1. IInv /\ PlanSealedOnceIsCovered => CoverageIsConsistent
  <2> SUFFICES ASSUME IInv, PlanSealedOnceIsCovered PROVE CoverageIsConsistent
    OBVIOUS
  <2>1. LeftoversHaveACause
    BY DEF IInv, Coverage
  <2>2. RunStateMatchesCoverage
    BY DEF IInv, Coverage, StateTellsCoverage, Tells, RunStateMatchesCoverage, SurveyIsLate
  <2>3. SurveyRunsAlone
    BY AgentFacts DEF IInv, Coverage, SurveyRunsAlone, StagesAreWaitedFor,
                      AgentsCloseTheirItems, InFlight
  <2>4. ClosedChildAgrees
    BY DEF IInv, Coverage, AgentsCloseTheirItems, ClosedChildAgrees
  <2> QED BY <2>1, <2>2, <2>3, <2>4 DEF CoverageIsConsistent
<1> QED BY <1>1, Inductive, SealedPlanIsCovered, PTL

\* The review costs what its calls have used, or less if something was lost.  One that
\* neither a crash nor a cancel request disturbs ends with every file covered, and is
\* charged for all but what calls used that threw, or whose count did.
THEOREM UsageIsChargedInFull == Spec => []UsageIsCharged
<1>1. IInv => UsageIsCharged
  <2> SUFFICES ASSUME IInv PROVE UsageIsCharged
    OBVIOUS
  <2>1. NeverOvercharged
    BY DEF IInv, Usage, ChargedOnce, NeverOvercharged
  <2>2. UndisturbedReviewIsWhole
    <3> SUFFICES ASSUME main.pc = "ended", faults = 0, ~CancelBegun
                 PROVE  /\ parent.status = "completed" /\ parent.result /\ parent.settled
                        /\ charged + lost = paid
                        /\ \A a \in Agents :
                             items[a] \in {"completed", "failed"} /\ Agrees(a)
      BY DEF UndisturbedReviewIsWhole
    <3>1. UndisturbedStages
      BY DEF IInv, Usage, Undisturbed
    <3>2. \A a \in Agents : agent[a].done
      BY <3>1 DEF UndisturbedStages
    <3>3. \A a \in Agents : items[a] \in Done /\ Agrees(a) /\ items[a] # "swept"
      BY <3>2 DEF IInv, Coverage, AgentsCloseTheirItems, LeftoversHaveACause
    <3> QED BY <3>1, <3>3 DEF UndisturbedStages, Done, Failed
  <2> QED BY <2>1, <2>2 DEF UsageIsCharged
<1> QED BY <1>1, Inductive, PTL

\* Once a request has finalized the tree, the run is settled.
RequestsSettle ==
  \A c \in Cancellers : cancel[c] \in {"accept", "settle", "returned"} => parent.settled

\* No step takes a settlement back.
LEMMA SettledStays ==
  ASSUME TypeOK, Coverage, Next, parent.settled
  PROVE  parent'.settled
<1> USE DEF tree, run
<1>1. /\ parent \in Parent
      /\ \A class \in Failed : FinalizeTree(class) => parent'.settled
      /\ \A state \in RunState : RollUp(state) => parent'.settled
      /\ Settle(0, parent) => parent'.settled
  BY FinalizeFacts, RollUpFacts, SettleFacts DEF TypeOK
<1>2. (IF main.failure THEN "failed" ELSE "swept") \in Failed
  BY DEF Failed
<1>3. CASE MainNext
  BY <1>1, <1>2, <1>3 DEF MainNext, LinkRun, SealPlan, ReadPlan, FindNoPlan, CreatePlan,
     AddSurveyItem, ReturnPlan, StartSurvey, SurveyDone, DedupeFindings, SaveDedupe, PersistDedupe,
     FinalizeRun, AcceptRun, Accept, FailRun, SettleFailedRun, MainIsStopped, Parent
<1>4. CASE MainFaults
  BY <1>4 DEF MainFaults, SealThrows, DedupeThrows, FinalizeThrows, MainCrashes,
     SealCrashesLate
<1>5. ASSUME NEW a \in Agents, TurnNext(a) \/ TurnFaults(a) PROVE parent'.settled
  BY <1>5 DEF TurnNext, TurnFaults, TurnReads, TurnCallsModel, TurnFails, TurnCounts,
     TurnCloses, TurnCrashes, TurnThrows
<1>6. ASSUME NEW c \in Cancellers, CancelNext(c) PROVE parent'.settled
  <2>1. CancelFinalizes(c) => RollUp(closing.state) /\ closing.state \in RunState
    BY DEF CancelFinalizes, Coverage, RequestsHoldTheTree, RunState
  <2> QED BY <1>1, <1>6, <2>1 DEF CancelNext, CancelKills, CancelWrites, CancelClosesTree,
      CancelClosesItems, CancelSweeps, CancelReadsCoverage, CancelAccepts, CancelSettles,
      Accept, Parent
<1> QED BY <1>3, <1>4, <1>5, <1>6 DEF Next

\* So a request finds the run settled behind its finalize.
LEMMA RequestsFindItSettled == Spec => []RequestsSettle
<1>1. Init => RequestsSettle
  BY DEF Init, RequestsSettle
<1>2. ASSUME IInv, RequestsSettle, [Next]_vars PROVE RequestsSettle'
  <2>1. CASE UNCHANGED vars
    BY <1>2, <2>1 DEF vars, RequestsSettle
  <2>2. CASE UNCHANGED cancel /\ Next
    BY <1>2, <2>2, SettledStays DEF IInv, RequestsSettle
  <2>3. ASSUME NEW c \in Cancellers, CancelNext(c) PROVE RequestsSettle'
    <3>1. \A d \in Cancellers : d # c => cancel'[d] = cancel[d]
      BY <1>2, <2>3 DEF IInv, TypeOK, CancelNext, CancelKills, CancelWrites,
         CancelClosesTree, CancelClosesItems, CancelSweeps, CancelReadsCoverage,
         CancelFinalizes, CancelAccepts, CancelSettles
    <3>2. cancel'[c] \in {"accept", "settle", "returned"} => parent'.settled
      <4>1. CASE CancelFinalizes(c)
        <5>1. RollUp(closing.state) /\ closing.state \in RunState
          BY <1>2, <4>1 DEF IInv, CancelFinalizes, Coverage, RequestsHoldTheTree, RunState
        <5> QED BY <1>2, <5>1, RollUpFacts DEF IInv
      <4>2. CASE ~CancelFinalizes(c)
        <5>1. \/ cancel[c] \in {"accept", "settle"}
              \/ cancel'[c] \in {"write", "tree", "items", "finalize", "coverage", "threw",
                                 "commit"}
          BY <1>2, <2>3, <4>2 DEF IInv, TypeOK, CancelNext, CancelKills, CancelWrites,
             CancelClosesTree, CancelClosesItems, CancelSweeps, CancelReadsCoverage,
             CancelAccepts, CancelSettles
        <5>2. Next
          BY <2>3 DEF Next
        <5> QED BY <1>2, <5>1, <5>2, SettledStays DEF IInv, RequestsSettle
      <4> QED BY <4>1, <4>2
    <3>3. Next
      BY <2>3 DEF Next
    <3> QED BY <1>2, <3>1, <3>2, <3>3, SettledStays DEF IInv, RequestsSettle
  <2>4. CASE MainNext \/ MainFaults
    <3>1. UNCHANGED cancel
      BY <2>4 DEF MainNext, MainFaults, LinkRun, SealPlan, CreatePlan, AddSurveyItem,
         ReturnPlan, StartSurvey, SurveyDone, DedupeFindings, SaveDedupe, PersistDedupe, FinalizeRun,
         AcceptRun, FailRun, SettleFailedRun, MainIsStopped, SealThrows, DedupeThrows,
         FinalizeThrows, MainCrashes, SealCrashesLate, world
    <3> QED BY <2>2, <2>4, <3>1 DEF Next
  <2>5. ASSUME NEW a \in Agents, TurnNext(a) \/ TurnFaults(a) PROVE RequestsSettle'
    <3>1. UNCHANGED cancel
      BY <2>5 DEF TurnNext, TurnFaults, TurnReads, TurnCallsModel, TurnFails, TurnCounts,
         TurnCloses, TurnCrashes, TurnThrows, world
    <3> QED BY <2>2, <2>5, <3>1 DEF Next
  <2> QED BY <1>2, <2>1, <2>3, <2>4, <2>5 DEF Next
<1> QED BY <1>1, <1>2, Inductive, PTL DEF Spec

\* Whoever closes an item or the tree, it is not one that another has closed.
LEMMA ClosersKeepItems ==
  ASSUME IInv, Next, NEW a \in Agents
  PROVE  /\ items[a] \in Done \ {"swept"} => items'[a] = items[a]
         /\ items[a] = "swept" => items'[a] \in {"swept", "cancelled"}
<1> SUFFICES ASSUME items[a] \in Done \ {"swept"} PROVE items'[a] = items[a]
  BY DEF IInv, Coverage, LeftoversHaveACause
<1> USE DEF tree, run
<1>1. /\ items \in [Agents -> ItemState] /\ items[a] \notin {"absent", "selected", "swept"}
      /\ TypeOK
  BY DEF IInv, TypeOK, Done, Failed
<1>2. \A class \in Failed : FinalizeTree(class) => items'[a] = items[a]
  BY <1>1, FinalizeFacts
<1>3. (IF main.failure THEN "failed" ELSE "swept") \in Failed
  BY DEF Failed
<1>4. CASE MainNext
  <2>1. ~CreatePlan
    BY <1>1 DEF CreatePlan, IInv, Coverage, PlanIsNew
  <2> QED BY <1>1, <1>2, <1>3, <1>4, <2>1 DEF MainNext, LinkRun, SealPlan, ReadPlan,
      FindNoPlan, AddSurveyItem, ReturnPlan, StartSurvey, SurveyDone, DedupeFindings, SaveDedupe,
      PersistDedupe, FinalizeRun, AcceptRun, FailRun, SettleFailedRun, MainIsStopped
<1>5. CASE MainFaults
  BY <1>5 DEF MainFaults, SealThrows, DedupeThrows, FinalizeThrows, MainCrashes,
     SealCrashesLate
<1>6. ASSUME NEW b \in Agents, TurnNext(b) \/ TurnFaults(b) PROVE items'[a] = items[a]
  <2>1. items' = items \/ (items[b] = "selected" /\ items' = [items EXCEPT ![b] = agent[b].close])
    BY <1>6 DEF TurnNext, TurnFaults, TurnReads, TurnCallsModel, TurnFails, TurnCounts,
       TurnCloses, TurnCrashes, TurnThrows
  <2> QED BY <1>1, <2>1
<1>7. ASSUME NEW c \in Cancellers, CancelNext(c) PROVE items'[a] = items[a]
  <2>1. CASE CancelClosesItems(c)
    BY <1>1, <2>1 DEF CancelClosesItems, Rewritten
  <2>2. CASE CancelFinalizes(c)
    <3>1. a \notin closing.rows
      BY <1>1, <2>2 DEF CancelFinalizes, IInv, Coverage, RequestsHoldTheTree
    <3> QED BY <2>2, <3>1 DEF CancelFinalizes, SweptByCancel
  <2> QED BY <1>7, <2>1, <2>2 DEF CancelNext, CancelKills, CancelWrites, CancelClosesTree,
      CancelSweeps, CancelReadsCoverage, CancelAccepts, CancelSettles
<1> QED BY <1>4, <1>5, <1>6, <1>7 DEF Next

\* The first settlement, unless it is that of a failed run, is of the whole tree.
LEMMA FirstSettlement ==
  ASSUME IInv, RequestsSettle, Next, ~parent.settled, parent'.settled, main.pc # "settle"
  PROVE  charged' = counted
<1> USE DEF tree, run
<1>1. charged = 0 /\ counted \in Nat /\ parent \in Parent /\ TypeOK
  BY DEF IInv, Usage, ChargedOnce, TypeOK
<1>2. \A class \in Failed : FinalizeTree(class) => charged' = counted
  BY <1>1, FinalizeFacts
<1>3. (IF main.failure THEN "failed" ELSE "swept") \in Failed
  BY DEF Failed
<1>4. parent' # parent
  OBVIOUS
<1>5. CASE MainNext
  <2>1. ~(SealPlan \/ CreatePlan \/ AcceptRun \/ FailRun)
    BY <1>1 DEF SealPlan, ReadPlan, FindNoPlan, CreatePlan, AcceptRun, Accept, FailRun, Parent
  <2> QED BY <1>2, <1>3, <1>4, <1>5, <2>1 DEF MainNext, LinkRun, AddSurveyItem, ReturnPlan,
      StartSurvey, SurveyDone, DedupeFindings, SaveDedupe, PersistDedupe, FinalizeRun,
      SettleFailedRun, MainIsStopped
<1>6. ~MainFaults
  BY <1>4 DEF MainFaults, SealThrows, DedupeThrows, FinalizeThrows, MainCrashes,
     SealCrashesLate
<1>7. \A a \in Agents : ~(TurnNext(a) \/ TurnFaults(a))
  BY <1>4 DEF TurnNext, TurnFaults, TurnReads, TurnCallsModel, TurnFails, TurnCounts,
     TurnCloses, TurnCrashes, TurnThrows
<1>8. ASSUME NEW c \in Cancellers, CancelNext(c) PROVE charged' = counted
  <2>1. ~(CancelWrites(c) \/ CancelAccepts(c))
    BY <1>1 DEF CancelWrites, CancelAccepts, Accept, Parent
  <2>2. ~CancelSettles(c)
    BY DEF CancelSettles, RequestsSettle
  <2>3. CASE CancelFinalizes(c)
    <3>1. RollUp(closing.state) /\ closing.state \in RunState
      BY <2>3 DEF IInv, CancelFinalizes, Coverage, RequestsHoldTheTree, RunState
    <3> QED BY <1>1, <3>1, RollUpFacts
  <2> QED BY <1>4, <1>8, <2>1, <2>2, <2>3 DEF CancelNext, CancelKills, CancelClosesTree,
      CancelClosesItems, CancelSweeps, CancelReadsCoverage
<1> QED BY <1>5, <1>6, <1>7, <1>8 DEF Next

\* A file's outcome is final once anyone has recorded it, and the settlement that
\* finalize makes charges all that the children have counted by then, whether the run or
\* a cancel request comes first.
THEOREM FirstCloserWins == Spec => CoverageIsFinal /\ SettlementSeesTheTree
<1>1. ASSUME IInv, RequestsSettle, [Next]_vars
      PROVE  /\ [\A a \in Agents :
                   /\ items[a] \in Done \ {"swept"} => items'[a] = items[a]
                   /\ items[a] = "swept" => items'[a] \in {"swept", "cancelled"}]_vars
             /\ [~parent.settled /\ parent'.settled /\ main.pc # "settle"
                   => charged' = counted]_vars
  BY <1>1, ClosersKeepItems, FirstSettlement
<1> QED BY <1>1, Inductive, RequestsFindItSettled, PTL
        DEF Spec, CoverageIsFinal, SettlementSeesTheTree

-----------------------------------------------------------------------------
(* The review is charged once, as OneCharge says.                          *)

\* A settlement of what was paid is the abstract one, or stutters.
LEMMA SettlementIsTheOne ==
  ASSUME IInv, NEW total \in Nat, total <= paid, paid' = paid, parent'.settled = TRUE,
         charged' = IF parent.settled THEN charged ELSE charged + total
  PROVE  [Charge!Next]_Charge!vars
<1>1. /\ parent.settled \in BOOLEAN /\ charged \in Nat /\ paid \in Nat
      /\ ~parent.settled => charged = 0
  BY DEF IInv, TypeOK, Parent, Usage, ChargedOnce
<1>2. CASE parent.settled
  BY <1>1, <1>2 DEF Charge!vars
<1>3. CASE ~parent.settled
  <2>1. charged' \in 0..paid
    BY <1>1, <1>3
  <2> QED BY <1>3, <2>1 DEF Charge!Next, Charge!Settle
<1> QED BY <1>2, <1>3

\* What settles.
LEMMA SettlersCharge ==
  ASSUME IInv, paid' = paid,
         \/ Settle(0, parent)
         \/ \E class \in Failed : FinalizeTree(class)
         \/ \E state \in RunState : RollUp(state)
  PROVE  [Charge!Next]_Charge!vars
<1>1. /\ TypeOK /\ parent.tokens \in Nat /\ parent.tokens <= paid
      /\ counted \in Nat /\ counted <= paid
  BY CountedIsPaid DEF IInv, TypeOK, Parent, Usage, ChargedOnce
<1>2. CASE Settle(0, parent)
  BY <1>1, <1>2, SettleFacts, SettlementIsTheOne
<1>3. CASE \E class \in Failed : FinalizeTree(class)
  BY <1>1, <1>3, FinalizeFacts, SettlementIsTheOne
<1>4. CASE \E state \in RunState : RollUp(state)
  BY <1>1, <1>4, RollUpFacts, SettlementIsTheOne
<1> QED BY <1>2, <1>3, <1>4

\* A call is paid for and nothing settled, or nothing of the account moves.
LEMMA CallsAreUse ==
  ASSUME IInv, paid' \in Nat, paid' >= paid, UNCHANGED <<parent, charged>>
  PROVE  [Charge!Next]_Charge!vars
<1>1. paid \in Nat
  BY DEF IInv, TypeOK
<1>2. CASE paid' = paid
  BY <1>2 DEF Charge!vars
<1>3. CASE paid' > paid
  BY <1>3 DEF Charge!Next, Charge!Use
<1> QED BY <1>1, <1>2, <1>3

\* Every step of the review is one of the abstract specification, or stutters.
LEMMA ReviewStepsCharge == IInv /\ [Next]_vars => [Charge!Next]_Charge!vars
<1> SUFFICES ASSUME IInv, [Next]_vars PROVE [Charge!Next]_Charge!vars
  OBVIOUS
<1> USE DEF tree, money, run, usage
<1>1. parent \in Parent /\ paid \in Nat /\ TypeOK
  BY DEF IInv, TypeOK
<1>2. (IF main.failure THEN "failed" ELSE "swept") \in Failed
  BY DEF Failed
<1>8. /\ \A used \in Cost : used \in Nat
      /\ \A used \in Unreported : used \in Nat
  BY <1>1, UnreportedFacts, DeepReviewAssumption
<1>3. CASE UNCHANGED vars
  BY <1>3 DEF vars, Charge!vars
<1>4. CASE MainNext
  <2>1. CASE DedupeFindings
    <3>1. UNCHANGED <<parent, charged>>
      BY <2>1 DEF DedupeFindings
    <3>2. paid' = paid \/ \E used \in Cost \union Unreported : paid' = paid + used
      BY <2>1 DEF DedupeFindings
    <3>3. paid' \in Nat /\ paid' >= paid
      BY <1>1, <1>8, <3>2
    <3> QED BY <3>1, <3>3, CallsAreUse
  <2>2. CASE FinalizeRun
    <3>1. CASE PartitionError
      BY <2>2, <3>1 DEF FinalizeRun, Charge!vars
    <3>2. CASE ~PartitionError
      BY <1>2, <2>2, <3>2, SettlersCharge DEF FinalizeRun
    <3> QED BY <3>1, <3>2
  <2>3. CASE SettleFailedRun
    BY <2>3, SettlersCharge DEF SettleFailedRun
  <2>4. CASE SealPlan \/ CreatePlan \/ AcceptRun \/ FailRun
    <3>1. parent'.settled = parent.settled
      BY <1>1, <2>4 DEF SealPlan, ReadPlan, FindNoPlan, CreatePlan, AcceptRun, Accept,
         FailRun, Parent
    <3>2. paid' = paid /\ charged' = charged
      BY <2>4 DEF SealPlan, CreatePlan, AcceptRun, FailRun
    <3> QED BY <3>1, <3>2 DEF Charge!vars
  <2>5. CASE \/ LinkRun \/ AddSurveyItem \/ ReturnPlan \/ StartSurvey \/ SurveyDone
             \/ SaveDedupe \/ PersistDedupe \/ MainIsStopped
    BY <2>5 DEF LinkRun, AddSurveyItem, ReturnPlan, StartSurvey, SurveyDone, SaveDedupe,
       PersistDedupe, MainIsStopped, Charge!vars
  <2> QED BY <1>4, <2>1, <2>2, <2>3, <2>4, <2>5 DEF MainNext
<1>5. CASE MainFaults
  BY <1>5 DEF MainFaults, SealThrows, DedupeThrows, FinalizeThrows, MainCrashes,
     SealCrashesLate, Charge!vars
<1>6. ASSUME NEW a \in Agents, TurnNext(a) \/ TurnFaults(a)
      PROVE  [Charge!Next]_Charge!vars
  <2>1. UNCHANGED <<parent, charged>>
    BY <1>6 DEF TurnNext, TurnFaults, TurnReads, TurnCallsModel, TurnFails, TurnCounts,
       TurnCloses, TurnCrashes, TurnThrows
  <2>2. paid' \in Nat /\ paid' >= paid
    <3>1. CASE TurnCallsModel(a)
      BY <1>1, <1>8, <3>1 DEF TurnCallsModel
    <3>2. CASE TurnFails(a)
      <4>1. PICK used \in Uncounted(a) :
              paid' = IF agent[a].pc = "call" THEN paid + used ELSE paid
        BY <3>2 DEF TurnFails
      <4> QED BY <1>1, <1>8, <4>1 DEF Uncounted
    <3>3. CASE ~TurnCallsModel(a) /\ ~TurnFails(a)
      BY <1>1, <1>6, <3>3 DEF TurnNext, TurnFaults, TurnReads, TurnCounts, TurnCloses,
         TurnCrashes, TurnThrows
    <3> QED BY <3>1, <3>2, <3>3
  <2> QED BY <2>1, <2>2, CallsAreUse
<1>7. ASSUME NEW c \in Cancellers, CancelNext(c) PROVE [Charge!Next]_Charge!vars
  <2>1. CASE CancelFinalizes(c)
    <3>1. RollUp(closing.state) /\ closing.state \in RunState /\ paid' = paid
      BY <2>1 DEF IInv, CancelFinalizes, Coverage, RequestsHoldTheTree, RunState
    <3> QED BY <3>1, SettlersCharge
  <2>4. CASE CancelSettles(c)
    BY <2>4, SettlersCharge DEF CancelSettles
  <2>2. CASE CancelWrites(c) \/ CancelAccepts(c)
    <3>1. parent'.settled = parent.settled
      BY <1>1, <2>2 DEF CancelWrites, CancelAccepts, Accept, Parent
    <3> QED BY <2>2, <3>1 DEF CancelWrites, CancelAccepts, Charge!vars
  <2>3. CASE \/ CancelKills(c) \/ CancelClosesTree(c) \/ CancelClosesItems(c)
             \/ CancelSweeps(c) \/ CancelReadsCoverage(c)
    BY <2>3 DEF CancelKills, CancelClosesTree, CancelClosesItems, CancelSweeps,
       CancelReadsCoverage, Charge!vars
  <2> QED BY <1>7, <2>1, <2>2, <2>3, <2>4 DEF CancelNext
<1> QED BY <1>3, <1>4, <1>5, <1>6, <1>7 DEF Next

\* The run, its replays and any number of cancel requests settle one review, each with
\* its own idea of what it cost, and the month is charged for it once: DeepReview
\* implements OneCharge.
THEOREM ReviewChargesOnce == Spec => ReviewImplementsOneCharge
<1>1. Init => Charge!Init
  BY DEF Init, Charge!Init
<1> QED BY <1>1, ReviewStepsCharge, Inductive, PTL
        DEF Spec, ReviewImplementsOneCharge, Charge!Spec

\* Run, replays, late turns and cancel requests close one review, each respecting what
\* the others have closed and charged before.
THEOREM ClosersRespectEachOther == Spec => ClosersAgree
BY FirstCloserWins, ReviewChargesOnce DEF ClosersAgree
=============================================================================
