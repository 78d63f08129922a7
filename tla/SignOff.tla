------------------------------- MODULE SignOff -------------------------------
(***************************************************************************)
(* One reviewer of one pull request, with several tabs open: the sign-offs  *)
(* and waits written by the review router (api/routers/review.ts) through    *)
(* review/sign-off.ts, while the synchronization publishes snapshots and     *)
(* carries both over to unchanged code (sync/service.ts,                     *)
(* sync/persist-snapshot-analysis.ts).                                      *)
(*                                                                         *)
(* A review unit is a stable key in one snapshot.  A transaction that signs  *)
(* off or undoes is two steps, the locks and reads and then the writes, so   *)
(* that whatever takes another lock may happen between them.                *)
(* Left out: other reviewers (no row is shared), sessions and statistics,    *)
(* concept layouts, thread assignment, and the pruning of old snapshots.     *)
(***************************************************************************)
EXTENDS Naturals, Sequences

CONSTANTS
  Tabs,          \* browser tabs of the reviewer
  Keys,          \* stable keys of the review units
  Codes,         \* contents of a unit
  Meaning,       \* Codes -> what semanticHash tells apart
  Contents,      \* what an analysis may find: functions Keys -> Codes or Gone
  Gone,          \* the key is not in the snapshot
  None,          \* no publication
  MaxSnapshots, MaxRevisions, MaxDecisions, MaxRequests  \* bounds on the history

ASSUME SignOffAssumption ==
  /\ Gone \notin Codes
  /\ Contents \subseteq [Keys -> Codes \union {Gone}]
  /\ DOMAIN Meaning = Codes
  /\ {MaxSnapshots, MaxRevisions} \subseteq Nat \ {0}
  /\ {MaxDecisions, MaxRequests} \subseteq Nat

VARIABLES
  head,         \* the revision that the pull request's row names
  snapshots,    \* published snapshots, oldest first
  signOffs,     \* the rows of sign_offs that are not invalidated
  waits,        \* the units with a row in review_waits
  publication,  \* the publishing transaction: what it has read
  work,         \* the request that each tab has in progress
  decisions,    \* sign-off transactions committed
  requests,     \* requests made, bounded by MaxRequests
  withdrawn,    \* history: a row of this decision on this key was invalidated
  undone        \* history: what each undo took back

vars == <<head, snapshots, signOffs, waits, publication, work, decisions,
          requests, withdrawn, undone>>

Versions == 1..MaxSnapshots
Revisions == 1..MaxRevisions
Decisions == 1..MaxDecisions

Snapshot == [revision: Revisions, code: Contents]
Unit == [version: Versions, key: Keys]

\* signedOffAt: a millisecond of its own for every transaction that signs off
\* (now() of the transaction), and the microseconds that the column keeps.
Instant == [decision: Decisions, micros: 0..1]

SignOffRow == [unit: Unit, at: Instant]
Publication == [snapshot: Snapshot, signOffs: SUBSET SignOffRow, waits: SUBSET Keys]

Idle == [kind |-> "none"]
SignOffWork == [kind: {"signOff"}, insert: SUBSET Unit]
UndoWork == [kind: {"unit", "rows"}, rows: SUBSET SignOffRow, latest: Versions]
WaitWork == [kind: {"wait"}, units: SUBSET Unit]
Taken == [decision: Decisions, key: Keys, kind: {"unit", "rows"},
          latest: Versions, alone: BOOLEAN]

TypeOK ==
  /\ head \in Revisions
  /\ snapshots \in Seq(Snapshot) /\ Len(snapshots) \in Versions
  /\ signOffs \subseteq SignOffRow
  /\ waits \subseteq Unit
  /\ publication = None \/ publication \in Publication
  /\ work \in [Tabs -> {Idle} \union SignOffWork \union UndoWork \union WaitWork]
  /\ decisions \in 0..MaxDecisions
  /\ requests \in 0..MaxRequests
  /\ withdrawn \subseteq Decisions \X Keys
  /\ undone \subseteq Taken

Init ==
  /\ head = 1
  /\ \E code \in Contents : snapshots = << [revision |-> 1, code |-> code] >>
  /\ signOffs = {} /\ waits = {}
  /\ publication = None
  /\ work = [t \in Tabs |-> Idle]
  /\ decisions = 0 /\ requests = 0
  /\ withdrawn = {} /\ undone = {}

Latest == Len(snapshots)
Code(v, k) == snapshots[v].code[k]
UnitsOf(v) == {u \in [version: {v}, key: Keys] : Code(v, u.key) # Gone}
SameMeaning(a, b) == a # Gone /\ b # Gone /\ Meaning[a] = Meaning[b]
RequiresReReview(v, k) ==
  v > 1 /\ Code(v - 1, k) # Gone /\ ~SameMeaning(Code(v - 1, k), Code(v, k))

SignedUnits == {r.unit : r \in signOffs}
RowsOf(units) == {r \in signOffs : r.unit \in units}

\* pg_advisory_xact_lock("review-signoffs:<pull request>:<user>"), and below it
\* the locks "<unit>:<user>" of the units that are written.
HoldsSignOffLock(t) == work[t].kind \in {"signOff", "unit", "rows"}
SignOffLockIsFree == \A t \in Tabs : ~HoldsSignOffLock(t)

\* The shared side of the lock "<repository>:<number>" of the publication.
NoPublicationLock == TRUE
SharesPublicationLock == publication = None
PublicationLockIsFree ==
  publication = None /\ \A t \in Tabs : work[t].kind # "signOff"

Requests(t) == work[t] = Idle /\ requests < MaxRequests /\ requests' = requests + 1
Begins(t, w) == work' = [work EXCEPT ![t] = w]
Ends(t) == work' = [work EXCEPT ![t] = Idle]

\* invalidatedAt is set on these rows, those that are still active.
Withdraws(rows) == withdrawn' = withdrawn \union
                     {<<r.at.decision, r.unit.key>> : r \in rows \intersect signOffs}

revision == <<head, snapshots, publication>>
history == <<withdrawn, undone>>

-----------------------------------------------------------------------------
(* Signing off.                                                            *)

\* The row to write for a requested unit: an unchanged unit of the latest
\* snapshot inherits the approval, other code keeps the unit that was shown.
Target(u) ==
  LET latest == [u EXCEPT !.version = Latest]
  IN  IF /\ SameMeaning(Code(Latest, u.key), Code(u.version, u.key))
         /\ latest = u \/ ~RequiresReReview(Latest, u.key)
        THEN latest ELSE u

\* persistSignOffs: none of the successors may be waiting, or the batch fails.
SuccessorsAwaitNothing(units) ==
  \A u \in units : Target(u) = u \/ Target(u) \notin waits

\* The units of a file that are left to sign off.
Outstanding(units) == units \ (waits \union SignedUnits)

Shown(caller, units) ==
  CASE caller = "units" -> units
    [] caller = "concept" -> IF units \intersect waits = {} THEN units ELSE {}
    [] caller = "file" -> Outstanding(units)

\* signOff and signOffBatch, signOffConcept, signOffFile of a shown revision.
\* The rows to insert are for units with no active row, so the update that
\* invalidates the active rows of those units finds none.
StartSignOff(t, caller, units) ==
  LET shown == Shown(caller, units)
  IN  /\ SignOffLockIsFree
      /\ SharesPublicationLock
      /\ decisions < MaxDecisions
      /\ shown # {}
      /\ SuccessorsAwaitNothing(shown)
      /\ Requests(t)
      /\ Begins(t, [kind |-> "signOff",
                    insert |-> {Target(u) : u \in shown} \ SignedUnits])
      /\ UNCHANGED <<revision, signOffs, waits, decisions, history>>

CommitSignOff(t) ==
  /\ work[t].kind = "signOff"
  /\ work[t].insert # {}
  /\ decisions' = decisions + 1
  /\ \E micros \in 0..1 :
       signOffs' = signOffs \union
         {[unit |-> u, at |-> [decision |-> decisions + 1, micros |-> micros]] :
            u \in work[t].insert}
  /\ Ends(t)
  /\ UNCHANGED <<revision, waits, requests, history>>

\* Every target had an active row already, or the transaction is rolled back.
EndWithoutWrites(t) ==
  /\ work[t] # Idle
  /\ Ends(t)
  /\ UNCHANGED <<revision, signOffs, waits, decisions, requests, history>>

-----------------------------------------------------------------------------
(* Taking sign-offs back.                                                  *)

ShowsHead(v) == snapshots[v].revision = head

\* Units of these keys in every snapshot there is.
Lineage(keys) == {u \in [version: 1..Latest, key: keys] : Code(u.version, u.key) # Gone}

MeaningOf(u) == Meaning[Code(u.version, u.key)]

\* persistUnreviews: the rows of the same sign-off along the lineage, by the
\* semantic hash and the exact instant.
SameSignOff(units) ==
  {r \in RowsOf(Lineage({u.key : u \in units})) :
     \E shown \in RowsOf(units) :
       /\ shown.unit.key = r.unit.key /\ shown.at = r.at
       /\ MeaningOf(shown.unit) = MeaningOf(r.unit)}

\* unreviewFile: whatever is active along the lineage, once a member is.
LineageRows(units) ==
  IF RowsOf(units) = {} THEN {} ELSE RowsOf(Lineage({u.key : u \in units}))

StartUndo(t, kind, rows) ==
  /\ SignOffLockIsFree
  /\ rows # {}
  /\ Requests(t)
  /\ Begins(t, [kind |-> kind, rows |-> rows, latest |-> Latest])
  /\ UNCHANGED <<revision, signOffs, waits, decisions, history>>

\* unreview and unreviewBatch, unreviewConcept, unreviewFile.
StartUnreview(t, v, units) ==
  /\ ShowsHead(v)
  /\ \/ StartUndo(t, "unit", SameSignOff(units))
     \/ StartUndo(t, "rows", RowsOf(units))
     \/ StartUndo(t, "rows", LineageRows(units))

StartReset(t) == StartUndo(t, "rows", signOffs)

CommitUndo(t) ==
  /\ work[t].kind \in {"unit", "rows"}
  /\ signOffs' = signOffs \ work[t].rows
  /\ Withdraws(work[t].rows)
  /\ undone' = undone \union
       {[decision |-> r.at.decision, key |-> r.unit.key, kind |-> work[t].kind,
         latest |-> work[t].latest,
         alone |-> r.unit.version = Latest /\ publication = None] :
          r \in work[t].rows}
  /\ Ends(t)
  /\ UNCHANGED <<revision, waits, decisions, requests>>

-----------------------------------------------------------------------------
(* Waiting for an answer of the provider's conversation.                   *)

\* beginReviewWaits: before the provider answers.
StartWait(t, v, units) ==
  /\ ShowsHead(v)
  /\ Requests(t)
  /\ Begins(t, [kind |-> "wait", units |-> units])
  /\ UNCHANGED <<revision, signOffs, waits, decisions, history>>

CommitWait(t) ==
  /\ work[t].kind = "wait"
  /\ signOffs' = signOffs \ RowsOf(work[t].units)
  /\ Withdraws(RowsOf(work[t].units))
  /\ waits' = waits \union work[t].units
  /\ Ends(t)
  /\ UNCHANGED <<revision, decisions, requests, undone>>

\* releaseReviewWaits, of any snapshot.
ReleaseWaits(t, units) ==
  /\ units \intersect waits # {}
  /\ Requests(t)
  /\ waits' = waits \ units
  /\ UNCHANGED <<revision, signOffs, work, decisions, history>>

-----------------------------------------------------------------------------
(* The synchronization: a new snapshot takes over what still applies.      *)

\* A carried row keeps its instant, as far as a JavaScript Date can.
Truncated(at) == [at EXCEPT !.micros = 0]

Carried(r, code) == SameMeaning(Code(r.unit.version, r.unit.key), code[r.unit.key])

\* priorUnits: only the snapshot that is the latest now is carried over.
AnyPriorUnits == Lineage(Keys)
PriorUnits == UnitsOf(Latest)
CarriedRow(r) == [unit |-> [r.unit EXCEPT !.version = Latest + 1], at |-> Truncated(r.at)]

\* The publishing transaction holds its lock and has read the latest
\* snapshot's sign-offs and waits.  An unchanged revision is analysed again
\* for a new analysis version, or when its sources were lost or expired.
BeginPublish(rev, code) ==
  /\ PublicationLockIsFree
  /\ Latest < MaxSnapshots
  /\ rev >= head
  /\ publication' =
       [snapshot |-> [revision |-> rev, code |-> code],
        signOffs |-> {CarriedRow(r) :
                        r \in {x \in RowsOf(PriorUnits) : Carried(x, code)}},
        waits |-> {u.key : u \in {w \in waits : /\ w.version = Latest
                                                /\ code[w.key] = Code(Latest, w.key)}}]
  /\ UNCHANGED <<head, snapshots, signOffs, waits, work, decisions, requests, history>>

KeepsPublishing == UNCHANGED publication
EndsPublication == publication' = None

CommitPublish ==
  /\ publication # None
  /\ head' = publication.snapshot.revision
  /\ snapshots' = Append(snapshots, publication.snapshot)
  /\ signOffs' = signOffs \union publication.signOffs
  /\ waits' = waits \union [version: {Latest + 1}, key: publication.waits]
  /\ EndsPublication
  /\ UNCHANGED <<work, decisions, requests, history>>

AbortPublish ==
  /\ publication # None
  /\ publication' = None
  /\ UNCHANGED <<head, snapshots, signOffs, waits, work, decisions, requests, history>>

\* refreshPullRequestState: the row names a revision that has no snapshot yet.
MoveHead ==
  /\ publication = None
  /\ head < MaxRevisions
  /\ head' = head + 1
  /\ UNCHANGED <<snapshots, signOffs, waits, publication, work, decisions, requests, history>>

-----------------------------------------------------------------------------
Next ==
  \/ \E t \in Tabs :
       \/ \E v \in 1..Latest : \E units \in (SUBSET UnitsOf(v)) \ {{}} :
            \/ \E caller \in {"units", "concept", "file"} : StartSignOff(t, caller, units)
            \/ StartUnreview(t, v, units)
            \/ StartWait(t, v, units)
            \/ ReleaseWaits(t, units)
       \/ CommitSignOff(t)
       \/ StartReset(t)
       \/ CommitUndo(t)
       \/ CommitWait(t)
       \/ EndWithoutWrites(t)
  \/ \E rev \in Revisions, code \in Contents : BeginPublish(rev, code)
  \/ CommitPublish
  \/ AbortPublish
  \/ MoveHead

Spec == Init /\ [][Next]_vars

-----------------------------------------------------------------------------
(* Properties.                                                             *)

\* No unit has two active sign-offs of one reviewer, however the tabs and the
\* publication interleave.  No unique index says so: only the locks do.
OneActiveSignOff == \A r, s \in signOffs : r.unit = s.unit => r = s

\* The code of an active sign-off in every later snapshot.
UnchangedSince(r) ==
  \A v \in r.unit.version..Latest :
    SameMeaning(Code(r.unit.version, r.unit.key), Code(v, r.unit.key))

\* An accepted sign-off of code that no later snapshot has changed counts in
\* the latest snapshot, unless the reviewer withdrew it: a publication "must
\* either carry this sign-off or finish before we resolve its successor".
CurrentApprovalsShown ==
  \A r \in signOffs :
    UnchangedSince(r) =>
      \/ \E s \in signOffs : s.unit = [r.unit EXCEPT !.version = Latest]
      \/ <<r.at.decision, r.unit.key>> \in withdrawn

\* An approval never moves to other code: the active rows that one decision has
\* on a key mean the same code, in whatever snapshots they are.
ApprovalFollowsTheCode ==
  \A r, s \in signOffs :
    r.at.decision = s.at.decision /\ r.unit.key = s.unit.key
      => MeaningOf(r.unit) = MeaningOf(s.unit)

\* The three together: every approval that was given and not taken back stands
\* once, in the newest snapshot that still has its code, and for no other code.
ApprovalsStandWithTheCode ==
  OneActiveSignOff /\ CurrentApprovalsShown /\ ApprovalFollowsTheCode

\* A sign-off taken back in the newest snapshot, with no publication that had
\* read it already, does not come back with a later snapshot.
TakenBackStays ==
  \A d \in undone : d.alone =>
    ~\E r \in signOffs : /\ r.at.decision = d.decision /\ r.unit.key = d.key
                         /\ r.unit.version >= d.latest

\* Undoing a unit takes its sign-off back in every snapshot there was: the
\* comparison inside PostgreSQL retains "the existing lineage and event checks".
UndoTakesBackTheDecision ==
  \A d \in undone : d.kind = "unit" =>
    ~\E r \in signOffs : /\ r.at.decision = d.decision /\ r.unit.key = d.key
                         /\ r.unit.version <= d.latest
=============================================================================
