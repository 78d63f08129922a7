----------------------------- MODULE SignOffProofs -----------------------------
(***************************************************************************)
(* Theorems about SignOff, for any number of tabs, units, snapshots and       *)
(* decisions.  The argument: the lock of the reviewer keeps a second sign-off   *)
(* or undo away from the rows that the first has read, and the publication     *)
(* lock keeps sign-offs away while a snapshot copies them, so that what a        *)
(* transaction has read still says which rows it may write.                    *)
(***************************************************************************)
EXTENDS SignOff, SequenceTheorems, TLAPS

\* Rows belong to snapshots and decisions that there have been.
RowsAreKnown ==
  \A r \in signOffs : r.unit.version <= Latest /\ r.at.decision <= decisions

\* One sign-off or undo at a time.
LockIsHeldOnce ==
  \A s, t \in Tabs : HoldsSignOffLock(s) /\ HoldsSignOffLock(t) => s = t

\* The code of a unit in every later snapshot.
StillTheCode(u) ==
  \A v \in u.version..Latest : SameMeaning(Code(u.version, u.key), Code(v, u.key))

\* What a sign-off is about to insert is free, distinct, and the newest with its code.
SignOffsAreResolved ==
  \A t \in Tabs : work[t].kind = "signOff" =>
    /\ publication = None
    /\ decisions < MaxDecisions
    /\ \A u \in work[t].insert :
         /\ u.version <= Latest
         /\ u \notin SignedUnits
         /\ StillTheCode(u) => u.version = Latest
    /\ \A u, w \in work[t].insert : u.key = w.key => u = w

\* What an undo is about to take back are the rows of those units.
UndosAreResolved ==
  \A t \in Tabs : work[t].kind \in {"unit", "rows"} =>
    /\ work[t].latest <= Latest
    /\ \A r \in work[t].rows :
         /\ r.unit.version <= work[t].latest
         /\ r.at.decision <= decisions
         /\ \A s \in signOffs : s.unit = r.unit => s = r

\* The decision itself reaches the newest snapshot that has its code.
DecisionsAreShown ==
  \A r \in signOffs : StillTheCode(r.unit) =>
    \/ \E s \in signOffs : /\ s.unit = [r.unit EXCEPT !.version = Latest]
                           /\ s.at.decision = r.at.decision
    \/ <<r.at.decision, r.unit.key>> \in withdrawn

\* The code that the snapshot to come has for a row.
ComingMeaning(k) == Meaning[publication.snapshot.code[k]]

\* What the publication has read is what it would read now, but for what was taken back.
PublicationIsRight ==
  publication # None =>
    /\ Latest < MaxSnapshots
    /\ \A p \in publication.signOffs :
         /\ p.unit.version = Latest + 1
         /\ p.at.decision <= decisions
         /\ \A q \in publication.signOffs : p.unit = q.unit => p = q
         /\ \A s \in signOffs :
              s.at.decision = p.at.decision /\ s.unit.key = p.unit.key =>
                MeaningOf(s.unit) = ComingMeaning(p.unit.key)
    /\ \A s \in signOffs :
         s.unit.version = Latest /\ Carried(s, publication.snapshot.code) =>
           \E p \in publication.signOffs :
             /\ p.unit = [s.unit EXCEPT !.version = Latest + 1]
             /\ p.at.decision = s.at.decision

\* What was taken back alone is neither there nor on its way.
NothingComesBack ==
  \A d \in undone : d.alone =>
    /\ d.latest <= Latest /\ d.decision <= decisions
    /\ ~\E r \in signOffs : /\ r.at.decision = d.decision /\ r.unit.key = d.key
                            /\ r.unit.version >= d.latest
    /\ publication # None =>
         ~\E p \in publication.signOffs :
             p.at.decision = d.decision /\ p.unit.key = d.key

IInv ==
  /\ TypeOK /\ RowsAreKnown /\ LockIsHeldOnce
  /\ SignOffsAreResolved /\ UndosAreResolved
  /\ OneActiveSignOff /\ ApprovalFollowsTheCode /\ DecisionsAreShown
  /\ PublicationIsRight /\ NothingComesBack

-----------------------------------------------------------------------------
(* What the invariant says of the values.                                  *)

\* There is a first snapshot and a newest one.
LEMMA SnapshotFacts ==
  ASSUME IInv
  PROVE  /\ snapshots \in Seq(Snapshot) /\ Latest \in Nat /\ Latest >= 1
         /\ Latest <= MaxSnapshots /\ MaxSnapshots \in Nat /\ MaxDecisions \in Nat
         /\ decisions \in Nat
<1>1. snapshots \in Seq(Snapshot) /\ Len(snapshots) \in 1..MaxSnapshots
      /\ MaxSnapshots \in Nat /\ MaxDecisions \in Nat /\ decisions \in 0..MaxDecisions
  BY SignOffAssumption DEF IInv, TypeOK, Versions
<1> QED BY <1>1 DEF Latest

\* A unit, and a row, in their parts.
LEMMA RowsAreTyped ==
  ASSUME IInv
  PROVE  /\ \A u \in Unit : /\ u.version \in Nat /\ u.version >= 1 /\ u.key \in Keys
                            /\ u = [version |-> u.version, key |-> u.key]
         /\ \A r \in SignOffRow : /\ r.unit \in Unit /\ r.at \in Instant
                                  /\ r.at.decision \in Decisions /\ r.at.decision \in Nat
         /\ signOffs \subseteq SignOffRow /\ waits \subseteq Unit
<1>1. \A u \in Unit : /\ u.version \in Nat /\ u.version >= 1 /\ u.key \in Keys
                      /\ u = [version |-> u.version, key |-> u.key]
  BY SnapshotFacts DEF Unit, Versions
<1>2. \A r \in SignOffRow : /\ r.unit \in Unit /\ r.at \in Instant
                            /\ r.at.decision \in Decisions /\ r.at.decision \in Nat
  BY SnapshotFacts DEF SignOffRow, Instant, Decisions
<1>3. signOffs \subseteq SignOffRow /\ waits \subseteq Unit
  BY DEF IInv, TypeOK
<1> QED BY <1>1, <1>2, <1>3

\* What a tab has in progress.
LEMMA WorkIsTyped ==
  ASSUME IInv, NEW t \in Tabs
  PROVE  /\ work[t].kind = "signOff" => work[t].insert \subseteq Unit
         /\ work[t].kind \in {"unit", "rows"} =>
              work[t].rows \subseteq SignOffRow /\ work[t].latest \in Versions
         /\ work[t].kind = "wait" => work[t].units \subseteq Unit
<1>1. work[t] \in {Idle} \union SignOffWork \union UndoWork \union WaitWork
  BY DEF IInv, TypeOK
<1>2. CASE work[t] = Idle
  BY <1>2 DEF Idle
<1>3. CASE work[t] \in SignOffWork
  BY <1>3 DEF SignOffWork
<1>4. CASE work[t] \in UndoWork
  BY <1>4 DEF UndoWork
<1>5. CASE work[t] \in WaitWork
  BY <1>5 DEF WaitWork
<1> QED BY <1>1, <1>2, <1>3, <1>4, <1>5

\* The tab that acts is the only one whose request changes.
LEMMA OneTabActs ==
  ASSUME IInv, NEW t \in Tabs,
         NEW w \in {Idle} \union SignOffWork \union UndoWork \union WaitWork,
         work' = [work EXCEPT ![t] = w]
  PROVE  /\ work' \in [Tabs -> {Idle} \union SignOffWork \union UndoWork \union WaitWork]
         /\ work'[t] = w
         /\ \A s \in Tabs : s # t => work'[s] = work[s]
BY DEF IInv, TypeOK

-----------------------------------------------------------------------------
(* What a kind of step does to the invariant.                              *)

\* Nothing happens to the rows and the snapshots.
LEMMA NothingMoves ==
  ASSUME IInv, TypeOK',
         UNCHANGED <<snapshots, signOffs, decisions, withdrawn, undone>>,
         publication' \in {publication, None},
         \A t \in Tabs : \/ work'[t] = work[t]
                         \/ work'[t].kind \notin {"signOff", "unit", "rows"}
  PROVE  IInv'
<1>1. RowsAreKnown'
  BY DEF IInv, RowsAreKnown, Latest
<1>2. LockIsHeldOnce'
  BY DEF IInv, LockIsHeldOnce, HoldsSignOffLock
<1>3. SignOffsAreResolved'
  BY DEF IInv, SignOffsAreResolved, Latest, SignedUnits, StillTheCode, Code
<1>4. UndosAreResolved'
  BY DEF IInv, UndosAreResolved, Latest
<1>5. OneActiveSignOff' /\ ApprovalFollowsTheCode' /\ DecisionsAreShown'
  BY DEF IInv, OneActiveSignOff, ApprovalFollowsTheCode, DecisionsAreShown, MeaningOf, Code,
         StillTheCode, Latest
<1>6. PublicationIsRight'
  BY DEF IInv, PublicationIsRight, Latest, MeaningOf, ComingMeaning, Code, Carried
<1>7. NothingComesBack'
  BY DEF IInv, NothingComesBack, Latest
<1> QED BY <1>1, <1>2, <1>3, <1>4, <1>5, <1>6, <1>7 DEF IInv

-----------------------------------------------------------------------------
(* Requests begin.                                                         *)

\* A request is counted.
LEMMA RequestsAreCounted ==
  ASSUME IInv, NEW t \in Tabs, Requests(t)
  PROVE  requests' \in 0..MaxRequests /\ work[t] = Idle
BY SignOffAssumption DEF IInv, TypeOK, Requests

\* What begins, ends or moves without touching a row.
LEMMA WaitsInv ==
  ASSUME IInv, NEW t \in Tabs,
         \/ EndWithoutWrites(t)
         \/ \E v \in 1..Latest : \E units \in (SUBSET UnitsOf(v)) \ {{}} :
              StartWait(t, v, units) \/ ReleaseWaits(t, units)
  PROVE  IInv'
<1>1. /\ UNCHANGED <<head, snapshots, publication, signOffs, decisions, withdrawn, undone>>
      /\ requests' \in 0..MaxRequests
      /\ waits' \subseteq Unit
  <2>1. CASE EndWithoutWrites(t)
    BY <2>1 DEF EndWithoutWrites, revision, history, IInv, TypeOK
  <2>2. ASSUME NEW v \in 1..Latest, NEW units \in SUBSET UnitsOf(v),
               StartWait(t, v, units) \/ ReleaseWaits(t, units)
        PROVE  /\ UNCHANGED <<head, snapshots, publication, signOffs, decisions, withdrawn,
                              undone>>
               /\ requests' \in 0..MaxRequests
               /\ waits' \subseteq Unit
    BY <2>2, RequestsAreCounted
       DEF StartWait, ReleaseWaits, revision, history, IInv, TypeOK
  <2> QED BY <2>1, <2>2
<1>2. \/ UNCHANGED work
      \/ Ends(t)
      \/ \E units \in SUBSET Unit : Begins(t, [kind |-> "wait", units |-> units])
  <2>1. ASSUME NEW v \in 1..Latest, NEW units \in SUBSET UnitsOf(v),
               StartWait(t, v, units) \/ ReleaseWaits(t, units)
        PROVE  \/ UNCHANGED work
               \/ units \in SUBSET Unit /\ Begins(t, [kind |-> "wait", units |-> units])
    <3>1. v \in Versions
      BY SnapshotFacts DEF Versions
    <3>2. units \subseteq Unit
      BY <3>1 DEF UnitsOf, Unit
    <3> QED BY <2>1, <3>2 DEF StartWait, ReleaseWaits
  <2> QED BY <2>1 DEF EndWithoutWrites
<1>3. PICK w \in {Idle} \union SignOffWork \union UndoWork \union WaitWork :
        /\ UNCHANGED work \/ work' = [work EXCEPT ![t] = w]
        /\ w.kind \notin {"signOff", "unit", "rows"}
  <2>1. Idle.kind = "none"
    BY DEF Idle
  <2>2. CASE UNCHANGED work \/ Ends(t)
    BY <2>1, <2>2 DEF Ends
  <2>3. ASSUME NEW units \in SUBSET Unit, Begins(t, [kind |-> "wait", units |-> units])
        PROVE  \E w \in WaitWork : /\ work' = [work EXCEPT ![t] = w]
                                   /\ w.kind = "wait"
    <3> DEFINE w == [kind |-> "wait", units |-> units]
    <3>1. w \in WaitWork /\ w.kind = "wait"
      BY DEF WaitWork
    <3>2. work' = [work EXCEPT ![t] = w]
      BY <2>3 DEF Begins
    <3> HIDE DEF w
    <3> QED BY <3>1, <3>2
  <2> QED BY <1>2, <2>2, <2>3
<1>4. /\ work' \in [Tabs -> {Idle} \union SignOffWork \union UndoWork \union WaitWork]
      /\ \A s \in Tabs : \/ work'[s] = work[s]
                         \/ work'[s].kind \notin {"signOff", "unit", "rows"}
  <2>1. CASE UNCHANGED work
    BY <2>1 DEF IInv, TypeOK
  <2>2. CASE work' = [work EXCEPT ![t] = w]
    BY <1>3, <2>2, OneTabActs
  <2> QED BY <1>3, <2>1, <2>2
<1>5. TypeOK'
  BY <1>1, <1>4 DEF IInv, TypeOK
<1> QED BY <1>1, <1>4, <1>5, NothingMoves

\* The head moves, or a publication is rolled back.
LEMMA MovesInv == ASSUME IInv, MoveHead \/ AbortPublish PROVE IInv'
<1>1. /\ UNCHANGED <<snapshots, signOffs, waits, work, decisions, requests, withdrawn, undone>>
      /\ publication' \in {publication, None}
  BY DEF MoveHead, AbortPublish, history
<1>2. head' \in Revisions
  <2>1. head \in 1..MaxRevisions /\ MaxRevisions \in Nat
    BY SignOffAssumption DEF IInv, TypeOK, Revisions
  <2> QED BY <2>1 DEF MoveHead, AbortPublish, Revisions
<1>3. TypeOK'
  BY <1>1, <1>2 DEF IInv, TypeOK
<1> QED BY <1>1, <1>3, NothingMoves

\* A request takes the lock of the reviewer.
LEMMA LockIsTaken ==
  ASSUME IInv, NEW t \in Tabs, SignOffLockIsFree, requests' \in 0..MaxRequests,
         NEW w \in SignOffWork \union UndoWork, work' = [work EXCEPT ![t] = w],
         UNCHANGED <<head, snapshots, publication, signOffs, waits, decisions, withdrawn,
                     undone>>,
         w.kind = "signOff" =>
           /\ publication = None
           /\ decisions < MaxDecisions
           /\ \A u \in w.insert : /\ u.version <= Latest
                                  /\ u \notin SignedUnits
                                  /\ StillTheCode(u) => u.version = Latest
           /\ \A u, v \in w.insert : u.key = v.key => u = v,
         w.kind \in {"unit", "rows"} => w.latest = Latest /\ w.rows \subseteq signOffs
  PROVE  IInv'
<1>1. /\ work' \in [Tabs -> {Idle} \union SignOffWork \union UndoWork \union WaitWork]
      /\ work'[t] = w
      /\ \A s \in Tabs : s # t => work'[s] = work[s]
  BY OneTabActs
<1>2. TypeOK'
  BY <1>1 DEF IInv, TypeOK
<1>3. \A s \in Tabs : work[s].kind \notin {"signOff", "unit", "rows"}
  BY DEF SignOffLockIsFree, HoldsSignOffLock
<1>4. LockIsHeldOnce'
  BY <1>1, <1>3 DEF LockIsHeldOnce, HoldsSignOffLock
<1>5. SignOffsAreResolved'
  BY <1>1, <1>3 DEF SignOffsAreResolved, Latest, SignedUnits, StillTheCode, Code
<1>6. UndosAreResolved'
  <2>1. Latest \in Nat
    BY SnapshotFacts
  <2>2. ASSUME w.kind \in {"unit", "rows"}, NEW r \in w.rows
        PROVE  /\ r.unit.version <= Latest /\ r.at.decision <= decisions
               /\ \A s \in signOffs : s.unit = r.unit => s = r
    BY <2>2 DEF IInv, RowsAreKnown, OneActiveSignOff
  <2> QED BY <1>1, <1>3, <2>1, <2>2 DEF UndosAreResolved, Latest
<1>7. RowsAreKnown' /\ OneActiveSignOff' /\ ApprovalFollowsTheCode' /\ DecisionsAreShown'
  BY DEF IInv, RowsAreKnown, OneActiveSignOff, ApprovalFollowsTheCode, DecisionsAreShown,
         MeaningOf, Code, StillTheCode, Latest
<1>8. PublicationIsRight' /\ NothingComesBack'
  BY DEF IInv, PublicationIsRight, NothingComesBack, Latest, MeaningOf, ComingMeaning, Code,
         Carried
<1> QED BY <1>2, <1>4, <1>5, <1>6, <1>7, <1>8 DEF IInv

\* A sign-off is written for the newest unit with the code that was shown.
LEMMA TargetFacts ==
  ASSUME IInv, NEW v \in 1..Latest, NEW u \in UnitsOf(v)
  PROVE  /\ Target(u) \in Unit /\ Target(u).key = u.key /\ Target(u).version <= Latest
         /\ StillTheCode(Target(u)) => Target(u).version = Latest
<1> DEFINE k == u.key
           latest == [version |-> Latest, key |-> k]
<1>1. /\ Latest \in Nat /\ Latest >= 1 /\ Latest \in Versions /\ v \in Versions
      /\ v \in Nat /\ v <= Latest
  BY SnapshotFacts DEF Versions
<1>2. u.version = v /\ k \in Keys /\ u \in Unit /\ u = [version |-> v, key |-> k]
  BY <1>1 DEF UnitsOf, Unit
<1>3. [u EXCEPT !.version = Latest] = latest /\ latest.version = Latest /\ latest.key = k
  BY <1>2
<1>4. latest \in Unit
  BY <1>1, <1>2 DEF Unit
<1> HIDE DEF k, latest
<1>5. CASE Target(u) = latest
  BY <1>1, <1>3, <1>4, <1>5 DEF k
<1>6. CASE /\ Target(u) = u
           /\ ~(/\ SameMeaning(Code(Latest, k), Code(v, k))
                /\ latest = u \/ ~RequiresReReview(Latest, k))
  <2>1. ASSUME StillTheCode(u), v # Latest PROVE FALSE
    <3>1. \A w \in v..Latest : SameMeaning(Code(v, k), Code(w, k))
      BY <1>2, <2>1 DEF StillTheCode, k
    <3>2. SameMeaning(Code(v, k), Code(Latest, k))
      BY <1>1, <3>1
    <3>3. RequiresReReview(Latest, k)
      BY <1>6, <3>2 DEF SameMeaning
    <3>4. Latest - 1 \in v..Latest
      BY <1>1, <2>1
    <3>5. SameMeaning(Code(v, k), Code(Latest - 1, k))
      BY <3>1, <3>4
    <3> QED BY <3>2, <3>3, <3>5 DEF RequiresReReview, SameMeaning
  <2> QED BY <1>1, <1>2, <1>6, <2>1 DEF k
<1> QED BY <1>2, <1>3, <1>5, <1>6 DEF Target, k

\* A sign-off begins.
LEMMA StartSignOffInv ==
  ASSUME IInv, NEW t \in Tabs, NEW v \in 1..Latest, NEW units \in SUBSET UnitsOf(v),
         NEW caller \in {"units", "concept", "file"}, StartSignOff(t, caller, units)
  PROVE  IInv'
<1> DEFINE shown == Shown(caller, units)
           insert == {Target(u) : u \in shown} \ SignedUnits
           w == [kind |-> "signOff", insert |-> insert]
<1>1. shown \subseteq UnitsOf(v)
  BY DEF Shown, Outstanding
<1>2. \A u \in insert : /\ u \in Unit /\ u.version <= Latest /\ u \notin SignedUnits
                        /\ StillTheCode(u) => u.version = Latest
  BY <1>1, TargetFacts
<1>3. \A a, b \in UnitsOf(v) : a.key = b.key => a = b
  BY DEF UnitsOf
<1>4. \A a, b \in insert : a.key = b.key => a = b
  BY <1>1, <1>3, TargetFacts
<1>5. /\ SignOffLockIsFree /\ publication = None /\ decisions < MaxDecisions
      /\ requests' \in 0..MaxRequests
      /\ UNCHANGED <<head, snapshots, publication, signOffs, waits, decisions, withdrawn,
                     undone>>
      /\ work' = [work EXCEPT ![t] = w]
  BY RequestsAreCounted
     DEF StartSignOff, SharesPublicationLock, revision, history, Begins
<1> HIDE DEF insert
<1>6. w \in SignOffWork /\ w.kind = "signOff" /\ w.insert = insert
  BY <1>2 DEF SignOffWork
<1> HIDE DEF w
<1> QED BY <1>2, <1>4, <1>5, <1>6, LockIsTaken

\* An undo begins.
LEMMA StartUndoInv ==
  ASSUME IInv, NEW t \in Tabs, NEW kind \in {"unit", "rows"}, NEW rows \in SUBSET signOffs,
         StartUndo(t, kind, rows)
  PROVE  IInv'
<1> DEFINE w == [kind |-> kind, rows |-> rows, latest |-> Latest]
<1>1. /\ SignOffLockIsFree /\ requests' \in 0..MaxRequests
      /\ UNCHANGED <<head, snapshots, publication, signOffs, waits, decisions, withdrawn,
                     undone>>
      /\ work' = [work EXCEPT ![t] = w]
  BY RequestsAreCounted DEF StartUndo, revision, history, Begins
<1>2. Latest \in Versions
  BY SnapshotFacts DEF Versions
<1>3. w \in UndoWork /\ w.kind = kind /\ w.rows = rows /\ w.latest = Latest
  BY <1>2, RowsAreTyped DEF UndoWork
<1> HIDE DEF w
<1> QED BY <1>1, <1>3, LockIsTaken

\* The ways to take sign-offs back.
LEMMA StartUnreviewInv ==
  ASSUME IInv, NEW t \in Tabs, NEW v \in 1..Latest, NEW units \in SUBSET UnitsOf(v),
         StartUnreview(t, v, units) \/ StartReset(t)
  PROVE  IInv'
<1>1. SameSignOff(units) \subseteq signOffs
  BY DEF SameSignOff, RowsOf
<1>2. RowsOf(units) \subseteq signOffs /\ LineageRows(units) \subseteq signOffs
  BY DEF LineageRows, RowsOf
<1> QED BY <1>1, <1>2, StartUndoInv DEF StartUnreview, StartReset

-----------------------------------------------------------------------------
(* Requests commit.                                                        *)

\* A sign-off commits: the rows of its decision are the first with that number.
LEMMA CommitSignOffInv == ASSUME IInv, NEW t \in Tabs, CommitSignOff(t) PROVE IInv'
<1>1. /\ UNCHANGED <<head, snapshots, publication, waits, requests, withdrawn, undone>>
      /\ work' = [work EXCEPT ![t] = Idle] /\ work[t].kind = "signOff"
      /\ decisions' = decisions + 1
  BY DEF CommitSignOff, Ends, revision, history
<1>2. /\ work' \in [Tabs -> {Idle} \union SignOffWork \union UndoWork \union WaitWork]
      /\ work'[t] = Idle /\ Idle.kind = "none"
      /\ \A s \in Tabs : s # t => work'[s] = work[s]
  BY <1>1, OneTabActs DEF Idle
<1>3. /\ publication = None /\ decisions < MaxDecisions
      /\ work[t].insert \subseteq Unit
      /\ \A u \in work[t].insert : /\ u.version <= Latest /\ u \notin SignedUnits
                                   /\ StillTheCode(u) => u.version = Latest
      /\ \A u, w \in work[t].insert : u.key = w.key => u = w
  BY <1>1, WorkIsTyped DEF IInv, SignOffsAreResolved
<1> DEFINE d == decisions + 1
<1>4. PICK micros \in 0..1 :
        signOffs' = signOffs \union
          {[unit |-> u, at |-> [decision |-> d, micros |-> micros]] : u \in work[t].insert}
  BY DEF CommitSignOff
<1>5. d \in Decisions /\ d \in Nat /\ decisions \in Nat /\ d > decisions /\ d <= MaxDecisions
  BY <1>3, SnapshotFacts DEF Decisions
<1>6. decisions' = d
  BY <1>1
<1> HIDE DEF d
<1> DEFINE at == [decision |-> d, micros |-> micros]
           new == {[unit |-> u, at |-> at] : u \in work[t].insert}
<1>7. at \in Instant /\ at.decision = d
  BY <1>5 DEF Instant
<1>8. signOffs' = signOffs \union new
  BY <1>4
<1> HIDE DEF at
<1>9. /\ \A r \in new : r \in SignOffRow /\ r.at.decision = d /\ r.unit \in work[t].insert
      /\ \A r, s \in new : r.unit = s.unit => r = s
  BY <1>3, <1>7 DEF SignOffRow
<1> HIDE DEF new
<1>10. TypeOK'
  <2>1. signOffs' \subseteq SignOffRow
    BY <1>8, <1>9, RowsAreTyped
  <2>2. decisions' \in 0..MaxDecisions
    BY <1>5, <1>6, SnapshotFacts
  <2> QED BY <1>1, <1>2, <2>1, <2>2 DEF IInv, TypeOK
<1>11. RowsAreKnown'
  <2>1. \A r \in signOffs : r.at.decision <= d
    BY <1>5, RowsAreTyped DEF IInv, RowsAreKnown
  <2>2. \A r \in new : r.unit.version <= Latest /\ r.at.decision <= d
    BY <1>3, <1>5, <1>9
  <2> QED BY <1>1, <1>6, <1>8, <2>1, <2>2 DEF IInv, RowsAreKnown, Latest
<1>12. \A s \in Tabs : work'[s].kind \notin {"signOff", "unit", "rows"}
  BY <1>1, <1>2 DEF IInv, LockIsHeldOnce, HoldsSignOffLock
<1>13. LockIsHeldOnce' /\ SignOffsAreResolved' /\ UndosAreResolved'
  BY <1>12 DEF LockIsHeldOnce, HoldsSignOffLock, SignOffsAreResolved, UndosAreResolved
<1>14. OneActiveSignOff'
  BY <1>3, <1>8, <1>9 DEF IInv, OneActiveSignOff, SignedUnits
<1>15. ApprovalFollowsTheCode'
  <2>1. \A r \in signOffs, s \in new : r.at.decision # s.at.decision
    BY <1>5, <1>9, RowsAreTyped DEF IInv, RowsAreKnown
  <2>2. \A r, s \in new : r.unit.key = s.unit.key => r.unit = s.unit
    BY <1>3, <1>9
  <2> QED BY <1>1, <1>8, <2>1, <2>2 DEF IInv, ApprovalFollowsTheCode, MeaningOf, Code
<1>16. DecisionsAreShown'
  <2>1. ASSUME NEW r \in new, StillTheCode(r.unit)
        PROVE  r.unit = [r.unit EXCEPT !.version = Latest]
    BY <1>3, <1>9, <2>1 DEF Unit
  <2>2. UNCHANGED Latest /\ \A r : StillTheCode(r)' <=> StillTheCode(r)
    BY <1>1 DEF Latest, StillTheCode, Code
  <2> QED BY <1>1, <1>8, <2>1, <2>2 DEF IInv, DecisionsAreShown
<1>17. PublicationIsRight'
  BY <1>1, <1>3 DEF PublicationIsRight
<1>18. NothingComesBack'
  <2>1. ASSUME NEW e \in undone, e.alone
        PROVE  e.decision <= d /\ \A r \in new : r.at.decision # e.decision
    <3>1. e.decision <= decisions /\ e.decision \in Nat
      BY <1>5, <2>1 DEF IInv, NothingComesBack, TypeOK, Taken, Decisions
    <3> QED BY <1>5, <1>9, <3>1
  <2> QED BY <1>1, <1>3, <1>6, <1>8, <2>1 DEF IInv, NothingComesBack, Latest
<1> QED BY <1>10, <1>11, <1>13, <1>14, <1>15, <1>16, <1>17, <1>18 DEF IInv

\* Rows are taken back, and remembered as withdrawn.
LEMMA RowsAreTakenBack ==
  ASSUME IInv, NEW t \in Tabs, NEW rows,
         signOffs' = signOffs \ rows, Withdraws(rows), Ends(t),
         UNCHANGED <<head, snapshots, publication, decisions, requests>>,
         waits' \subseteq Unit, undone' \subseteq Taken
  PROVE  /\ TypeOK' /\ RowsAreKnown' /\ LockIsHeldOnce'
         /\ SignOffsAreResolved' /\ UndosAreResolved'
         /\ OneActiveSignOff' /\ ApprovalFollowsTheCode' /\ DecisionsAreShown'
         /\ PublicationIsRight'
<1>1. /\ work' \in [Tabs -> {Idle} \union SignOffWork \union UndoWork \union WaitWork]
      /\ work'[t].kind = "none"
      /\ \A s \in Tabs : s # t => work'[s] = work[s]
  BY OneTabActs DEF Ends, Idle
<1>2. TypeOK'
  <2>1. withdrawn' \subseteq Decisions \X Keys
    BY RowsAreTyped DEF Withdraws, IInv, TypeOK
  <2> QED BY <1>1, <2>1 DEF IInv, TypeOK
<1>3. RowsAreKnown'
  BY DEF IInv, RowsAreKnown, Latest
<1>4. LockIsHeldOnce'
  BY <1>1 DEF IInv, LockIsHeldOnce, HoldsSignOffLock
<1>5. SignOffsAreResolved'
  BY <1>1 DEF IInv, SignOffsAreResolved, Latest, SignedUnits, StillTheCode, Code
<1>6. UndosAreResolved'
  BY <1>1 DEF IInv, UndosAreResolved, Latest
<1>7. OneActiveSignOff' /\ ApprovalFollowsTheCode'
  BY DEF IInv, OneActiveSignOff, ApprovalFollowsTheCode, MeaningOf, Code
<1>8. DecisionsAreShown'
  <2> SUFFICES ASSUME NEW r \in signOffs', StillTheCode(r.unit)'
               PROVE  \/ \E s \in signOffs' : /\ s.unit = [r.unit EXCEPT !.version = Latest']
                                              /\ s.at.decision = r.at.decision
                      \/ <<r.at.decision, r.unit.key>> \in withdrawn'
    BY DEF DecisionsAreShown
  <2>1. r \in signOffs /\ StillTheCode(r.unit) /\ UNCHANGED Latest
    BY DEF StillTheCode, Code, Latest
  <2>2. CASE <<r.at.decision, r.unit.key>> \in withdrawn
    BY <2>2 DEF Withdraws
  <2>3. ASSUME NEW s \in signOffs, s.unit = [r.unit EXCEPT !.version = Latest],
               s.at.decision = r.at.decision, s \in rows
        PROVE  <<r.at.decision, r.unit.key>> \in withdrawn'
    <3>1. s.unit.key = r.unit.key
      BY <2>1, <2>3, RowsAreTyped DEF Unit
    <3>2. <<s.at.decision, s.unit.key>> \in withdrawn'
      BY <2>3 DEF Withdraws
    <3> QED BY <2>3, <3>1, <3>2
  <2> QED BY <2>1, <2>2, <2>3 DEF IInv, DecisionsAreShown
<1>9. PublicationIsRight'
  BY DEF IInv, PublicationIsRight, Latest, MeaningOf, ComingMeaning, Code, Carried
<1> QED BY <1>2, <1>3, <1>4, <1>5, <1>6, <1>7, <1>8, <1>9

\* An undo commits: what it found in the newest snapshot is the only row of its unit.
LEMMA CommitUndoInv == ASSUME IInv, NEW t \in Tabs, CommitUndo(t) PROVE IInv'
<1> DEFINE rows == work[t].rows
           record(r) == [decision |-> r.at.decision, key |-> r.unit.key,
                         kind |-> work[t].kind, latest |-> work[t].latest,
                         alone |-> r.unit.version = Latest /\ publication = None]
<1>1. /\ UNCHANGED <<head, snapshots, publication, waits, decisions, requests>>
      /\ signOffs' = signOffs \ rows /\ Withdraws(rows) /\ Ends(t)
      /\ undone' = undone \union {record(r) : r \in rows}
      /\ work[t].kind \in {"unit", "rows"}
  BY DEF CommitUndo, revision
<1>2. /\ rows \subseteq SignOffRow /\ work[t].latest \in Versions /\ work[t].latest <= Latest
      /\ \A r \in rows : /\ r.unit.version <= work[t].latest
                         /\ r.at.decision <= decisions
                         /\ \A s \in signOffs : s.unit = r.unit => s = r
  BY <1>1, WorkIsTyped DEF IInv, UndosAreResolved
<1>3. \A r \in rows : record(r) \in Taken
  BY <1>1, <1>2, RowsAreTyped DEF Taken
<1>4. undone' \subseteq Taken /\ waits' \subseteq Unit
  BY <1>1, <1>3 DEF IInv, TypeOK
<1> HIDE DEF rows
<1>5. NothingComesBack'
  <2>1. UNCHANGED Latest
    BY <1>1 DEF Latest
  <2>2. ASSUME NEW d \in undone, d.alone
        PROVE  /\ d.latest <= Latest' /\ d.decision <= decisions'
               /\ ~\E r \in signOffs' : /\ r.at.decision = d.decision /\ r.unit.key = d.key
                                        /\ r.unit.version >= d.latest
               /\ publication' # None =>
                    ~\E p \in publication'.signOffs :
                        p.at.decision = d.decision /\ p.unit.key = d.key
    BY <1>1, <2>1, <2>2 DEF IInv, NothingComesBack
  <2>3. ASSUME NEW r \in rows, r.unit.version = Latest, publication = None
        PROVE  /\ work[t].latest <= Latest /\ r.at.decision <= decisions
               /\ ~\E s \in signOffs \ rows :
                     /\ s.at.decision = r.at.decision /\ s.unit.key = r.unit.key
                     /\ s.unit.version >= work[t].latest
    <3> SUFFICES ASSUME NEW s \in signOffs \ rows, s.unit.key = r.unit.key,
                        s.unit.version >= work[t].latest
                 PROVE  FALSE
      BY <1>2
    <3>1. s.unit \in Unit /\ r.unit \in Unit /\ s.unit.version <= Latest
      BY <1>2, RowsAreTyped DEF IInv, RowsAreKnown
    <3>2. s.unit.version \in Nat /\ Latest \in Nat /\ work[t].latest \in Nat
      BY <1>2, <3>1, RowsAreTyped, SnapshotFacts DEF Versions
    <3>3. s.unit.version = Latest
      BY <1>2, <2>3, <3>1, <3>2
    <3>4. s.unit = r.unit
      BY <2>3, <3>1, <3>3, RowsAreTyped
    <3> QED BY <1>2, <3>4
  <2>4. ASSUME NEW d \in undone', d.alone, d \notin undone
        PROVE  /\ d.latest <= Latest' /\ d.decision <= decisions'
               /\ ~\E r \in signOffs' : /\ r.at.decision = d.decision /\ r.unit.key = d.key
                                        /\ r.unit.version >= d.latest
               /\ publication' = None
    <3>1. PICK r \in rows : d = record(r)
      BY <1>1, <2>4
    <3>2. d.decision = r.at.decision /\ d.key = r.unit.key /\ d.latest = work[t].latest
      BY <3>1
    <3>3. r.unit.version = Latest /\ publication = None
      BY <2>4, <3>1
    <3> QED BY <1>1, <2>1, <2>3, <3>2, <3>3
  <2> QED BY <2>2, <2>4 DEF NothingComesBack
<1> QED BY <1>1, <1>4, <1>5, RowsAreTakenBack DEF IInv

\* A wait commits: the sign-offs of its units are invalidated.
LEMMA CommitWaitInv == ASSUME IInv, NEW t \in Tabs, CommitWait(t) PROVE IInv'
<1> DEFINE rows == RowsOf(work[t].units)
<1>1. /\ UNCHANGED <<head, snapshots, publication, decisions, requests, undone>>
      /\ signOffs' = signOffs \ rows /\ Withdraws(rows) /\ Ends(t)
      /\ waits' = waits \union work[t].units /\ work[t].kind = "wait"
  BY DEF CommitWait, revision
<1>2. waits' \subseteq Unit /\ undone' \subseteq Taken
  BY <1>1, WorkIsTyped DEF IInv, TypeOK
<1>3. NothingComesBack'
  BY <1>1 DEF IInv, NothingComesBack, Latest
<1> QED BY <1>1, <1>2, <1>3, RowsAreTakenBack DEF IInv

-----------------------------------------------------------------------------
(* The publication.                                                        *)

\* A publication reads what still applies.
LEMMA BeginPublishInv ==
  ASSUME IInv, NEW rev \in Revisions, NEW code \in Contents, BeginPublish(rev, code)
  PROVE  IInv'
<1> DEFINE L == Latest
           Read == {x \in RowsOf(PriorUnits) : Carried(x, code)}
<1>1. /\ UNCHANGED <<head, snapshots, signOffs, waits, work, decisions, requests, withdrawn,
                     undone>>
      /\ Latest < MaxSnapshots
      /\ \A t \in Tabs : work[t].kind # "signOff"
  BY DEF BeginPublish, history, PublicationLockIsFree
<1>2. PICK ws \in SUBSET Keys :
        publication' = [snapshot |-> [revision |-> rev, code |-> code],
                        signOffs |-> {CarriedRow(r) : r \in Read}, waits |-> ws]
  <2>1. {u.key : u \in {w \in waits : /\ w.version = Latest
                                      /\ code[w.key] = Code(Latest, w.key)}} \in SUBSET Keys
    BY RowsAreTyped
  <2> QED BY <2>1 DEF BeginPublish
<1>3. /\ publication'.snapshot = [revision |-> rev, code |-> code]
      /\ publication'.snapshot.code = code
      /\ publication'.signOffs = {CarriedRow(r) : r \in Read}
      /\ publication'.waits = ws
  BY <1>2
<1>4. L \in Nat /\ L + 1 \in Versions
  BY <1>1, SnapshotFacts DEF Versions
<1>5. ASSUME NEW r \in Read
      PROVE  /\ r \in signOffs /\ r \in SignOffRow /\ r.unit.version = L
             /\ r.unit = [version |-> L, key |-> r.unit.key]
             /\ Meaning[Code(L, r.unit.key)] = Meaning[code[r.unit.key]]
             /\ CarriedRow(r) \in SignOffRow
             /\ CarriedRow(r).unit.version = L + 1 /\ CarriedRow(r).unit.key = r.unit.key
             /\ CarriedRow(r).at.decision = r.at.decision
  <2>1. r \in signOffs /\ r.unit \in UnitsOf(Latest)
    BY DEF RowsOf, PriorUnits
  <2>2. r \in SignOffRow /\ r.unit \in Unit /\ r.at \in Instant
    BY <2>1, RowsAreTyped
  <2>3. r.unit.version = L
    BY <2>1 DEF UnitsOf
  <2>4. Meaning[Code(L, r.unit.key)] = Meaning[code[r.unit.key]]
    BY <2>3 DEF Carried, SameMeaning
  <2>5. [r.unit EXCEPT !.version = Latest + 1] = [version |-> L + 1, key |-> r.unit.key]
    BY <2>2 DEF Unit
  <2>6. [version |-> L + 1, key |-> r.unit.key] \in Unit
    BY <1>4, <2>2, RowsAreTyped DEF Unit
  <2>7. Truncated(r.at) \in Instant /\ Truncated(r.at).decision = r.at.decision
    BY <2>2 DEF Truncated, Instant
  <2> HIDE DEF L
  <2>8. /\ CarriedRow(r).unit.version = L + 1 /\ CarriedRow(r).unit.key = r.unit.key
        /\ CarriedRow(r).at = Truncated(r.at)
    BY <2>5 DEF CarriedRow
  <2>9. CarriedRow(r) \in SignOffRow
    BY <2>5, <2>6, <2>7 DEF CarriedRow, SignOffRow
  <2> QED BY <2>1, <2>2, <2>3, <2>4, <2>7, <2>8, <2>9, RowsAreTyped
<1>6. \A s \in signOffs : s.unit.version = Latest /\ Carried(s, code) => s \in Read
  <2> SUFFICES ASSUME NEW s \in signOffs, s.unit.version = Latest, Carried(s, code)
               PROVE  s.unit \in UnitsOf(Latest)
    BY DEF RowsOf, PriorUnits
  <2>1. s.unit = [version |-> Latest, key |-> s.unit.key] /\ s.unit.key \in Keys
    BY RowsAreTyped
  <2>2. Code(Latest, s.unit.key) # Gone
    BY DEF Carried, SameMeaning
  <2> QED BY <2>1, <2>2 DEF UnitsOf
<1> HIDE DEF Read, L
<1>7. UNCHANGED L /\ L = Latest
  BY <1>1 DEF L, Latest
<1>8. TypeOK'
  <2>1. [revision |-> rev, code |-> code] \in Snapshot
    BY DEF Snapshot
  <2>2. {CarriedRow(r) : r \in Read} \subseteq SignOffRow
    BY <1>5
  <2>3. publication' \in Publication
    BY <1>2, <2>1, <2>2 DEF Publication
  <2> QED BY <1>1, <2>3 DEF IInv, TypeOK
<1>9. RowsAreKnown' /\ LockIsHeldOnce' /\ UndosAreResolved'
  BY <1>1 DEF IInv, RowsAreKnown, LockIsHeldOnce, UndosAreResolved, HoldsSignOffLock, Latest
<1>10. SignOffsAreResolved'
  BY <1>1 DEF SignOffsAreResolved
<1>11. OneActiveSignOff' /\ ApprovalFollowsTheCode' /\ DecisionsAreShown'
  BY <1>1 DEF IInv, OneActiveSignOff, ApprovalFollowsTheCode, DecisionsAreShown, MeaningOf,
              Code, StillTheCode, Latest
<1>12. PublicationIsRight'
  <2>1. ASSUME NEW p \in publication'.signOffs
        PROVE  /\ p.unit.version = L + 1
               /\ p.at.decision <= decisions
               /\ \A q \in publication'.signOffs : p.unit = q.unit => p = q
               /\ \A s \in signOffs :
                    s.at.decision = p.at.decision /\ s.unit.key = p.unit.key =>
                      MeaningOf(s.unit) = Meaning[code[p.unit.key]]
    <3>1. PICK r \in Read : p = CarriedRow(r)
      BY <1>3
    <3>2. p.unit.version = L + 1 /\ p.unit.key = r.unit.key /\ p.at.decision = r.at.decision
      BY <1>5, <3>1
    <3>3. p.at.decision <= decisions
      BY <1>5, <3>2 DEF IInv, RowsAreKnown
    <3>4. ASSUME NEW q \in publication'.signOffs, p.unit = q.unit PROVE p = q
      <4>1. PICK s \in Read : q = CarriedRow(s)
        BY <1>3
      <4>2. r.unit.key = s.unit.key
        BY <1>5, <3>2, <3>4, <4>1
      <4>3. r.unit = s.unit
        BY <1>5, <4>2
      <4>4. r = s
        BY <1>5, <4>3 DEF IInv, OneActiveSignOff
      <4> QED BY <3>1, <4>1, <4>4
    <3>5. ASSUME NEW s \in signOffs, s.at.decision = p.at.decision, s.unit.key = p.unit.key
          PROVE  MeaningOf(s.unit) = Meaning[code[p.unit.key]]
      <4>1. MeaningOf(s.unit) = MeaningOf(r.unit)
        BY <1>5, <3>2, <3>5 DEF IInv, ApprovalFollowsTheCode
      <4>2. MeaningOf(r.unit) = Meaning[Code(L, r.unit.key)]
        BY <1>5 DEF MeaningOf
      <4> QED BY <1>5, <3>2, <4>1, <4>2
    <3> QED BY <3>2, <3>3, <3>4, <3>5
  <2>2. ASSUME NEW s \in signOffs, s.unit.version = L, Carried(s, code)
        PROVE  \E p \in publication'.signOffs :
                 /\ p.unit = [s.unit EXCEPT !.version = L + 1]
                 /\ p.at.decision = s.at.decision
    <3>1. s \in Read
      BY <1>6, <1>7, <2>2
    <3>2. CarriedRow(s).unit = [s.unit EXCEPT !.version = L + 1]
      BY <1>7 DEF CarriedRow
    <3>3. CarriedRow(s).at.decision = s.at.decision
      BY <1>5, <3>1
    <3> QED BY <1>3, <3>1, <3>2, <3>3
  <2>3. /\ UNCHANGED Latest
        /\ \A u : MeaningOf(u)' = MeaningOf(u)
        /\ \A k : ComingMeaning(k)' = Meaning[code[k]]
        /\ \A s : Carried(s, publication.snapshot.code)' <=> Carried(s, code)
    BY <1>1, <1>3 DEF Latest, MeaningOf, Code, ComingMeaning, Carried
  <2> QED BY <1>1, <1>7, <2>1, <2>2, <2>3 DEF PublicationIsRight
<1>13. NothingComesBack'
  <2>1. ASSUME NEW d \in undone, d.alone, NEW p \in publication'.signOffs,
               p.at.decision = d.decision, p.unit.key = d.key
        PROVE  FALSE
    <3>1. PICK r \in Read : p = CarriedRow(r)
      BY <1>3
    <3>2. /\ r \in signOffs /\ r.unit.version = L /\ r.unit.key = d.key
          /\ r.at.decision = d.decision
      BY <1>5, <2>1, <3>1
    <3>3. d.latest <= L /\ d.latest \in Nat
      BY <1>7, <2>1, SnapshotFacts DEF IInv, NothingComesBack, TypeOK, Taken, Versions
    <3> QED BY <1>4, <2>1, <3>2, <3>3 DEF IInv, NothingComesBack
  <2> QED BY <1>1, <1>7, <2>1 DEF IInv, NothingComesBack, Latest
<1> QED BY <1>8, <1>9, <1>10, <1>11, <1>12, <1>13 DEF IInv

\* The snapshot is published with what it has read.
LEMMA CommitPublishInv == ASSUME IInv, CommitPublish PROVE IInv'
<1> DEFINE L == Latest
           sn == publication.snapshot
           new == publication.signOffs
<1>1. /\ publication # None /\ publication' = None
      /\ UNCHANGED <<work, decisions, requests, withdrawn, undone>>
      /\ head' = sn.revision
      /\ snapshots' = Append(snapshots, sn)
      /\ signOffs' = signOffs \union new
      /\ waits' = waits \union [version: {L + 1}, key: publication.waits]
  BY DEF CommitPublish, EndsPublication, history
<1>2. publication \in Publication
  BY <1>1 DEF IInv, TypeOK
<1>3. /\ sn \in Snapshot /\ sn.revision \in Revisions /\ new \subseteq SignOffRow
      /\ publication.waits \subseteq Keys
  BY <1>2 DEF Publication, Snapshot
<1>4. /\ L \in Nat /\ L < MaxSnapshots /\ MaxSnapshots \in Nat /\ L + 1 \in Versions
      /\ L >= 1
  BY <1>1, SnapshotFacts DEF IInv, PublicationIsRight, Versions
<1>5. /\ snapshots' \in Seq(Snapshot) /\ Latest' = L + 1
      /\ \A v \in 1..L : snapshots'[v] = snapshots[v]
      /\ snapshots'[L + 1] = sn
  BY <1>1, <1>3, SnapshotFacts, AppendProperties DEF Latest
<1>6. \A k, v : /\ v \in 1..L => Code(v, k)' = Code(v, k)
                /\ v = L + 1 => Code(v, k)' = sn.code[k]
  BY <1>5 DEF Code
<1>7. \A p \in new :
        /\ p.unit.version = L + 1 /\ p.at.decision <= decisions
        /\ \A q \in new : p.unit = q.unit => p = q
        /\ \A s \in signOffs :
             s.at.decision = p.at.decision /\ s.unit.key = p.unit.key =>
               MeaningOf(s.unit) = Meaning[sn.code[p.unit.key]]
  BY <1>1 DEF IInv, PublicationIsRight, ComingMeaning
<1>8. \A r \in signOffs : r.unit.version \in 1..L /\ r.unit.version <= L
  BY <1>4, RowsAreTyped DEF IInv, RowsAreKnown
<1>9. ASSUME NEW s \in signOffs, s.unit.version = L, Carried(s, sn.code)
      PROVE  \E p \in new : /\ p.unit = [s.unit EXCEPT !.version = L + 1]
                            /\ p.at.decision = s.at.decision
  BY <1>1, <1>9 DEF IInv, PublicationIsRight
<1>10. \A t \in Tabs : work[t].kind # "signOff"
  BY <1>1 DEF IInv, SignOffsAreResolved
<1> HIDE DEF L, sn, new
<1>11. TypeOK'
  <2>1. Len(snapshots') \in Versions
    BY <1>4, <1>5 DEF Latest
  <2>2. [version: {L + 1}, key: publication.waits] \subseteq Unit
    BY <1>3, <1>4 DEF Unit
  <2> QED BY <1>1, <1>3, <1>5, <2>1, <2>2 DEF IInv, TypeOK
<1>12. RowsAreKnown'
  <2>1. \A r \in signOffs : r.unit.version <= L + 1 /\ r.at.decision <= decisions
    BY <1>4, <1>8 DEF IInv, RowsAreKnown
  <2> QED BY <1>1, <1>4, <1>5, <1>7, <2>1 DEF RowsAreKnown
<1>13. LockIsHeldOnce' /\ SignOffsAreResolved'
  BY <1>1, <1>10 DEF IInv, LockIsHeldOnce, HoldsSignOffLock, SignOffsAreResolved
<1>14. UndosAreResolved'
  <2>1. ASSUME NEW t \in Tabs, work[t].kind \in {"unit", "rows"}
        PROVE  /\ work[t].latest <= L + 1
               /\ \A r \in work[t].rows :
                    /\ r.unit.version <= work[t].latest
                    /\ r.at.decision <= decisions
                    /\ \A s \in signOffs : s.unit = r.unit => s = r
                    /\ \A s \in new : s.unit # r.unit
    <3>1. /\ work[t].latest \in Nat /\ work[t].latest <= L
          /\ work[t].rows \subseteq SignOffRow
      BY <1>4, <2>1, WorkIsTyped DEF IInv, UndosAreResolved, L, Versions
    <3>2. \A r \in work[t].rows : /\ r.unit.version <= work[t].latest
                                  /\ r.at.decision <= decisions
                                  /\ \A s \in signOffs : s.unit = r.unit => s = r
      BY <2>1 DEF IInv, UndosAreResolved
    <3>3. \A r \in work[t].rows : r.unit.version # L + 1
      BY <1>4, <3>1, <3>2, RowsAreTyped
    <3>4. \A r \in work[t].rows : \A s \in new : s.unit # r.unit
      BY <1>7, <3>3
    <3>5. work[t].latest <= L + 1
      BY <1>4, <3>1
    <3> QED BY <3>2, <3>4, <3>5
  <2> QED BY <1>1, <1>5, <2>1 DEF UndosAreResolved
<1>15. OneActiveSignOff'
  <2>1. \A r \in signOffs, s \in new : r.unit # s.unit
    BY <1>4, <1>7, <1>8
  <2> QED BY <1>1, <1>7, <2>1 DEF IInv, OneActiveSignOff
<1>16. ApprovalFollowsTheCode'
  <2>1. \A r \in signOffs : MeaningOf(r.unit)' = MeaningOf(r.unit)
    BY <1>6, <1>8 DEF MeaningOf
  <2>2. \A p \in new : MeaningOf(p.unit)' = Meaning[sn.code[p.unit.key]]
    BY <1>6, <1>7 DEF MeaningOf
  <2>3. \A r, s \in signOffs : r.at.decision = s.at.decision /\ r.unit.key = s.unit.key
          => MeaningOf(r.unit) = MeaningOf(s.unit)
    BY DEF IInv, ApprovalFollowsTheCode
  <2> QED BY <1>1, <1>7, <2>1, <2>2, <2>3 DEF ApprovalFollowsTheCode
<1>17. DecisionsAreShown'
  <2>1. ASSUME NEW r \in new, StillTheCode(r.unit)'
        PROVE  r.unit = [r.unit EXCEPT !.version = L + 1]
    BY <1>3, <1>7, RowsAreTyped DEF Unit
  <2>2. ASSUME NEW r \in signOffs, StillTheCode(r.unit)'
        PROVE  \/ \E p \in new : /\ p.unit = [r.unit EXCEPT !.version = L + 1]
                                 /\ p.at.decision = r.at.decision
               \/ <<r.at.decision, r.unit.key>> \in withdrawn
    <3> DEFINE k == r.unit.key
               v == r.unit.version
    <3>1. v \in 1..L /\ r.unit \in Unit
      BY <1>8, RowsAreTyped
    <3>2. \A w \in v..(L + 1) : SameMeaning(Code(v, k)', Code(w, k)')
      BY <1>5, <2>2 DEF StillTheCode, SameMeaning
    <3>3. Code(v, k)' = Code(v, k)
      BY <1>6, <3>1
    <3>4. \A w \in v..L : SameMeaning(Code(v, k), Code(w, k))
      <4>1. \A w \in v..L : w \in v..(L + 1) /\ w \in 1..L
        BY <1>4, <3>1
      <4> QED BY <1>6, <3>2, <3>3, <4>1
    <3>5. StillTheCode(r.unit)
      BY <3>4 DEF StillTheCode, L
    <3>6. SameMeaning(Code(L, k), sn.code[k])
      <4>1. L \in v..L /\ L + 1 \in v..(L + 1)
        BY <1>4, <3>1
      <4>2. SameMeaning(Code(v, k), Code(L, k))
        BY <3>4, <4>1
      <4>3. SameMeaning(Code(v, k), sn.code[k])
        BY <1>6, <3>2, <3>3, <4>1
      <4> QED BY <4>2, <4>3 DEF SameMeaning
    <3>7. ASSUME NEW s \in signOffs, s.unit = [r.unit EXCEPT !.version = L],
                 s.at.decision = r.at.decision
          PROVE  \E p \in new : /\ p.unit = [r.unit EXCEPT !.version = L + 1]
                                /\ p.at.decision = r.at.decision
      <4>1. s.unit.version = L /\ s.unit.key = k
        BY <3>1, <3>7 DEF Unit
      <4>2. Carried(s, sn.code)
        BY <3>6, <4>1 DEF Carried
      <4>3. [s.unit EXCEPT !.version = L + 1] = [r.unit EXCEPT !.version = L + 1]
        BY <3>1, <3>7 DEF Unit
      <4>4. PICK p \in new : /\ p.unit = [s.unit EXCEPT !.version = L + 1]
                             /\ p.at.decision = s.at.decision
        BY <1>9, <4>1, <4>2
      <4> QED BY <3>7, <4>3, <4>4
    <3> QED BY <3>5, <3>7 DEF IInv, DecisionsAreShown, L
  <2> QED BY <1>1, <1>5, <2>1, <2>2 DEF DecisionsAreShown
<1>18. PublicationIsRight'
  BY <1>1 DEF PublicationIsRight
<1>19. NothingComesBack'
  <2>1. ASSUME NEW d \in undone, d.alone
        PROVE  /\ d.latest <= L + 1 /\ d.decision <= decisions
               /\ \A r \in signOffs \union new :
                    ~(/\ r.at.decision = d.decision /\ r.unit.key = d.key
                      /\ r.unit.version >= d.latest)
    <3>1. d.latest <= L /\ d.decision <= decisions
      BY <2>1 DEF IInv, NothingComesBack, L
    <3>2. d.latest <= L + 1
      BY <1>4, <2>1, <3>1 DEF IInv, TypeOK, Taken, Versions
    <3>3. \A r \in signOffs \union new :
            ~(/\ r.at.decision = d.decision /\ r.unit.key = d.key
              /\ r.unit.version >= d.latest)
      BY <1>1, <2>1 DEF IInv, NothingComesBack, new
    <3> QED BY <3>1, <3>2, <3>3
  <2> QED BY <1>1, <1>5, <2>1 DEF NothingComesBack
<1> QED BY <1>11, <1>12, <1>13, <1>14, <1>15, <1>16, <1>17, <1>18, <1>19 DEF IInv

-----------------------------------------------------------------------------
(* Every step, and the theorems.                                           *)

\* Nothing has been signed off and nobody has begun.
LEMMA InitInv == Init => IInv
<1> SUFFICES ASSUME Init PROVE IInv
  OBVIOUS
<1>1. /\ signOffs = {} /\ waits = {} /\ publication = None /\ undone = {} /\ withdrawn = {}
      /\ work = [t \in Tabs |-> Idle] /\ decisions = 0 /\ requests = 0 /\ head = 1
  BY DEF Init
<1>2. /\ Idle.kind = "none"
      /\ work \in [Tabs -> {Idle} \union SignOffWork \union UndoWork \union WaitWork]
  BY <1>1 DEF Idle
<1>3. 1 \in Revisions /\ 1 \in Versions /\ 0 \in 0..MaxDecisions /\ 0 \in 0..MaxRequests
  BY SignOffAssumption DEF Revisions, Versions
<1>4. snapshots \in Seq(Snapshot) /\ Len(snapshots) \in Versions
  <2>1. PICK code \in Contents : snapshots = << [revision |-> 1, code |-> code] >>
    BY DEF Init
  <2>2. [revision |-> 1, code |-> code] \in Snapshot
    BY <1>3 DEF Snapshot
  <2> QED BY <1>3, <2>1, <2>2
<1>5. TypeOK
  BY <1>1, <1>2, <1>3, <1>4 DEF TypeOK
<1>6. \A t \in Tabs : work[t].kind = "none"
  BY <1>1, <1>2
<1>7. /\ RowsAreKnown /\ LockIsHeldOnce /\ SignOffsAreResolved /\ UndosAreResolved
      /\ OneActiveSignOff /\ ApprovalFollowsTheCode /\ DecisionsAreShown
      /\ PublicationIsRight /\ NothingComesBack
  BY <1>1, <1>6
     DEF RowsAreKnown, LockIsHeldOnce, HoldsSignOffLock, SignOffsAreResolved,
         UndosAreResolved, OneActiveSignOff, ApprovalFollowsTheCode, DecisionsAreShown,
         PublicationIsRight, NothingComesBack
<1> QED BY <1>5, <1>7 DEF IInv

LEMMA NextInv == IInv /\ [Next]_vars => IInv'
<1> SUFFICES ASSUME IInv, [Next]_vars PROVE IInv'
  OBVIOUS
<1>1. ASSUME NEW t \in Tabs, NEW v \in 1..Latest, NEW units \in (SUBSET UnitsOf(v)) \ {{}},
             \/ \E caller \in {"units", "concept", "file"} : StartSignOff(t, caller, units)
             \/ StartUnreview(t, v, units)
             \/ StartWait(t, v, units)
             \/ ReleaseWaits(t, units)
      PROVE  IInv'
  BY <1>1, StartSignOffInv, StartUnreviewInv, WaitsInv
<1>2. ASSUME NEW t \in Tabs, StartReset(t) PROVE IInv'
  <2>1. 1 \in 1..Latest /\ {} \in SUBSET UnitsOf(1)
    BY SnapshotFacts
  <2> QED BY <1>2, <2>1, StartUnreviewInv
<1>3. ASSUME NEW t \in Tabs,
             CommitSignOff(t) \/ CommitUndo(t) \/ CommitWait(t) \/ EndWithoutWrites(t)
      PROVE  IInv'
  BY <1>3, CommitSignOffInv, CommitUndoInv, CommitWaitInv, WaitsInv
<1>4. ASSUME NEW rev \in Revisions, NEW code \in Contents, BeginPublish(rev, code) PROVE IInv'
  BY <1>4, BeginPublishInv
<1>5. CASE CommitPublish \/ AbortPublish \/ MoveHead
  BY <1>5, CommitPublishInv, MovesInv
<1>6. CASE UNCHANGED vars
  <2>1. TypeOK'
    BY <1>6 DEF vars, IInv, TypeOK
  <2> QED BY <1>6, <2>1, NothingMoves DEF vars
<1> QED BY <1>1, <1>2, <1>3, <1>4, <1>5, <1>6 DEF Next

\* IInv holds of every state the tabs and the synchronization reach.
THEOREM Inductive == Spec => []IInv
BY InitInv, NextInv, PTL DEF Spec

\* The model's values stay in their types.
THEOREM TypeCorrect == Spec => []TypeOK
<1>1. IInv => TypeOK
  BY DEF IInv
<1> QED BY <1>1, Inductive, PTL

\* An approval stands once, is shown in the newest snapshot that still has its code, unless
\* it was withdrawn, and never stands for other code.
THEOREM ApprovalsStand == Spec => []ApprovalsStandWithTheCode
<1>1. IInv => ApprovalsStandWithTheCode
  <2> SUFFICES ASSUME IInv PROVE CurrentApprovalsShown
    BY DEF IInv, ApprovalsStandWithTheCode
  <2>1. \A r \in signOffs : UnchangedSince(r) => StillTheCode(r.unit)
    BY DEF UnchangedSince, StillTheCode
  <2> QED BY <2>1 DEF IInv, DecisionsAreShown, CurrentApprovalsShown
<1> QED BY <1>1, Inductive, PTL

\* What was taken back in the newest snapshot, while no publication had read it, stays
\* taken back.
THEOREM TakenBackForGood == Spec => []TakenBackStays
<1>1. IInv => TakenBackStays
  BY DEF IInv, NothingComesBack, TakenBackStays
<1> QED BY <1>1, Inductive, PTL
=============================================================================
