----------------------------- MODULE SourceBlobs -----------------------------
(***************************************************************************)
(* One content digest of one workspace: the row of sourceBlobs that names   *)
(* its object, the calls of persistSourceBlob that reuse, restore or upload *)
(* the object, the transactions that reference the row, and the maintenance *)
(* that prunes it (storage/source-blobs.ts), with the two readers that      *)
(* doubt it (storage/snapshot-sources.ts, sync/artifact-cache.ts).          *)
(*                                                                         *)
(* A local store derives an object's key from the content, UploadThing from *)
(* the upload lease, so each call writes an object of its own.  Every       *)
(* update of the row renews updatedAt: the age below is the time since.     *)
(* Left out: two kinds of store at once, the rows of syncArtifacts (they    *)
(* expire and cascade), and the other digests of a batch of the pruning.    *)
(***************************************************************************)
EXTENDS Naturals

CONSTANTS
  Calls,     \* calls of persistSourceBlob; each has its upload lease token
  Pruners,   \* pruning jobs; a job runs again after it has ended
  Kinds,     \* kinds of store that a behaviour may have
  None,      \* no call, job or key
  Content,   \* the key that a local store derives from the content
  MaxFaults  \* bound: deaths, outages, losses and deadlines of pruning

ASSUME SourceBlobsAssumption ==
  /\ None \notin Calls \union Pruners \union {Content}
  /\ Content \notin Calls
  /\ Kinds \subseteq {"local", "uploadthing"}
  /\ MaxFaults \in Nat

VARIABLES
  kind,    \* of the store
  row,     \* the row of the digest
  store,   \* the keys of the objects in the store
  lost,    \* history: keys whose object the store has lost by itself
  refs,    \* the calls whose caller references the row (snapshotFiles)
  call,    \* the calls of persistSourceBlob
  prune,   \* the jobs of pruneOrphanSourceBlobs
  check,   \* a pass of reviewSnapshotSourcesAvailable
  rushed,  \* history: a row was dated back while someone relied on its hour
  faults   \* faults spent of MaxFaults

vars == <<kind, row, store, lost, refs, call, prune, check, rushed, faults>>

Keys == Calls \union {Content}
CallOrNone == Calls \union {None}
KeyOrNone == Keys \union {None}

RowState == {"absent", "uploading", "ready", "failed", "deleting"}

\* new; late: an upload lease (4 minutes) is over; hour: outside the grace
\* period of the pruning, and a deletion lease is over; day: to be probed.
Age == {"new", "late", "hour", "day"}

Row == [state: RowState, age: Age,
        id: CallOrNone,                \* the call that inserted the row
        key: KeyOrNone, customId: KeyOrNone,
        upload: CallOrNone,            \* uploadLeaseToken
        deletion: Pruners \union {None}]

Call == [pc: {"start", "read", "probe", "touch", "ready", "insert", "abandoned",
              "wait", "put", "commit", "holder", "remove", "fail",
              "returned", "ended"},
         id: CallOrNone, key: KeyOrNone,  \* of the row that was read
         trusted: BOOLEAN,   \* the prefetched row may still be trusted
         looping: BOOLEAN,   \* inside the wait for a concurrent upload
         verified: BOOLEAN]  \* history: it has uploaded, or probed and renewed

Prune == [pc: {"idle", "claimed", "delete", "row", "fail"},
          id: CallOrNone, key: KeyOrNone, customId: KeyOrNone, ready: BOOLEAN]

Check == [pc: {"idle", "probe", "present", "absent"},
          id: CallOrNone, key: KeyOrNone]

TypeOK ==
  /\ kind \in Kinds
  /\ row \in Row
  /\ store \subseteq Keys /\ lost \subseteq Keys /\ refs \subseteq Calls
  /\ call \in [Calls -> Call]
  /\ prune \in [Pruners -> Prune]
  /\ check \in Check
  /\ rushed \in BOOLEAN
  /\ faults \in 0..MaxFaults

Absent == [state |-> "absent", age |-> "new", id |-> None, key |-> None,
           customId |-> None, upload |-> None, deletion |-> None]
NewCall == [pc |-> "start", id |-> None, key |-> None, trusted |-> FALSE,
            looping |-> FALSE, verified |-> FALSE]
IdlePrune == [pc |-> "idle", id |-> None, key |-> None, customId |-> None,
              ready |-> FALSE]
IdleCheck == [pc |-> "idle", id |-> None, key |-> None]

Init ==
  /\ kind \in Kinds
  /\ row = Absent
  /\ store = {} /\ lost = {} /\ refs = {}
  /\ call = [c \in Calls |-> NewCall]
  /\ prune = [p \in Pruners |-> IdlePrune]
  /\ check = IdleCheck
  /\ rushed = FALSE /\ faults = 0

Fault == faults < MaxFaults /\ faults' = faults + 1

\* The key of the object that a call stores; known before the upload starts.
CustomId(c) == IF kind = "local" THEN Content ELSE c

\* state = "ready" and verified within a day.
ReadyBlobIsUsable == row.state = "ready" /\ row.age # "day"

others == <<kind, refs, prune, check, rushed>>
objects == <<store, lost>>

Goto(c, pc) == call' = [call EXCEPT ![c].pc = pc]
Ends(c) == call' = [call EXCEPT ![c] = [NewCall EXCEPT !.pc = "ended"]]
Returns(c, verified) ==
  call' = [call EXCEPT ![c] = [NewCall EXCEPT !.pc = "returned", !.id = row.id,
                                              !.verified = verified]]

\* Inside the wait for whoever holds the digest.
Loops(c, pc) ==
  call' = [call EXCEPT ![c] = [NewCall EXCEPT !.pc = pc, !.looping = TRUE]]

\* uploadClaim, written to the row: whatever object it named is forgotten.
ClaimedBy(c) ==
  [row EXCEPT !.state = "uploading", !.age = "new", !.key = None,
              !.customId = CustomId(c), !.upload = c]

\* The claim has reached the row with this id; the call goes on to upload.
Claims(c, id) ==
  /\ row' = [ClaimedBy(c) EXCEPT !.id = id]
  /\ call' = [call EXCEPT ![c] = [NewCall EXCEPT !.pc = "put", !.id = id]]

-----------------------------------------------------------------------------
(* persistSourceBlob: find a row to reuse or claim.                        *)

Prefetches(c) ==
  /\ call[c].pc = "start"
  /\ call' = [call EXCEPT ![c] = [NewCall EXCEPT !.pc = "read", !.id = row.id,
                                  !.trusted = ReadyBlobIsUsable]]
  /\ UNCHANGED <<row, objects, others, faults>>

ReturnsPrefetched(c) ==
  /\ call[c].pc = "read" /\ call[c].trusted
  /\ call' = [call EXCEPT ![c].pc = "returned", ![c].trusted = FALSE]
  /\ UNCHANGED <<row, objects, others, faults>>

\* The first read, and the read of every poll.
ReadsRow(c) ==
  /\ call[c].pc \in {"start", "read"}
  /\ LET Reads(pc) == call' = [call EXCEPT ![c] =
                        [NewCall EXCEPT !.pc = pc, !.id = row.id, !.key = row.key,
                                        !.looping = call[c].looping]]
     IN  \/ ReadyBlobIsUsable /\ Returns(c, FALSE)
         \/ row.state = "ready" /\ ~ReadyBlobIsUsable /\ Reads("probe")
         \/ /\ row.state # "ready"
            /\ Reads(IF call[c].looping /\ row.state # "absent"
                       THEN "abandoned" ELSE "insert")
  /\ UNCHANGED <<row, objects, others, faults>>

Probes(c) ==
  /\ call[c].pc = "probe"
  /\ Goto(c, IF call[c].key \in store THEN "touch" ELSE "ready")
  /\ UNCHANGED <<row, objects, others, faults>>

RenewedNever == row

\* updatedAt is now.
Renewed == [row EXCEPT !.age = "new"]

\* reuseReadyBlob renews the row that it has proven; a row that has moved on
\* is not reused.
Touches(c) ==
  /\ call[c].pc = "touch"
  /\ IF row.id = call[c].id /\ row.state = "ready"
       THEN row' = Renewed /\ Returns(c, TRUE)
       ELSE Goto(c, "ready") /\ UNCHANGED row
  /\ UNCHANGED <<objects, others, faults>>

ClaimsReady(c) ==
  /\ call[c].pc = "ready"
  /\ IF row.id = call[c].id /\ row.state = "ready"
       THEN Claims(c, row.id)
       ELSE /\ Goto(c, IF call[c].looping THEN "abandoned" ELSE "insert")
            /\ UNCHANGED row
  /\ UNCHANGED <<objects, others, faults>>

Inserts(c) ==
  /\ call[c].pc = "insert"
  /\ IF row.state = "absent"
       THEN Claims(c, c)
       ELSE /\ Loops(c, IF call[c].looping THEN "wait" ELSE "read")
            /\ UNCHANGED row
  /\ UNCHANGED <<objects, others, faults>>

IsAbandoned ==
  row.state = "failed" \/ (row.state = "uploading" /\ row.age # "new")

ClaimsAbandoned(c) ==
  /\ call[c].pc = "abandoned"
  /\ IF row.id = call[c].id /\ IsAbandoned
       THEN Claims(c, row.id)
       ELSE Loops(c, "wait") /\ UNCHANGED row
  /\ UNCHANGED <<objects, others, faults>>

Polls(c) ==
  /\ call[c].pc = "wait"
  /\ Goto(c, "read")
  /\ UNCHANGED <<row, objects, others, faults>>

\* The wait of 30 seconds is over.
GivesUp(c) ==
  /\ call[c].pc = "wait"
  /\ Ends(c)
  /\ UNCHANGED <<row, objects, others, faults>>

-----------------------------------------------------------------------------
(* persistSourceBlob: upload under a claim.                                *)

Puts(c) ==
  /\ call[c].pc = "put"
  /\ store' = store \union {CustomId(c)}
  /\ lost' = lost \ {CustomId(c)}
  /\ Goto(c, "commit")
  /\ UNCHANGED <<row, others, faults>>

\* The upload is refused, or the provider has stored the object and neither
\* its answer nor the lookup, nor the clean-up, came through.
PutThrows(c) ==
  /\ call[c].pc = "put"
  /\ Fault
  /\ \/ UNCHANGED store
     \/ kind = "uploadthing" /\ store' = store \union {CustomId(c)}
  /\ Goto(c, "fail")
  /\ UNCHANGED <<row, lost, others>>

HoldsUpload(c) ==
  row.id = call[c].id /\ row.state = "uploading" /\ row.upload = c

Commits(c) ==
  /\ call[c].pc = "commit"
  /\ IF HoldsUpload(c)
       THEN /\ row' = [row EXCEPT !.state = "ready", !.age = "new",
                                  !.key = CustomId(c), !.upload = None]
            /\ Returns(c, TRUE)
       ELSE Goto(c, "holder") /\ UNCHANGED row
  /\ UNCHANGED <<objects, others, faults>>

ReachableByKey(c) == row.state # "absent" /\ row.key = CustomId(c)

\* A row reaches the object when it names its key, or when the key belongs to
\* the content, which whoever holds the row has stored or will store.
Reachable(c) ==
  row.state # "absent" /\ (row.key = CustomId(c) \/ kind = "local")

ReadsHolder(c) ==
  /\ call[c].pc = "holder"
  /\ Goto(c, IF Reachable(c) THEN "fail" ELSE "remove")
  /\ UNCHANGED <<row, objects, others, faults>>

Removes(c) ==
  /\ call[c].pc = "remove"
  /\ store' = store \ {CustomId(c)}
  /\ Goto(c, "fail")
  /\ UNCHANGED <<row, lost, others, faults>>

Fails(c) ==
  /\ call[c].pc = "fail"
  /\ row' = IF HoldsUpload(c)
              THEN [row EXCEPT !.state = "failed", !.age = "new", !.upload = None]
              ELSE row
  /\ Ends(c)
  /\ UNCHANGED <<objects, others, faults>>

\* The process dies, or a query or a request throws outside the upload.
Dies(c) ==
  /\ call[c].pc \notin {"start", "returned", "ended"}
  /\ Fault
  /\ Ends(c)
  /\ UNCHANGED <<row, objects, others>>

-----------------------------------------------------------------------------
(* The callers: the transaction that publishes a snapshot references the    *)
(* returned row, which the foreign key requires to exist, or it never runs; *)
(* retention deletes the snapshot, and with it the reference.               *)

References(c) ==
  /\ call[c].pc = "returned" /\ row.id = call[c].id
  /\ refs' = refs \union {c}
  /\ call' = [call EXCEPT ![c].pc = "ended", ![c].id = None]
  /\ UNCHANGED <<kind, row, objects, prune, check, rushed, faults>>

NeverReferences(c) ==
  /\ call[c].pc = "returned"
  /\ Ends(c)
  /\ UNCHANGED <<row, objects, others, faults>>

DropsReference(c) ==
  /\ c \in refs
  /\ refs' = refs \ {c}
  /\ call' = [call EXCEPT ![c].verified = FALSE]
  /\ UNCHANGED <<kind, row, objects, prune, check, rushed, faults>>
-----------------------------------------------------------------------------
(* pruneOrphanSourceBlobs.                                                 *)

IsPrunableOnce ==
  /\ refs = {}
  /\ row.state \notin {"absent", "deleting"}
  /\ row.age \in {"hour", "day"}

\* An upload lease or a deletion lease is over before the hour is.
IsPrunable ==
  /\ refs = {}
  /\ row.state # "absent"
  /\ row.age \in {"hour", "day"}

\* The claiming transaction; it copies what the row names.
PruneClaims(p) ==
  /\ prune[p].pc = "idle"
  /\ IsPrunable
  /\ prune' = [prune EXCEPT ![p] =
                 [pc |-> "claimed", id |-> row.id, key |-> row.key,
                  customId |-> row.customId, ready |-> row.state = "ready"]]
  /\ row' = [row EXCEPT !.state = "deleting", !.age = "new", !.upload = None,
                        !.deletion = p]
  /\ UNCHANGED <<kind, objects, refs, call, check, rushed, faults>>

Owns(p) ==
  row.id = prune[p].id /\ row.state = "deleting" /\ row.deletion = p

PruneEnds(p) == prune' = [prune EXCEPT ![p] = IdlePrune]
PruneGoto(p, pc) == prune' = [prune EXCEPT ![p].pc = pc]

\* The deadline of the batch has passed.
PruneReleases(p) ==
  /\ prune[p].pc = "claimed"
  /\ Fault
  /\ row' = IF Owns(p)
              THEN [row EXCEPT !.state = IF prune[p].ready THEN "ready" ELSE "failed",
                               !.age = "new", !.deletion = None]
              ELSE row
  /\ PruneEnds(p)
  /\ UNCHANGED <<kind, objects, refs, call, check, rushed>>

PruneConfirms(p) ==
  /\ prune[p].pc = "claimed"
  /\ IF Owns(p) THEN PruneGoto(p, "delete") ELSE PruneEnds(p)
  /\ UNCHANGED <<kind, row, objects, refs, call, check, rushed, faults>>

\* The key when the row had one, else the identity of the crashed upload.
DeletedKey(p) ==
  IF prune[p].key # None THEN prune[p].key ELSE prune[p].customId

PruneDeletesObject(p) ==
  /\ prune[p].pc = "delete"
  /\ store' = store \ {DeletedKey(p)}
  /\ PruneGoto(p, "row")
  /\ UNCHANGED <<kind, row, lost, refs, call, check, rushed, faults>>

RowMarkedDeleted == [row EXCEPT !.state = "deleted"]

RowDeleted == Absent

\* The foreign key refuses to delete a row that is referenced.
PruneDeletesRow(p) ==
  /\ prune[p].pc = "row"
  /\ IF Owns(p) /\ refs # {}
       THEN PruneGoto(p, "fail") /\ UNCHANGED row
       ELSE /\ row' = IF Owns(p) THEN RowDeleted ELSE row
            /\ PruneEnds(p)
  /\ UNCHANGED <<kind, objects, refs, call, check, rushed, faults>>

PruneThrows(p) ==
  /\ prune[p].pc \in {"claimed", "delete"}
  /\ Fault
  /\ PruneGoto(p, "fail")
  /\ UNCHANGED <<kind, row, objects, refs, call, check, rushed>>

PruneFails(p) ==
  /\ prune[p].pc = "fail"
  /\ row' = IF Owns(p)
              THEN [row EXCEPT !.state = "failed", !.age = "new",
                               !.deletion = None]
              ELSE row
  /\ PruneEnds(p)
  /\ UNCHANGED <<kind, objects, refs, call, check, rushed, faults>>

PruneDies(p) ==
  /\ prune[p].pc # "idle"
  /\ Fault
  /\ PruneEnds(p)
  /\ UNCHANGED <<kind, row, objects, refs, call, check, rushed>>

-----------------------------------------------------------------------------
(* The readers that doubt a ready row, and the world.                      *)

\* reviewSnapshotSourcesAvailable, for a snapshot that references the row.
CheckReads ==
  /\ check.pc = "idle" /\ refs # {} /\ row.state = "ready"
  /\ check' = [pc |-> "probe", id |-> row.id, key |-> row.key]
  /\ UNCHANGED <<kind, row, objects, refs, call, prune, rushed, faults>>

CheckProbes ==
  /\ check.pc = "probe"
  /\ check' = [check EXCEPT !.pc = IF check.key \in store THEN "present" ELSE "absent",
                            !.key = None]
  /\ UNCHANGED <<kind, row, objects, refs, call, prune, rushed, faults>>

\* Nobody spends an hour between a claim and its end, or between a returned
\* row and the transaction that references it.
WithinTheHour ==
  /\ \A c \in Calls : call[c].pc \notin {"put", "commit", "holder", "remove",
                                       "fail", "returned"}
  /\ \A p \in Pruners : prune[p].pc = "idle"

\* updatedAt = 0, in a ready row: to be probed, and no longer in its grace period.
DatesBack ==
  /\ row' = [row EXCEPT !.age = "day"]
  /\ rushed' = (rushed \/ ~WithinTheHour)

CheckWrites ==
  /\ check.pc \in {"present", "absent"}
  /\ IF row.id = check.id /\ row.state = "ready"
       THEN IF check.pc = "present"
              THEN row' = Renewed /\ UNCHANGED rushed
              ELSE DatesBack
       ELSE UNCHANGED <<row, rushed>>
  /\ check' = IdleCheck
  /\ UNCHANGED <<kind, objects, refs, call, prune, faults>>

\* The artifact cache could not read an object under the key it has copied.
CacheDistrusts ==
  /\ row.state = "ready" /\ row.age # "day"
  /\ Fault
  /\ DatesBack
  /\ UNCHANGED <<kind, objects, refs, call, prune, check>>

LosesObject ==
  /\ Fault
  /\ \E k \in store : store' = store \ {k} /\ lost' = lost \union {k}
  /\ UNCHANGED <<kind, row, refs, call, prune, check, rushed>>

Tick ==
  /\ row.state # "absent"
  /\ \/ row.age = "new" /\ row' = [row EXCEPT !.age = "late"]
     \/ row.age = "late" /\ WithinTheHour /\ row' = [row EXCEPT !.age = "hour"]
     \/ row.age = "hour" /\ row' = [row EXCEPT !.age = "day"]
  /\ UNCHANGED <<kind, objects, refs, call, prune, check, rushed, faults>>

-----------------------------------------------------------------------------
Finds(c) ==
  \/ ReturnsPrefetched(c)
  \/ (call[c].pc # "start" /\ ReadsRow(c))
  \/ Probes(c) \/ Touches(c) \/ ClaimsReady(c) \/ Inserts(c)
  \/ ClaimsAbandoned(c) \/ Polls(c)

Uploads(c) ==
  Puts(c) \/ Commits(c) \/ ReadsHolder(c) \/ Removes(c) \/ Fails(c)

Prunes(p) ==
  PruneClaims(p) \/ PruneConfirms(p) \/ PruneDeletesObject(p)
    \/ PruneDeletesRow(p) \/ PruneFails(p)

Next ==
  \/ \E c \in Calls :
       \/ Prefetches(c) \/ ReturnsPrefetched(c) \/ ReadsRow(c) \/ Probes(c)
       \/ Touches(c) \/ ClaimsReady(c) \/ Inserts(c) \/ ClaimsAbandoned(c)
       \/ Polls(c) \/ GivesUp(c)
       \/ Puts(c) \/ PutThrows(c) \/ Commits(c) \/ ReadsHolder(c)
       \/ Removes(c) \/ Fails(c) \/ Dies(c)
       \/ References(c) \/ NeverReferences(c) \/ DropsReference(c)
  \/ \E p \in Pruners :
       \/ PruneClaims(p) \/ PruneReleases(p) \/ PruneConfirms(p)
       \/ PruneDeletesObject(p) \/ PruneDeletesRow(p) \/ PruneThrows(p)
       \/ PruneFails(p) \/ PruneDies(p)
  \/ CheckReads \/ CheckProbes \/ CheckWrites
  \/ CacheDistrusts \/ LosesObject \/ Tick

\* A call that has begun takes its steps and its wait has a deadline; the
\* pruning is a periodic job; time passes.
Fairness ==
  /\ \A c \in Calls : /\ WF_vars(Finds(c)) /\ SF_vars(GivesUp(c))
                      /\ WF_vars(Uploads(c))
                      /\ WF_vars(References(c) \/ NeverReferences(c))
  /\ \A p \in Pruners : WF_vars(Prunes(p))
  /\ WF_vars(CheckProbes \/ CheckWrites)
  /\ WF_vars(Tick)

Spec == Init /\ [][Next]_vars /\ Fairness

-----------------------------------------------------------------------------
(* Properties.                                                             *)

\* A ready row names an object of the store, unless the store itself has lost
\* that object since it was put (persistSourceBlob 287-331 against
\* pruneOrphanSourceBlobs and the cleanup of a call that lost its lease).
ReadyRowNamesItsObject ==
  ~rushed /\ row.state = "ready" => row.key \in store \union lost

\* In a store whose keys derive from the content, an object that nobody is
\* working on belongs to a row: the pruning can find it (the comment at
\* source-blobs.ts:313-317), whoever died, lost a lease or threw on the way.
EveryLocalObjectHasARow ==
  ~rushed /\ kind = "local" /\ store # {} /\ WithinTheHour
    => row.state # "absent"

\* Rows and objects name each other.
RowsNameTheObjects == ReadyRowNamesItsObject /\ EveryLocalObjectHasARow

\* Deleting does not take the object under a reference that a call has made
\* within an hour of verifying it (the grace period and the reference checks of
\* the claiming transaction, 407-423).
VerifiedReferencesStay ==
  [][~rushed /\ (\E c \in refs : call[c].verified) /\ row.key \in store
       => row.key \in store' \union lost']_vars

\* Once nothing references the digest for good, its row and, in a local store,
\* its object are collected, through every death of a call or of the pruning.
OrphansAreCollected ==
  <>[](~rushed /\ refs = {})
    => <>[](row.state = "absent" /\ (kind = "local" => store = {}))
=============================================================================
