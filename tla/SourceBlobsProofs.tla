--------------------------- MODULE SourceBlobsProofs ---------------------------
(***************************************************************************)
(* Theorems about SourceBlobs, for any number of calls, pruning jobs and      *)
(* faults.  The argument: as long as no row has been dated back while someone  *)
(* relied on its hour, a call that uploads keeps the row young and out of the   *)
(* hands of the pruning, and a pruning job that is under way holds the row       *)
(* alone, so that neither removes the object of the other.                     *)
(***************************************************************************)
EXTENDS SourceBlobs, TLAPS

\* A call between its claim and its end.
AtWork == {"put", "commit", "holder", "remove", "fail"}

\* The row is in its grace period.
Young == row.age \in {"new", "late"}

\* Only a call that has committed has its own key in the row.
KeysAreOwn ==
  \A c \in Calls : row.key = c => call[c].pc \in {"returned", "ended"}

\* Only a call that has returned is verified.
OnlyReturnedAreVerified ==
  \A c \in Calls : call[c].verified => call[c].pc \in {"returned", "ended"}

\* In a local store there is one key.
LocalKeys ==
  kind = "local" => /\ store \subseteq {Content}
                    /\ row.key \in {None, Content}
                    /\ row.state # "absent" => row.customId = Content

\* The row of a call at work is neither pruned nor gone.
WorkersHoldTheRow ==
  \A c \in Calls : call[c].pc \in AtWork =>
    Young /\ row.state \notin {"absent", "deleting"}

\* A pruning job under way owns the row, as it has copied it.
PrunersOwnTheRow ==
  \A p \in Pruners : prune[p].pc # "idle" =>
    Young /\ Owns(p) /\ prune[p].key = row.key /\ prune[p].customId = row.customId

\* A verified row is not pruned before its reference is made, or while there is one.
VerifiedIsKept ==
  \A c \in Calls :
    /\ call[c].verified /\ call[c].pc = "returned" => Young
    /\ call[c].verified /\ (call[c].pc = "returned" \/ c \in refs) =>
         \A p \in Pruners : prune[p].pc = "idle"

\* Where an object is bound to be, and where it is bound not to be.
ObjectsAreThere ==
  /\ row.state = "ready" => row.key \in store \union lost
  /\ \A c \in Calls : call[c].pc = "commit" => CustomId(c) \in store \union lost
  /\ \A c \in Calls : call[c].pc = "remove" => kind # "local"
  /\ \A p \in Pruners : prune[p].pc = "claimed" /\ prune[p].ready =>
       row.key \in store \union lost
  /\ kind = "local" /\ row.state = "absent" => store = {}
  /\ \A p \in Pruners : kind = "local" /\ prune[p].pc = "row" => store = {}

Undisturbed ==
  WorkersHoldTheRow /\ PrunersOwnTheRow /\ VerifiedIsKept /\ ObjectsAreThere

IInv ==
  /\ TypeOK
  /\ KeysAreOwn /\ OnlyReturnedAreVerified /\ LocalKeys
  /\ ~rushed => Undisturbed

-----------------------------------------------------------------------------
(* What a kind of step does to the invariant.                              *)

\* The call that moves is the only one that changes.
LEMMA OneCallMoves ==
  ASSUME IInv, NEW c \in Calls, NEW r \in Call, call' = [call EXCEPT ![c] = r]
  PROVE  /\ call' \in [Calls -> Call] /\ call'[c] = r
         /\ \A d \in Calls : d # c => call'[d] = call[d]
BY DEF IInv, TypeOK

\* A call goes on while the row, the objects and the pruning stay as they are.
LEMMA CallStep ==
  ASSUME IInv, NEW c \in Calls, NEW r \in Call, call' = [call EXCEPT ![c] = r],
         UNCHANGED <<kind, row, store, lost, prune, check, rushed>>,
         refs' \subseteq refs \union {c}, faults' \in 0..MaxFaults,
         call[c].pc \in {"returned", "ended"} => r.pc \in {"returned", "ended"},
         r.pc \in AtWork => call[c].pc \in AtWork,
         r.pc = "commit" => call[c].pc = "commit",
         r.pc = "remove" => call[c].pc = "remove" \/ rushed \/ kind # "local",
         r.verified => /\ call[c].verified
                       /\ r.pc = "returned" => call[c].pc = "returned"
                       /\ c \in refs' => c \in refs \/ call[c].pc = "returned"
  PROVE  IInv'
<1>1. /\ call' \in [Calls -> Call] /\ call'[c] = r
      /\ \A d \in Calls : d # c => call'[d] = call[d]
  BY OneCallMoves
<1>2. TypeOK'
  BY <1>1 DEF IInv, TypeOK
<1>3. KeysAreOwn' /\ OnlyReturnedAreVerified' /\ LocalKeys'
  BY <1>1 DEF IInv, KeysAreOwn, OnlyReturnedAreVerified, LocalKeys
<1>4. ASSUME ~rushed PROVE Undisturbed'
  <2>1. Undisturbed
    BY <1>4 DEF IInv
  <2>2. WorkersHoldTheRow'
    BY <1>1, <2>1 DEF Undisturbed, WorkersHoldTheRow, Young
  <2>3. PrunersOwnTheRow'
    BY <2>1 DEF Undisturbed, PrunersOwnTheRow, Young, Owns
  <2>4. VerifiedIsKept'
    BY <1>1, <2>1 DEF Undisturbed, VerifiedIsKept, Young
  <2>5. ObjectsAreThere'
    BY <1>1, <1>4, <2>1 DEF Undisturbed, ObjectsAreThere, CustomId
  <2> QED BY <2>2, <2>3, <2>4, <2>5 DEF Undisturbed
<1> QED BY <1>2, <1>3, <1>4 DEF IInv

\* The steps before a claim, and those of a call that has ended its work.
Early == {"start", "read", "probe", "touch", "ready", "insert", "abandoned", "wait"}

\* What a call starts from.
LEMMA CallsAreTyped ==
  ASSUME IInv
  PROVE  /\ row \in Row /\ row.id \in CallOrNone /\ row.key \in KeyOrNone
         /\ NewCall \in Call /\ ~NewCall.verified
         /\ \A c \in Calls : call[c] \in Call
         /\ faults \in 0..MaxFaults
BY DEF IInv, TypeOK, Row, Call, NewCall, CallOrNone, KeyOrNone

\* A call moves to another step without touching anything.
LEMMA GotoInv ==
  ASSUME IInv, NEW c \in Calls, NEW pc \in Early \union AtWork, Goto(c, pc),
         UNCHANGED <<kind, row, store, lost, prune, check, rushed, refs>>,
         faults' \in 0..MaxFaults,
         call[c].pc \notin {"returned", "ended"},
         pc \in AtWork => call[c].pc \in AtWork /\ pc # "commit",
         pc = "remove" => rushed \/ kind # "local"
  PROVE  IInv'
<1> DEFINE r == [call[c] EXCEPT !.pc = pc]
<1>1. call[c] \in Call
  BY CallsAreTyped
<1>2. r \in Call /\ r.pc = pc /\ r.verified = call[c].verified
  BY <1>1 DEF Call, Early, AtWork
<1>3. call' = [call EXCEPT ![c] = r]
  BY DEF Goto
<1>4. ~r.verified
  BY <1>2 DEF IInv, OnlyReturnedAreVerified
<1> HIDE DEF r
<1>5. refs' \subseteq refs \union {c}
  OBVIOUS
<1> QED BY <1>2, <1>3, <1>4, <1>5, CallStep DEF AtWork

\* A call starts over, or ends.
LEMMA RestartInv ==
  ASSUME IInv, NEW c \in Calls, NEW r \in Call, call' = [call EXCEPT ![c] = r],
         UNCHANGED <<kind, row, store, lost, prune, check, rushed, refs>>,
         faults' \in 0..MaxFaults,
         ~r.verified,
         \/ r.pc = "ended"
         \/ /\ call[c].pc \notin {"returned", "ended"}
            /\ r.pc \in Early \union {"returned"}
  PROVE  IInv'
<1>1. refs' \subseteq refs \union {c}
  OBVIOUS
<1> QED BY <1>1, CallStep DEF Early, AtWork

\* Looking for a row to reuse.
LEMMA ReadsInv ==
  ASSUME IInv, NEW c \in Calls, Prefetches(c) \/ ReturnsPrefetched(c) \/ ReadsRow(c)
  PROVE  IInv'
<1>1. /\ UNCHANGED <<kind, row, store, lost, prune, check, rushed, refs>>
      /\ faults' \in 0..MaxFaults
  BY CallsAreTyped DEF Prefetches, ReturnsPrefetched, ReadsRow, objects, others
<1>2. call[c].pc \in {"start", "read"} /\ call[c] \in Call
  BY CallsAreTyped DEF Prefetches, ReturnsPrefetched, ReadsRow
<1>3. CASE Prefetches(c)
  <2> DEFINE r == [NewCall EXCEPT !.pc = "read", !.id = row.id, !.trusted = ReadyBlobIsUsable]
  <2>1. ReadyBlobIsUsable \in BOOLEAN
    BY DEF ReadyBlobIsUsable
  <2>2. r \in Call /\ r.pc = "read" /\ ~r.verified
    BY <2>1, CallsAreTyped DEF Call
  <2>3. call' = [call EXCEPT ![c] = r]
    BY <1>3 DEF Prefetches
  <2> HIDE DEF r
  <2> QED BY <1>1, <1>2, <2>2, <2>3, RestartInv DEF Early
<1>4. CASE ReturnsPrefetched(c)
  <2> DEFINE r == [call[c] EXCEPT !.pc = "returned", !.trusted = FALSE]
  <2>1. r \in Call /\ r.pc = "returned" /\ r.verified = call[c].verified
    BY <1>2 DEF Call
  <2>2. ~r.verified
    BY <1>2, <2>1 DEF IInv, OnlyReturnedAreVerified
  <2>3. call' = [call EXCEPT ![c] = r]
    BY <1>4 DEF ReturnsPrefetched
  <2> HIDE DEF r
  <2> QED BY <1>1, <1>2, <2>1, <2>2, <2>3, RestartInv
<1>5. CASE ReadsRow(c) /\ Returns(c, FALSE)
  <2> DEFINE r == [NewCall EXCEPT !.pc = "returned", !.id = row.id, !.verified = FALSE]
  <2>1. r \in Call /\ r.pc = "returned" /\ ~r.verified
    BY CallsAreTyped DEF Call
  <2>2. call' = [call EXCEPT ![c] = r]
    BY <1>5 DEF Returns
  <2> HIDE DEF r
  <2> QED BY <1>1, <1>2, <2>1, <2>2, RestartInv
<1>6. ASSUME NEW pc \in {"probe", "insert", "abandoned"},
             call' = [call EXCEPT ![c] =
                       [NewCall EXCEPT !.pc = pc, !.id = row.id, !.key = row.key,
                                       !.looping = call[c].looping]]
      PROVE  IInv'
  <2> DEFINE r == [NewCall EXCEPT !.pc = pc, !.id = row.id, !.key = row.key,
                                  !.looping = call[c].looping]
  <2>1. call[c].looping \in BOOLEAN
    BY <1>2 DEF Call
  <2>2. r \in Call /\ r.pc = pc /\ ~r.verified
    BY <2>1, CallsAreTyped DEF Call
  <2>3. call' = [call EXCEPT ![c] = r]
    BY <1>6
  <2> HIDE DEF r
  <2> QED BY <1>1, <1>2, <2>2, <2>3, RestartInv DEF Early
<1>7. CASE ReadsRow(c) /\ ~Returns(c, FALSE)
  BY <1>6, <1>7 DEF ReadsRow
<1> QED BY <1>3, <1>4, <1>5, <1>7

\* A call waits.
LEMMA LoopsInv ==
  ASSUME IInv, NEW c \in Calls, NEW pc \in Early, Loops(c, pc),
         call[c].pc \notin {"returned", "ended"},
         UNCHANGED <<kind, row, store, lost, prune, check, rushed, refs>>,
         faults' \in 0..MaxFaults
  PROVE  IInv'
<1> DEFINE r == [NewCall EXCEPT !.pc = pc, !.looping = TRUE]
<1>1. r \in Call /\ r.pc = pc /\ ~r.verified
  BY CallsAreTyped DEF Call, Early
<1>2. call' = [call EXCEPT ![c] = r]
  BY DEF Loops
<1> HIDE DEF r
<1> QED BY <1>1, <1>2, RestartInv

\* A call ends, and leaves the row as it is.
LEMMA EndsInv ==
  ASSUME IInv, NEW c \in Calls, Ends(c),
         UNCHANGED <<kind, row, store, lost, prune, check, rushed, refs>>,
         faults' \in 0..MaxFaults
  PROVE  IInv'
<1> DEFINE r == [NewCall EXCEPT !.pc = "ended"]
<1>1. r \in Call /\ r.pc = "ended" /\ ~r.verified
  BY CallsAreTyped DEF Call
<1>2. call' = [call EXCEPT ![c] = r]
  BY DEF Ends
<1> HIDE DEF r
<1> QED BY <1>1, <1>2, RestartInv

\* The call writes the row, which is not in the hands of the pruning: it claims it, renews
\* it, or ends its claim.
LEMMA TakesRow ==
  ASSUME IInv, NEW c \in Calls, NEW r \in Call, call' = [call EXCEPT ![c] = r],
         UNCHANGED <<kind, store, lost, refs, prune, check, rushed, faults>>,
         row.state # "deleting",
         row' \in Row, row'.state \notin {"absent", "deleting"}, Young',
         call[c].pc \notin {"returned", "ended"}, r.pc \notin {"commit", "remove"},
         r.verified => r.pc = "returned",
         \/ row'.key \in {None, row.key}
         \/ row'.key = CustomId(c) /\ r.pc = "returned",
         kind = "local" => row'.customId = Content,
         ~rushed /\ row'.state = "ready" => row'.key \in store \union lost
  PROVE  IInv'
<1>1. /\ call' \in [Calls -> Call] /\ call'[c] = r
      /\ \A d \in Calls : d # c => call'[d] = call[d]
  BY OneCallMoves
<1>2. TypeOK'
  BY <1>1 DEF IInv, TypeOK
<1>3. KeysAreOwn'
  BY <1>1, SourceBlobsAssumption DEF IInv, KeysAreOwn, CustomId
<1>4. OnlyReturnedAreVerified' /\ LocalKeys'
  BY <1>1 DEF IInv, OnlyReturnedAreVerified, LocalKeys, CustomId
<1>5. ASSUME ~rushed PROVE Undisturbed'
  <2>1. Undisturbed
    BY <1>5 DEF IInv
  <2>2. \A p \in Pruners : prune[p].pc = "idle"
    BY <2>1 DEF Undisturbed, PrunersOwnTheRow, Owns
  <2>3. WorkersHoldTheRow' /\ PrunersOwnTheRow'
    BY <2>2 DEF WorkersHoldTheRow, PrunersOwnTheRow, Young
  <2>4. VerifiedIsKept'
    BY <2>2 DEF VerifiedIsKept, Young
  <2>5. ObjectsAreThere'
    BY <1>1, <1>5, <2>1, <2>2 DEF Undisturbed, ObjectsAreThere, CustomId
  <2> QED BY <2>3, <2>4, <2>5 DEF Undisturbed
<1> QED BY <1>2, <1>3, <1>4, <1>5 DEF IInv

\* A claim takes the row, or the digest that has none.
LEMMA ClaimInv ==
  ASSUME IInv, NEW c \in Calls, NEW id \in CallOrNone, Claims(c, id),
         UNCHANGED <<kind, store, lost, refs, prune, check, rushed, faults>>,
         row.state # "deleting", call[c].pc \notin {"returned", "ended"}
  PROVE  IInv'
<1> DEFINE r == [NewCall EXCEPT !.pc = "put", !.id = id]
<1>1. r \in Call /\ r.pc = "put" /\ ~r.verified
  BY CallsAreTyped DEF Call
<1>2. call' = [call EXCEPT ![c] = r]
  BY DEF Claims
<1>3. /\ CustomId(c) \in KeyOrNone
      /\ kind = "local" => CustomId(c) = Content
  BY DEF CustomId, KeyOrNone, Keys
<1>4. /\ row' \in Row /\ row'.state = "uploading" /\ row'.age = "new"
      /\ row'.key = None /\ row'.customId = CustomId(c)
  BY <1>3, CallsAreTyped DEF Claims, ClaimedBy, Row, RowState, Age, CallOrNone, KeyOrNone, Keys
<1> HIDE DEF r
<1> QED BY <1>1, <1>2, <1>3, <1>4, TakesRow DEF Young

\* The steps that end in a claim or find the row taken.
LEMMA ClaimsInv ==
  ASSUME IInv, NEW c \in Calls, ClaimsReady(c) \/ Inserts(c) \/ ClaimsAbandoned(c)
  PROVE  IInv'
<1>1. /\ UNCHANGED <<kind, store, lost, prune, check, rushed, refs, faults>>
      /\ faults' \in 0..MaxFaults
  BY CallsAreTyped DEF ClaimsReady, Inserts, ClaimsAbandoned, objects, others
<1>2. call[c].pc \in {"ready", "insert", "abandoned"}
  BY DEF ClaimsReady, Inserts, ClaimsAbandoned
<1>3. ASSUME NEW id \in CallOrNone, Claims(c, id), row.state # "deleting" PROVE IInv'
  BY <1>1, <1>2, <1>3, ClaimInv
<1>4. ASSUME NEW pc \in Early, Loops(c, pc) \/ Goto(c, pc), UNCHANGED row PROVE IInv'
  BY <1>1, <1>2, <1>4, LoopsInv, GotoInv DEF Early, AtWork
<1>5. CASE ClaimsReady(c)
  BY <1>3, <1>4, <1>5, CallsAreTyped DEF ClaimsReady, Early
<1>6. CASE Inserts(c)
  BY <1>3, <1>4, <1>6 DEF Inserts, Early, CallOrNone
<1>7. CASE ClaimsAbandoned(c)
  BY <1>3, <1>4, <1>7, CallsAreTyped DEF ClaimsAbandoned, IsAbandoned, Early
<1> QED BY <1>5, <1>6, <1>7

\* A ready row is proven, and renewed if it has not moved on.
LEMMA ProvesInv == ASSUME IInv, NEW c \in Calls, Probes(c) \/ Touches(c) PROVE IInv'
<1>1. /\ UNCHANGED <<kind, store, lost, prune, check, rushed, refs, faults>>
      /\ faults' \in 0..MaxFaults
  BY CallsAreTyped DEF Probes, Touches, objects, others
<1>2. call[c].pc \in {"probe", "touch"}
  BY DEF Probes, Touches
<1>3. ASSUME NEW pc \in Early, Goto(c, pc), UNCHANGED row PROVE IInv'
  BY <1>1, <1>2, <1>3, GotoInv DEF Early, AtWork
<1>4. CASE row' = Renewed /\ Returns(c, TRUE) /\ row.state = "ready"
  <2> DEFINE r == [NewCall EXCEPT !.pc = "returned", !.id = row.id, !.verified = TRUE]
  <2>1. r \in Call /\ r.pc = "returned"
    BY CallsAreTyped DEF Call
  <2>2. call' = [call EXCEPT ![c] = r]
    BY <1>4 DEF Returns
  <2>3. /\ row' \in Row /\ row'.state = "ready" /\ row'.age = "new"
        /\ row'.key = row.key /\ row'.customId = row.customId
    BY <1>4, CallsAreTyped DEF Renewed, Row, RowState, Age
  <2>4. kind = "local" => row'.customId = Content
    BY <1>4, <2>3 DEF IInv, LocalKeys
  <2>5. ~rushed => row.key \in store \union lost
    BY <1>4 DEF IInv, Undisturbed, ObjectsAreThere
  <2> HIDE DEF r
  <2> QED BY <1>1, <1>2, <1>4, <2>1, <2>2, <2>3, <2>4, <2>5, TakesRow DEF Young
<1>5. CASE Probes(c)
  BY <1>3, <1>5 DEF Probes, Early
<1>6. CASE Touches(c)
  BY <1>3, <1>4, <1>6 DEF Touches, Early
<1> QED BY <1>5, <1>6

\* The steps of a call that only waits, gives up or dies.
LEMMA WaitsInv ==
  ASSUME IInv, NEW c \in Calls,
         Polls(c) \/ GivesUp(c) \/ ReadsHolder(c) \/ Dies(c) \/ NeverReferences(c)
  PROVE  IInv'
<1>1. /\ UNCHANGED <<kind, row, store, lost, prune, check, rushed, refs>>
      /\ faults' \in 0..MaxFaults
  BY CallsAreTyped, SourceBlobsAssumption
     DEF Polls, GivesUp, ReadsHolder, Dies, NeverReferences, Fault, objects, others
<1>2. CASE Polls(c)
  BY <1>1, <1>2, GotoInv DEF Polls, Early, AtWork
<1>3. CASE Ends(c)
  BY <1>1, <1>3, EndsInv
<1>4. CASE ReadsHolder(c)
  <2>1. call[c].pc = "holder"
    BY <1>4 DEF ReadsHolder
  <2>2. ~rushed => row.state # "absent"
    BY <2>1 DEF IInv, Undisturbed, WorkersHoldTheRow, AtWork
  <2>3. CASE Reachable(c)
    BY <1>1, <1>4, <2>1, <2>3, GotoInv DEF ReadsHolder, Early, AtWork
  <2>4. CASE ~Reachable(c)
    <3>1. rushed \/ kind # "local"
      BY <2>2, <2>4 DEF Reachable
    <3> QED BY <1>1, <1>4, <2>1, <2>4, <3>1, GotoInv DEF ReadsHolder, Early, AtWork
  <2> QED BY <2>3, <2>4
<1> QED BY <1>2, <1>3, <1>4 DEF GivesUp, Dies, NeverReferences

\* An object is put into the store, and named by whoever put it.
LEMMA PutsInv == ASSUME IInv, NEW c \in Calls, Puts(c) \/ PutThrows(c) PROVE IInv'
<1>1. /\ UNCHANGED <<kind, row, prune, check, rushed, refs>>
      /\ faults' \in 0..MaxFaults /\ call[c].pc = "put"
      /\ store \union lost \subseteq store' \union lost'
      /\ store' \subseteq store \union {CustomId(c)} /\ lost' \subseteq lost
  BY CallsAreTyped, SourceBlobsAssumption DEF Puts, PutThrows, Fault, others
<1>2. PICK pc \in {"commit", "fail"} : /\ Goto(c, pc)
                                       /\ pc = "commit" => CustomId(c) \in store'
                                       /\ pc = "fail" => kind # "local" \/ UNCHANGED store
  BY SourceBlobsAssumption DEF Puts, PutThrows
<1> DEFINE r == [call[c] EXCEPT !.pc = pc]
<1>3. r \in Call /\ r.pc = pc /\ r.verified = call[c].verified
  BY CallsAreTyped DEF Call
<1>4. call' = [call EXCEPT ![c] = r]
  BY <1>2 DEF Goto
<1> HIDE DEF r
<1>5. /\ call' \in [Calls -> Call] /\ call'[c] = r
      /\ \A d \in Calls : d # c => call'[d] = call[d]
  BY <1>3, <1>4, OneCallMoves
<1>6. ~r.verified
  BY <1>1, <1>3 DEF IInv, OnlyReturnedAreVerified
<1>7. CustomId(c) \in Keys /\ (kind = "local" => CustomId(c) = Content)
  BY DEF CustomId, Keys
<1>8. TypeOK'
  BY <1>1, <1>5, <1>7 DEF IInv, TypeOK
<1>9. KeysAreOwn' /\ OnlyReturnedAreVerified' /\ LocalKeys'
  BY <1>1, <1>3, <1>5, <1>6, <1>7 DEF IInv, KeysAreOwn, OnlyReturnedAreVerified, LocalKeys
<1>10. ASSUME ~rushed PROVE Undisturbed'
  <2>1. Undisturbed /\ row.state \notin {"absent", "deleting"}
    BY <1>1, <1>10 DEF IInv, Undisturbed, WorkersHoldTheRow, AtWork
  <2>2. \A p \in Pruners : prune[p].pc = "idle"
    BY <2>1 DEF Undisturbed, PrunersOwnTheRow, Owns
  <2>3. WorkersHoldTheRow' /\ PrunersOwnTheRow'
    BY <1>1, <1>5, <2>1, <2>2
       DEF Undisturbed, WorkersHoldTheRow, PrunersOwnTheRow, Young, AtWork
  <2>4. VerifiedIsKept'
    BY <1>1, <1>5, <1>6, <2>1, <2>2 DEF Undisturbed, VerifiedIsKept, Young
  <2>5. ObjectsAreThere'
    BY <1>1, <1>2, <1>3, <1>5, <2>1, <2>2 DEF Undisturbed, ObjectsAreThere, CustomId
  <2> QED BY <2>3, <2>4, <2>5 DEF Undisturbed
<1> QED BY <1>1, <1>8, <1>9, <1>10 DEF IInv

\* The end of a claim.
LEMMA CommitsInv == ASSUME IInv, NEW c \in Calls, Commits(c) \/ Fails(c) PROVE IInv'
<1>1. /\ UNCHANGED <<kind, store, lost, prune, check, rushed, refs, faults>>
      /\ faults' \in 0..MaxFaults
      /\ call[c].pc \in {"commit", "fail"}
  BY CallsAreTyped DEF Commits, Fails, objects, others
<1>2. /\ CustomId(c) \in KeyOrNone
      /\ kind = "local" => CustomId(c) = Content
  BY DEF CustomId, KeyOrNone, Keys
<1>3. CASE Commits(c) /\ HoldsUpload(c)
  <2> DEFINE r == [NewCall EXCEPT !.pc = "returned", !.id = row.id, !.verified = TRUE]
  <2>1. r \in Call /\ r.pc = "returned"
    BY CallsAreTyped DEF Call
  <2>2. call' = [call EXCEPT ![c] = r]
    BY <1>3 DEF Commits, Returns
  <2>3. /\ row' \in Row /\ row'.state = "ready" /\ row'.age = "new"
        /\ row'.key = CustomId(c) /\ row'.customId = row.customId
    BY <1>2, <1>3, CallsAreTyped DEF Commits, Row, RowState, Age, CallOrNone
  <2>4. row.state = "uploading"
    BY <1>3 DEF HoldsUpload
  <2>5. kind = "local" => row'.customId = Content
    BY <2>3, <2>4 DEF IInv, LocalKeys
  <2>6. ~rushed => CustomId(c) \in store \union lost
    BY <1>3 DEF Commits, IInv, Undisturbed, ObjectsAreThere
  <2> HIDE DEF r
  <2> QED BY <1>1, <2>1, <2>2, <2>3, <2>4, <2>5, <2>6, TakesRow DEF Young
<1>4. CASE Fails(c) /\ HoldsUpload(c)
  <2> DEFINE r == [NewCall EXCEPT !.pc = "ended"]
  <2>1. r \in Call /\ r.pc = "ended" /\ ~r.verified
    BY CallsAreTyped DEF Call
  <2>2. call' = [call EXCEPT ![c] = r]
    BY <1>4 DEF Fails, Ends
  <2>3. /\ row' \in Row /\ row'.state = "failed" /\ row'.age = "new"
        /\ row'.key = row.key /\ row'.customId = row.customId
    BY <1>4, CallsAreTyped DEF Fails, Row, RowState, Age, CallOrNone
  <2>4. row.state = "uploading"
    BY <1>4 DEF HoldsUpload
  <2>5. kind = "local" => row'.customId = Content
    BY <2>3, <2>4 DEF IInv, LocalKeys
  <2> HIDE DEF r
  <2> QED BY <1>1, <2>1, <2>2, <2>3, <2>4, <2>5, TakesRow DEF Young
<1>5. CASE Commits(c) /\ ~HoldsUpload(c)
  BY <1>1, <1>5, GotoInv DEF Commits, Early, AtWork
<1>6. CASE Fails(c) /\ ~HoldsUpload(c)
  BY <1>1, <1>6, EndsInv DEF Fails
<1> QED BY <1>3, <1>4, <1>5, <1>6

\* A call that lost its claim removes the object that only it can have named.
LEMMA RemovesInv == ASSUME IInv, NEW c \in Calls, Removes(c) PROVE IInv'
<1> DEFINE r == [call[c] EXCEPT !.pc = "fail"]
<1>1. /\ UNCHANGED <<kind, row, lost, prune, check, rushed, refs, faults>>
      /\ store' = store \ {CustomId(c)} /\ call[c].pc = "remove"
  BY DEF Removes, others
<1>2. r \in Call /\ r.pc = "fail" /\ r.verified = call[c].verified
  BY CallsAreTyped DEF Call
<1>3. call' = [call EXCEPT ![c] = r]
  BY DEF Removes, Goto
<1> HIDE DEF r
<1>4. /\ call' \in [Calls -> Call] /\ call'[c] = r
      /\ \A d \in Calls : d # c => call'[d] = call[d]
  BY <1>2, <1>3, OneCallMoves
<1>5. ~r.verified
  BY <1>1, <1>2 DEF IInv, OnlyReturnedAreVerified
<1>6. TypeOK'
  BY <1>1, <1>4 DEF IInv, TypeOK
<1>7. KeysAreOwn' /\ OnlyReturnedAreVerified' /\ LocalKeys'
  BY <1>1, <1>2, <1>4, <1>5 DEF IInv, KeysAreOwn, OnlyReturnedAreVerified, LocalKeys
<1>8. ASSUME ~rushed PROVE Undisturbed'
  <2>1. Undisturbed /\ row.state \notin {"absent", "deleting"}
    BY <1>1, <1>8 DEF IInv, Undisturbed, WorkersHoldTheRow, AtWork
  <2>2. \A p \in Pruners : prune[p].pc = "idle"
    BY <2>1 DEF Undisturbed, PrunersOwnTheRow, Owns
  <2>3. WorkersHoldTheRow' /\ PrunersOwnTheRow'
    BY <1>1, <1>4, <2>1, <2>2
       DEF Undisturbed, WorkersHoldTheRow, PrunersOwnTheRow, Young, AtWork
  <2>4. VerifiedIsKept'
    BY <1>1, <1>4, <1>5, <2>1, <2>2 DEF Undisturbed, VerifiedIsKept, Young
  <2>5. kind # "local" /\ CustomId(c) = c /\ row.key # c
    BY <1>1, <2>1 DEF Undisturbed, ObjectsAreThere, CustomId, IInv, KeysAreOwn
  <2>6. \A d \in Calls : d # c => CustomId(d) # c
    BY <2>5 DEF CustomId
  <2>7. ObjectsAreThere'
    BY <1>1, <1>2, <1>4, <2>1, <2>2, <2>5, <2>6 DEF Undisturbed, ObjectsAreThere, CustomId
  <2> QED BY <2>3, <2>4, <2>7 DEF Undisturbed
<1> QED BY <1>1, <1>6, <1>7, <1>8 DEF IInv

\* The reference to a row is made by the caller it was returned to, and dropped.
LEMMA ReferencesInv ==
  ASSUME IInv, NEW c \in Calls, References(c) \/ DropsReference(c) PROVE IInv'
<1>1. /\ UNCHANGED <<kind, row, store, lost, prune, check, rushed, faults>>
      /\ faults' \in 0..MaxFaults /\ refs' \subseteq refs \union {c}
  BY CallsAreTyped DEF References, DropsReference, objects
<1>2. CASE References(c)
  <2> DEFINE r == [call[c] EXCEPT !.pc = "ended", !.id = None]
  <2>1. r \in Call /\ r.pc = "ended" /\ r.verified = call[c].verified
    BY CallsAreTyped DEF Call, CallOrNone
  <2>2. call' = [call EXCEPT ![c] = r] /\ call[c].pc = "returned"
    BY <1>2 DEF References
  <2> HIDE DEF r
  <2> QED BY <1>1, <2>1, <2>2, CallStep DEF AtWork
<1>3. CASE DropsReference(c)
  <2> DEFINE r == [call[c] EXCEPT !.verified = FALSE]
  <2>1. r \in Call /\ r.pc = call[c].pc /\ ~r.verified
    BY CallsAreTyped DEF Call
  <2>2. call' = [call EXCEPT ![c] = r]
    BY <1>3 DEF DropsReference
  <2> HIDE DEF r
  <2> QED BY <1>1, <2>1, <2>2, CallStep DEF AtWork
<1> QED BY <1>2, <1>3

-----------------------------------------------------------------------------
(* The steps of the pruning.                                               *)

\* The job that moves is the only one that changes.
LEMMA OneJobMoves ==
  ASSUME IInv, NEW p \in Pruners, NEW x \in Prune, prune' = [prune EXCEPT ![p] = x]
  PROVE  /\ prune' \in [Pruners -> Prune] /\ prune'[p] = x
         /\ \A o \in Pruners : o # p => prune'[o] = prune[o]
BY DEF IInv, TypeOK

\* What the steps set a job to.
LEMMA JobsAreTyped ==
  ASSUME IInv
  PROVE  /\ IdlePrune \in Prune /\ IdlePrune.pc = "idle"
         /\ \A p \in Pruners : prune[p] \in Prune
BY DEF IInv, TypeOK, Prune, IdlePrune, CallOrNone, KeyOrNone

\* While a job is under way, no other is, and no call is at work.
LEMMA JobIsAlone ==
  ASSUME IInv, ~rushed, NEW p \in Pruners, prune[p].pc # "idle"
  PROVE  /\ Undisturbed /\ Owns(p) /\ row.state = "deleting"
         /\ \A o \in Pruners \ {p} : prune[o].pc = "idle"
         /\ \A c \in Calls : call[c].pc \notin AtWork
         /\ \A c \in Calls : ~(call[c].verified /\ (call[c].pc = "returned" \/ c \in refs))
<1>1. Undisturbed
  BY DEF IInv
<1>2. Owns(p) /\ row.state = "deleting" /\ \A o \in Pruners \ {p} : prune[o].pc = "idle"
  BY <1>1 DEF Undisturbed, PrunersOwnTheRow, Owns
<1>3. \A c \in Calls : call[c].pc \notin AtWork
  BY <1>1, <1>2 DEF Undisturbed, WorkersHoldTheRow
<1>4. \A c \in Calls : ~(call[c].verified /\ (call[c].pc = "returned" \/ c \in refs))
  BY <1>1 DEF Undisturbed, VerifiedIsKept
<1> QED BY <1>1, <1>2, <1>3, <1>4

\* A job goes on or ends while the row and the objects stay as they are.
LEMMA JobStep ==
  ASSUME IInv, NEW p \in Pruners, NEW x \in Prune, prune' = [prune EXCEPT ![p] = x],
         UNCHANGED <<kind, row, store, lost, refs, call, check, rushed>>,
         faults' \in 0..MaxFaults, prune[p].pc # "idle",
         \/ x.pc = "idle"
         \/ /\ x.pc \in {"delete", "fail"}
            /\ x.id = prune[p].id /\ x.key = prune[p].key /\ x.customId = prune[p].customId
  PROVE  IInv'
<1>1. /\ prune' \in [Pruners -> Prune] /\ prune'[p] = x
      /\ \A o \in Pruners : o # p => prune'[o] = prune[o]
  BY OneJobMoves
<1>2. TypeOK'
  BY <1>1 DEF IInv, TypeOK
<1>3. KeysAreOwn' /\ OnlyReturnedAreVerified' /\ LocalKeys'
  BY DEF IInv, KeysAreOwn, OnlyReturnedAreVerified, LocalKeys
<1>4. ASSUME ~rushed PROVE Undisturbed'
  <2>1. Undisturbed
    BY <1>4 DEF IInv
  <2>2. WorkersHoldTheRow'
    BY <2>1 DEF Undisturbed, WorkersHoldTheRow, Young
  <2>3. PrunersOwnTheRow'
    BY <1>1, <2>1 DEF Undisturbed, PrunersOwnTheRow, Young, Owns
  <2>4. VerifiedIsKept'
    BY <1>1, <2>1 DEF Undisturbed, VerifiedIsKept, Young
  <2>5. ObjectsAreThere'
    BY <1>1, <2>1 DEF Undisturbed, ObjectsAreThere, CustomId
  <2> QED BY <2>2, <2>3, <2>4, <2>5 DEF Undisturbed
<1> QED BY <1>2, <1>3, <1>4 DEF IInv

\* A job ends and gives the row up: back to where it was, to the next claim, or for good.
LEMMA JobGivesRowUp ==
  ASSUME IInv, NEW p \in Pruners, PruneEnds(p), prune[p].pc # "idle",
         UNCHANGED <<kind, store, lost, refs, call, check, rushed>>,
         faults' \in 0..MaxFaults,
         row' \in Row, Young', row'.key \in {None, row.key},
         kind = "local" /\ row'.state # "absent" => row'.customId = Content,
         ~rushed =>
           /\ row'.state = "ready" => row'.key \in store \union lost
           /\ kind = "local" /\ row'.state = "absent" => store = {}
  PROVE  IInv'
<1>1. /\ prune' \in [Pruners -> Prune] /\ prune'[p].pc = "idle"
      /\ \A o \in Pruners : o # p => prune'[o] = prune[o]
  BY JobsAreTyped, OneJobMoves DEF PruneEnds
<1>2. TypeOK'
  BY <1>1 DEF IInv, TypeOK
<1>3. KeysAreOwn' /\ OnlyReturnedAreVerified' /\ LocalKeys'
  BY SourceBlobsAssumption DEF IInv, KeysAreOwn, OnlyReturnedAreVerified, LocalKeys
<1>4. ASSUME ~rushed PROVE Undisturbed'
  <2>1. /\ Undisturbed /\ \A o \in Pruners : prune'[o].pc = "idle"
        /\ \A c \in Calls : call[c].pc \notin AtWork
    BY <1>1, <1>4, JobIsAlone
  <2>2. WorkersHoldTheRow' /\ PrunersOwnTheRow' /\ VerifiedIsKept'
    BY <2>1 DEF WorkersHoldTheRow, PrunersOwnTheRow, VerifiedIsKept, Young
  <2>3. ObjectsAreThere'
    BY <1>4, <2>1 DEF Undisturbed, ObjectsAreThere, AtWork, CustomId
  <2> QED BY <2>2, <2>3 DEF Undisturbed
<1> QED BY <1>2, <1>3, <1>4 DEF IInv

\* The claim of the pruning finds nobody at work on the row and nobody relying on it.
LEMMA PruneClaimsInv == ASSUME IInv, NEW p \in Pruners, PruneClaims(p) PROVE IInv'
<1> DEFINE x == [pc |-> "claimed", id |-> row.id, key |-> row.key,
                 customId |-> row.customId, ready |-> row.state = "ready"]
<1>1. /\ UNCHANGED <<kind, store, lost, refs, call, check, rushed, faults>>
      /\ refs = {} /\ row.state # "absent" /\ ~Young
  BY DEF PruneClaims, IsPrunable, objects, Young
<1>2. /\ row' \in Row /\ row'.state = "deleting" /\ row'.age = "new" /\ row'.deletion = p
      /\ row'.id = row.id /\ row'.key = row.key /\ row'.customId = row.customId
  BY CallsAreTyped DEF PruneClaims, Row, RowState, Age, CallOrNone
<1>3. /\ x \in Prune /\ x.pc = "claimed" /\ x.id = row.id /\ x.key = row.key
      /\ x.customId = row.customId
  BY CallsAreTyped DEF Prune, Row
<1>4. x.ready => row.state = "ready"
  OBVIOUS
<1>5. prune' = [prune EXCEPT ![p] = x]
  BY DEF PruneClaims
<1> HIDE DEF x
<1>6. /\ prune' \in [Pruners -> Prune] /\ prune'[p] = x
      /\ \A o \in Pruners : o # p => prune'[o] = prune[o]
  BY <1>3, <1>5, OneJobMoves
<1>7. TypeOK'
  BY <1>1, <1>2, <1>6 DEF IInv, TypeOK
<1>8. KeysAreOwn' /\ OnlyReturnedAreVerified' /\ LocalKeys'
  BY <1>1, <1>2 DEF IInv, KeysAreOwn, OnlyReturnedAreVerified, LocalKeys
<1>9. ASSUME ~rushed PROVE Undisturbed'
  <2>1. Undisturbed
    BY <1>9 DEF IInv
  <2>2. /\ \A c \in Calls : call[c].pc \notin AtWork
        /\ \A o \in Pruners : prune[o].pc = "idle"
        /\ \A c \in Calls : ~(call[c].verified /\ call[c].pc = "returned")
    BY <1>1, <2>1 DEF Undisturbed, WorkersHoldTheRow, PrunersOwnTheRow, VerifiedIsKept
  <2>3. WorkersHoldTheRow'
    BY <1>1, <2>2 DEF WorkersHoldTheRow
  <2>4. PrunersOwnTheRow'
    BY <1>2, <1>3, <1>6, <2>2 DEF PrunersOwnTheRow, Young, Owns
  <2>5. VerifiedIsKept'
    BY <1>1, <2>2 DEF VerifiedIsKept
  <2>6. ObjectsAreThere'
    BY <1>1, <1>2, <1>3, <1>4, <1>6, <2>1, <2>2
       DEF Undisturbed, ObjectsAreThere, AtWork, CustomId
  <2> QED BY <2>3, <2>4, <2>5, <2>6 DEF Undisturbed
<1> QED BY <1>1, <1>7, <1>8, <1>9 DEF IInv

\* The object of a row that is being deleted goes.
LEMMA PruneDeletesObjectInv ==
  ASSUME IInv, NEW p \in Pruners, PruneDeletesObject(p) PROVE IInv'
<1> DEFINE x == [prune[p] EXCEPT !.pc = "row"]
<1>1. /\ UNCHANGED <<kind, row, lost, refs, call, check, rushed, faults>>
      /\ store' = store \ {DeletedKey(p)} /\ prune[p].pc = "delete"
  BY DEF PruneDeletesObject
<1>2. /\ x \in Prune /\ x.pc = "row" /\ x.id = prune[p].id /\ x.key = prune[p].key
      /\ x.customId = prune[p].customId
  BY JobsAreTyped DEF Prune
<1>3. prune' = [prune EXCEPT ![p] = x]
  BY DEF PruneDeletesObject, PruneGoto
<1> HIDE DEF x
<1>4. /\ prune' \in [Pruners -> Prune] /\ prune'[p] = x
      /\ \A o \in Pruners : o # p => prune'[o] = prune[o]
  BY <1>2, <1>3, OneJobMoves
<1>5. TypeOK'
  BY <1>1, <1>4 DEF IInv, TypeOK
<1>6. KeysAreOwn' /\ OnlyReturnedAreVerified' /\ LocalKeys'
  BY <1>1 DEF IInv, KeysAreOwn, OnlyReturnedAreVerified, LocalKeys
<1>7. ASSUME ~rushed PROVE Undisturbed'
  <2>1. /\ Undisturbed /\ row.state = "deleting"
        /\ \A o \in Pruners \ {p} : prune[o].pc = "idle"
        /\ \A c \in Calls : call[c].pc \notin AtWork
    BY <1>1, <1>7, JobIsAlone
  <2>2. WorkersHoldTheRow' /\ PrunersOwnTheRow' /\ VerifiedIsKept'
    BY <1>1, <1>2, <1>4, <2>1
       DEF Undisturbed, WorkersHoldTheRow, PrunersOwnTheRow, VerifiedIsKept, Young, Owns
  <2>3. kind = "local" => store' = {}
    <3>1. prune[p].key = row.key /\ prune[p].customId = row.customId
      BY <1>1, <2>1 DEF Undisturbed, PrunersOwnTheRow
    <3>2. kind = "local" => DeletedKey(p) = Content /\ store \subseteq {Content}
      BY <2>1, <3>1 DEF IInv, LocalKeys, DeletedKey
    <3> QED BY <1>1, <3>2
  <2>4. ObjectsAreThere'
    BY <1>1, <1>2, <1>4, <2>1, <2>3 DEF ObjectsAreThere, AtWork
  <2> QED BY <2>2, <2>4 DEF Undisturbed
<1> QED BY <1>1, <1>5, <1>6, <1>7 DEF IInv

\* A job goes on, or fails, or dies.
LEMMA PruneStepsInv ==
  ASSUME IInv, NEW p \in Pruners,
         \/ PruneConfirms(p) \/ PruneThrows(p) \/ PruneDies(p)
         \/ (PruneDeletesRow(p) \/ PruneReleases(p) \/ PruneFails(p)) /\ UNCHANGED row
  PROVE  IInv'
<1>1. /\ UNCHANGED <<kind, row, store, lost, refs, call, check, rushed>>
      /\ faults' \in 0..MaxFaults /\ prune[p].pc # "idle"
  BY CallsAreTyped, SourceBlobsAssumption
     DEF PruneConfirms, PruneThrows, PruneDies, PruneDeletesRow, PruneReleases, PruneFails,
         Fault, objects
<1>2. CASE PruneEnds(p)
  BY <1>1, <1>2, JobsAreTyped, JobStep DEF PruneEnds
<1>3. ASSUME NEW pc \in {"delete", "fail"}, PruneGoto(p, pc) PROVE IInv'
  <2> DEFINE x == [prune[p] EXCEPT !.pc = pc]
  <2>1. /\ x \in Prune /\ x.pc = pc /\ x.id = prune[p].id /\ x.key = prune[p].key
        /\ x.customId = prune[p].customId
    BY JobsAreTyped DEF Prune
  <2>2. prune' = [prune EXCEPT ![p] = x]
    BY <1>3 DEF PruneGoto
  <2> HIDE DEF x
  <2> QED BY <1>1, <2>1, <2>2, JobStep
<1> QED BY <1>2, <1>3
        DEF PruneConfirms, PruneThrows, PruneDies, PruneDeletesRow, PruneReleases, PruneFails

\* A job that owns the row ends its deletion, one way or another.
LEMMA PruneEndsInv ==
  ASSUME IInv, NEW p \in Pruners, Owns(p), PruneEnds(p),
         \/ PruneReleases(p) \/ PruneFails(p)
         \/ PruneDeletesRow(p) /\ row' = Absent
  PROVE  IInv'
<1>1. /\ UNCHANGED <<kind, store, lost, refs, call, check, rushed>>
      /\ faults' \in 0..MaxFaults /\ prune[p].pc # "idle" /\ row.state = "deleting"
  BY CallsAreTyped, SourceBlobsAssumption
     DEF PruneDeletesRow, PruneReleases, PruneFails, Fault, objects, Owns
<1>2. ~rushed => Undisturbed
  BY DEF IInv
<1>3. kind = "local" => row.customId = Content
  BY <1>1 DEF IInv, LocalKeys
<1>4. CASE PruneReleases(p)
  <2>1. /\ row' \in Row /\ row'.age = "new" /\ row'.key = row.key
        /\ row'.customId = row.customId
        /\ row'.state = IF prune[p].ready THEN "ready" ELSE "failed"
    BY <1>4, CallsAreTyped DEF PruneReleases, Row, RowState, Age
  <2>2. ~rushed => (row'.state = "ready" => row.key \in store \union lost)
    BY <1>2, <1>4, <2>1 DEF PruneReleases, Undisturbed, ObjectsAreThere
  <2>3. row'.state # "absent"
    BY <2>1
  <2> QED BY <1>1, <1>3, <2>1, <2>2, <2>3, JobGivesRowUp DEF Young
<1>5. CASE PruneFails(p)
  <2>1. /\ row' \in Row /\ row'.age = "new" /\ row'.key = row.key
        /\ row'.customId = row.customId /\ row'.state = "failed"
    BY <1>5, CallsAreTyped DEF PruneFails, Row, RowState, Age
  <2> QED BY <1>1, <1>3, <2>1, JobGivesRowUp DEF Young
<1>6. CASE PruneDeletesRow(p) /\ row' = Absent
  <2>1. /\ row' \in Row /\ row'.age = "new" /\ row'.key = None /\ row'.state = "absent"
    BY <1>6 DEF Absent, Row, RowState, Age, CallOrNone, KeyOrNone
  <2>2. ~rushed /\ kind = "local" => store = {}
    BY <1>2, <1>6 DEF PruneDeletesRow, Undisturbed, ObjectsAreThere
  <2> QED BY <1>1, <2>1, <2>2, JobGivesRowUp DEF Young
<1> QED BY <1>4, <1>5, <1>6

\* Every step of a job.
LEMMA PrunesInv ==
  ASSUME IInv, NEW p \in Pruners,
         \/ PruneClaims(p) \/ PruneReleases(p) \/ PruneConfirms(p)
         \/ PruneDeletesObject(p) \/ PruneDeletesRow(p) \/ PruneThrows(p)
         \/ PruneFails(p) \/ PruneDies(p)
  PROVE  IInv'
<1>1. CASE PruneReleases(p) \/ PruneFails(p)
  BY <1>1, PruneStepsInv, PruneEndsInv DEF PruneReleases, PruneFails
<1>2. CASE PruneDeletesRow(p)
  BY <1>2, PruneStepsInv, PruneEndsInv DEF PruneDeletesRow, RowDeleted
<1> QED BY <1>1, <1>2, PruneClaimsInv, PruneDeletesObjectInv, PruneStepsInv

-----------------------------------------------------------------------------
(* The readers that doubt a row, and the world.                            *)

\* A row grows older, or younger.
LEMMA RowAges ==
  ASSUME IInv, NEW age \in Age, row' = [row EXCEPT !.age = age],
         UNCHANGED <<kind, store, lost, refs, call, prune>>,
         check' \in Check, rushed' \in BOOLEAN, faults' \in 0..MaxFaults,
         rushed => rushed',
         age \notin {"new", "late"} => rushed' \/ WithinTheHour \/ ~Young
  PROVE  IInv'
<1>1. /\ row' \in Row /\ row'.age = age
      /\ row'.state = row.state /\ row'.id = row.id /\ row'.key = row.key
      /\ row'.customId = row.customId /\ row'.deletion = row.deletion
  BY CallsAreTyped DEF Row
<1>2. TypeOK'
  BY <1>1 DEF IInv, TypeOK
<1>3. KeysAreOwn' /\ OnlyReturnedAreVerified' /\ LocalKeys'
  BY <1>1 DEF IInv, KeysAreOwn, OnlyReturnedAreVerified, LocalKeys
<1>4. ASSUME ~rushed' PROVE Undisturbed'
  <2>1. Undisturbed
    BY <1>4 DEF IInv
  <2>2. CASE Young'
    <3>1. WorkersHoldTheRow' /\ PrunersOwnTheRow' /\ VerifiedIsKept'
      BY <1>1, <2>1, <2>2
         DEF Undisturbed, WorkersHoldTheRow, PrunersOwnTheRow, VerifiedIsKept, Owns
    <3>2. ObjectsAreThere'
      BY <1>1, <2>1 DEF Undisturbed, ObjectsAreThere, CustomId
    <3> QED BY <3>1, <3>2 DEF Undisturbed
  <2>3. CASE ~Young'
    <3>1. /\ \A c \in Calls : call[c].pc \notin AtWork
          /\ \A p \in Pruners : prune[p].pc = "idle"
          /\ \A c \in Calls : ~(call[c].verified /\ call[c].pc = "returned")
      BY <1>1, <1>4, <2>1, <2>3
         DEF Young, WithinTheHour, AtWork, Undisturbed, WorkersHoldTheRow, PrunersOwnTheRow,
             VerifiedIsKept
    <3>2. WorkersHoldTheRow' /\ PrunersOwnTheRow' /\ VerifiedIsKept'
      BY <3>1 DEF WorkersHoldTheRow, PrunersOwnTheRow, VerifiedIsKept
    <3>3. ObjectsAreThere'
      BY <1>1, <2>1 DEF Undisturbed, ObjectsAreThere, CustomId
    <3> QED BY <3>2, <3>3 DEF Undisturbed
  <2> QED BY <2>2, <2>3
<1> QED BY <1>2, <1>3, <1>4 DEF IInv

\* A check that changes nothing but itself.
LEMMA CheckStep ==
  ASSUME IInv, check' \in Check,
         UNCHANGED <<kind, row, store, lost, refs, call, prune, rushed, faults>>
  PROVE  IInv'
<1>1. TypeOK'
  BY DEF IInv, TypeOK
<1>2. KeysAreOwn' /\ OnlyReturnedAreVerified' /\ LocalKeys'
  BY DEF IInv, KeysAreOwn, OnlyReturnedAreVerified, LocalKeys
<1>3. ASSUME ~rushed PROVE Undisturbed'
  BY <1>3 DEF IInv, Undisturbed, WorkersHoldTheRow, PrunersOwnTheRow, VerifiedIsKept, Young,
              ObjectsAreThere, Owns, CustomId
<1> QED BY <1>1, <1>2, <1>3 DEF IInv

\* The row is dated back, renewed or left alone by whoever doubts it.
LEMMA ChecksInv ==
  ASSUME IInv, CheckReads \/ CheckProbes \/ CheckWrites \/ CacheDistrusts PROVE IInv'
<1>1. check \in Check /\ IdleCheck \in Check /\ rushed \in BOOLEAN
  BY DEF IInv, TypeOK, IdleCheck, Check, CallOrNone, KeyOrNone
<1>2. CASE CheckReads
  <2>1. check' \in Check
    BY <1>2, CallsAreTyped DEF CheckReads, Check
  <2> QED BY <1>2, <2>1, CheckStep DEF CheckReads, objects
<1>3. CASE CheckProbes
  <2>1. check' \in Check
    BY <1>1, <1>3 DEF CheckProbes, Check, KeyOrNone
  <2> QED BY <1>3, <2>1, CheckStep DEF CheckProbes, objects
<1>4. ASSUME DatesBack, UNCHANGED <<kind, store, lost, refs, call, prune>>,
             check' \in Check, faults' \in 0..MaxFaults
      PROVE  IInv'
  <2>1. /\ row' = [row EXCEPT !.age = "day"] /\ "day" \in Age
        /\ rushed' \in BOOLEAN
        /\ rushed => rushed'
        /\ rushed' \/ WithinTheHour
    BY <1>1, <1>4 DEF DatesBack, Age
  <2> QED BY <1>4, <2>1, RowAges
<1>5. CASE CheckWrites
  <2>1. /\ UNCHANGED <<kind, store, lost, refs, call, prune, faults>>
        /\ check' \in Check /\ faults' \in 0..MaxFaults
    BY <1>1, <1>5, CallsAreTyped DEF CheckWrites, objects
  <2>2. CASE row' = Renewed /\ UNCHANGED rushed
    <3>1. row' = [row EXCEPT !.age = "new"] /\ "new" \in Age
      BY <2>2 DEF Renewed, Age
    <3>2. rushed' \in BOOLEAN /\ (rushed => rushed')
      BY <1>1, <2>2
    <3> QED BY <2>1, <3>1, <3>2, RowAges
  <2>3. CASE UNCHANGED <<row, rushed>>
    BY <2>1, <2>3, CheckStep
  <2> QED BY <1>4, <1>5, <2>1, <2>2, <2>3 DEF CheckWrites
<1>6. CASE CacheDistrusts
  <2>1. /\ UNCHANGED <<kind, store, lost, refs, call, prune, check>>
        /\ faults' \in 0..MaxFaults
    BY <1>6, CallsAreTyped, SourceBlobsAssumption DEF CacheDistrusts, Fault, objects
  <2> QED BY <1>1, <1>4, <1>6, <2>1 DEF CacheDistrusts
<1> QED BY <1>2, <1>3, <1>5, <1>6

\* The store loses an object by itself, which is remembered.
LEMMA LosesObjectInv == ASSUME IInv, LosesObject PROVE IInv'
<1>1. /\ UNCHANGED <<kind, row, refs, call, prune, check, rushed>>
      /\ faults' \in 0..MaxFaults
      /\ store' \union lost' = store \union lost /\ store' \subseteq store
      /\ lost' \subseteq Keys
  BY CallsAreTyped, SourceBlobsAssumption DEF LosesObject, Fault, IInv, TypeOK
<1>2. TypeOK'
  BY <1>1 DEF IInv, TypeOK
<1>3. KeysAreOwn' /\ OnlyReturnedAreVerified' /\ LocalKeys'
  BY <1>1 DEF IInv, KeysAreOwn, OnlyReturnedAreVerified, LocalKeys
<1>4. ASSUME ~rushed PROVE Undisturbed'
  <2>1. Undisturbed
    BY <1>4 DEF IInv
  <2>2. WorkersHoldTheRow' /\ PrunersOwnTheRow' /\ VerifiedIsKept'
    BY <1>1, <2>1
       DEF Undisturbed, WorkersHoldTheRow, PrunersOwnTheRow, VerifiedIsKept, Young, Owns
  <2>3. ObjectsAreThere'
    BY <1>1, <2>1 DEF Undisturbed, ObjectsAreThere, CustomId
  <2> QED BY <2>2, <2>3 DEF Undisturbed
<1> QED BY <1>1, <1>2, <1>3, <1>4 DEF IInv

\* Time passes.
LEMMA TickInv == ASSUME IInv, Tick PROVE IInv'
<1>1. /\ UNCHANGED <<kind, store, lost, refs, call, prune, check, rushed, faults>>
      /\ check' \in Check /\ rushed' \in BOOLEAN /\ faults' \in 0..MaxFaults
  BY DEF Tick, objects, IInv, TypeOK
<1>2. PICK age \in {"late", "hour", "day"} :
        /\ row' = [row EXCEPT !.age = age]
        /\ age = "hour" => WithinTheHour
        /\ age = "day" => ~Young
  BY DEF Tick, Young
<1>3. age \in Age
  BY DEF Age
<1> QED BY <1>1, <1>2, <1>3, RowAges

-----------------------------------------------------------------------------
(* Every step, and the theorems.                                           *)

\* There is no row and no object, and nobody has begun.
LEMMA InitInv == Init => IInv
<1> SUFFICES ASSUME Init PROVE IInv
  OBVIOUS
<1>1. /\ row = Absent /\ store = {} /\ lost = {} /\ refs = {} /\ check = IdleCheck
      /\ call = [c \in Calls |-> NewCall] /\ prune = [p \in Pruners |-> IdlePrune]
      /\ rushed = FALSE /\ faults = 0 /\ kind \in Kinds
  BY DEF Init
<1>2. /\ Absent \in Row /\ Absent.key = None /\ Absent.state = "absent"
      /\ NewCall \in Call /\ NewCall.pc = "start" /\ ~NewCall.verified
      /\ IdlePrune \in Prune /\ IdlePrune.pc = "idle"
      /\ IdleCheck \in Check
  BY DEF Absent, Row, RowState, Age, NewCall, Call, IdlePrune, Prune, IdleCheck, Check,
         CallOrNone, KeyOrNone
<1>3. TypeOK
  <2>1. call \in [Calls -> Call] /\ prune \in [Pruners -> Prune]
    BY <1>1, <1>2
  <2>2. faults \in 0..MaxFaults
    BY <1>1, SourceBlobsAssumption
  <2> QED BY <1>1, <1>2, <2>1, <2>2 DEF TypeOK
<1>4. KeysAreOwn /\ OnlyReturnedAreVerified /\ LocalKeys
  BY <1>1, <1>2, SourceBlobsAssumption DEF KeysAreOwn, OnlyReturnedAreVerified, LocalKeys
<1>5. Undisturbed
  BY <1>1, <1>2 DEF Undisturbed, WorkersHoldTheRow, PrunersOwnTheRow, VerifiedIsKept,
                    ObjectsAreThere, AtWork
<1> QED BY <1>3, <1>4, <1>5 DEF IInv

LEMMA NextInv == IInv /\ [Next]_vars => IInv'
<1> SUFFICES ASSUME IInv, [Next]_vars PROVE IInv'
  OBVIOUS
<1>1. ASSUME NEW c \in Calls,
             \/ Prefetches(c) \/ ReturnsPrefetched(c) \/ ReadsRow(c) \/ Probes(c)
             \/ Touches(c) \/ ClaimsReady(c) \/ Inserts(c) \/ ClaimsAbandoned(c)
             \/ Polls(c) \/ GivesUp(c)
             \/ Puts(c) \/ PutThrows(c) \/ Commits(c) \/ ReadsHolder(c)
             \/ Removes(c) \/ Fails(c) \/ Dies(c)
             \/ References(c) \/ NeverReferences(c) \/ DropsReference(c)
      PROVE  IInv'
  BY <1>1, ReadsInv, ProvesInv, ClaimsInv, WaitsInv, PutsInv, CommitsInv, RemovesInv,
     ReferencesInv
<1>2. ASSUME NEW p \in Pruners,
             \/ PruneClaims(p) \/ PruneReleases(p) \/ PruneConfirms(p)
             \/ PruneDeletesObject(p) \/ PruneDeletesRow(p) \/ PruneThrows(p)
             \/ PruneFails(p) \/ PruneDies(p)
      PROVE  IInv'
  BY <1>2, PrunesInv
<1>3. CASE CheckReads \/ CheckProbes \/ CheckWrites \/ CacheDistrusts
  BY <1>3, ChecksInv
<1>4. CASE LosesObject
  BY <1>4, LosesObjectInv
<1>5. CASE Tick
  BY <1>5, TickInv
<1>6. CASE UNCHANGED vars
  <2>1. check' \in Check
    BY <1>6 DEF vars, IInv, TypeOK
  <2> QED BY <1>6, <2>1, CheckStep DEF vars
<1> QED BY <1>1, <1>2, <1>3, <1>4, <1>5, <1>6 DEF Next

\* IInv holds of every state the calls and the pruning reach.
THEOREM Inductive == Spec => []IInv
BY InitInv, NextInv, PTL DEF Spec

\* The model's values stay in their types.
THEOREM TypeCorrect == Spec => []TypeOK
<1>1. IInv => TypeOK
  BY DEF IInv
<1> QED BY <1>1, Inductive, PTL

\* A ready row names an object that was put and that nobody but the store has lost, and in
\* a local store no object is left without a row.
THEOREM RowsAndObjectsAgree == Spec => []RowsNameTheObjects
<1>1. IInv => RowsNameTheObjects
  <2> SUFFICES ASSUME IInv PROVE ReadyRowNamesItsObject /\ EveryLocalObjectHasARow
    BY DEF RowsNameTheObjects
  <2>1. ReadyRowNamesItsObject
    BY DEF IInv, Undisturbed, ObjectsAreThere, ReadyRowNamesItsObject
  <2>2. EveryLocalObjectHasARow
    BY DEF IInv, Undisturbed, ObjectsAreThere, EveryLocalObjectHasARow
  <2> QED BY <2>1, <2>2
<1> QED BY <1>1, Inductive, PTL

\* No clean-up and no pruning takes the object under a reference to a row that the call had
\* verified.
THEOREM NothingIsDeletedUnderAReference == Spec => VerifiedReferencesStay
<1>1. ASSUME IInv, [Next]_vars, ~rushed, row.key \in store,
             NEW v \in refs, call[v].verified
      PROVE  row.key \in store' \union lost'
  <2>1. Undisturbed /\ v \in Calls
    BY <1>1 DEF IInv, TypeOK
  <2>2. \A p \in Pruners : prune[p].pc = "idle"
    BY <1>1, <2>1 DEF Undisturbed, VerifiedIsKept
  <2>3. CASE store \subseteq store' \union lost'
    BY <1>1, <2>3
  <2>4. ASSUME NEW c \in Calls, Removes(c) PROVE row.key \in store' \union lost'
    <3>1. call[c].pc = "remove" /\ store' = store \ {CustomId(c)}
      BY <2>4 DEF Removes
    <3>2. kind # "local" /\ CustomId(c) = c /\ row.key # c
      BY <1>1, <2>1, <3>1 DEF Undisturbed, ObjectsAreThere, CustomId, IInv, KeysAreOwn
    <3> QED BY <1>1, <3>1, <3>2
  <2>5. ASSUME NEW p \in Pruners, PruneDeletesObject(p) PROVE FALSE
    BY <2>2, <2>5 DEF PruneDeletesObject
  <2>6. \/ store \subseteq store' \union lost'
        \/ \E c \in Calls : Removes(c)
        \/ \E p \in Pruners : PruneDeletesObject(p)
    BY <1>1 DEF Next, vars, objects, Prefetches, ReturnsPrefetched, ReadsRow, Probes, Touches,
       ClaimsReady, Inserts, ClaimsAbandoned, Polls, GivesUp, Puts, PutThrows, Commits,
       ReadsHolder, Fails, Dies, References, NeverReferences, DropsReference, PruneClaims,
       PruneReleases, PruneConfirms, PruneDeletesRow, PruneThrows, PruneFails, PruneDies,
       CheckReads, CheckProbes, CheckWrites, CacheDistrusts, LosesObject, Tick
  <2> QED BY <2>3, <2>4, <2>5, <2>6
<1>2. IInv /\ [Next]_vars =>
        [~rushed /\ (\E c \in refs : call[c].verified) /\ row.key \in store
           => row.key \in store' \union lost']_vars
  BY <1>1
<1> QED BY <1>2, Inductive, PTL DEF Spec, VerifiedReferencesStay
=============================================================================
