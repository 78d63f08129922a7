--------------------------- MODULE PullRequestIntake ---------------------------
(***************************************************************************)
(* How one pull request of a connected repository and its place in a          *)
(* reviewer's queue follow the provider: webhook deliveries                  *)
(* (api/webhooks/[provider]/route.saas.ts), the periodic refresh of the row    *)
(* (providers/pull-request-state.ts) and the automatic intake                 *)
(* (providers/intake.ts) of an open page, the synchronizations they all ask    *)
(* for, and the queue item (review/queue.ts).                               *)
(*                                                                         *)
(* PullRequestSync has the synchronization itself in detail and shows that    *)
(* one is active at a time; here it is what reads the provider, writes the     *)
(* row and assigns the queue item.  Reads that one call makes together are    *)
(* one step.  Left out: deliveries that are refused, several repositories of   *)
(* one delivery, reviewers assigned at the provider, repair of lost sources,   *)
(* cancelled synchronizations, and drafts, which are treated as open.         *)
(***************************************************************************)
EXTENDS Naturals

CONSTANTS
  Modes,        \* reviewIntakeMode of the repository: "manual", "all"
  None,         \* no pull request
  MaxRevisions, \* bound: revisions that the provider ever has
  MaxMails,     \* bound: events of the provider
  MaxUpsets     \* bound: events of the provider, wishes of the reviewer, and
                \* errors, together

ASSUME PullRequestIntakeAssumption ==
  /\ Modes \subseteq {"manual", "all"}
  /\ MaxRevisions \in Nat \ {0}
  /\ MaxMails \in Nat /\ MaxUpsets \in Nat
  /\ None \notin [state: {"open", "closed", "merged"}, rev: 1..MaxRevisions]

VARIABLES
  mode,      \* reviewIntakeMode
  remote,    \* the pull request at the provider
  row,       \* its row of pullRequests
  snapshot,  \* the revision of the newest review snapshot
  mail,      \* the provider's events, and their rows of webhookDeliveries
  sync,      \* the newest row of syncRuns, and its step
  pass,      \* of refreshRepositoryPullRequestStates, or of
             \* reconcileIntakeForRepository behind it
  item,      \* the row of reviewQueueItems
  assigning, \* the transaction of assignPullRequestToQueue
  wish,      \* history: what the reviewer last asked for, and must get
  upsets     \* spent of MaxUpsets

intakeVars == <<mode, remote, row, snapshot, mail, sync, pass, item,
          assigning, wish, upsets>>

Mails == 1..MaxMails
Rev == 1..MaxRevisions
PullRequest == [state: {"open", "closed", "merged"}, rev: Rev]
Maybe == PullRequest \union {None}

\* none: not sent yet; sent: no row; received, applied: in hand, or the process has
\* died.
Mail == [status: {"none", "sent", "received", "applied", "done", "failed"},
         event: {"updated", "closed", "merged"},
         rev: {0} \union Rev,
         wanted: BOOLEAN,    \* history: the pull request was tracked when it was sent
         accepted: BOOLEAN]  \* history: the provider's last answer was a 202

Sync == [pc: {"idle", "queued", "publish", "confirm", "passed", "assign",
              "complete"},
         failed: BOOLEAN,  \* it has ended as failed
         joined: BOOLEAN,  \* a request since requestVersion was read
         ask: {"none", "implicit", "explicit"},  \* of syncQueueRequests
         observed: {0} \union Rev,
         fetched: Maybe]

Item == [state: {"none", "active", "removed"}, rev: {0} \union Rev]

IntakeTypeOK ==
  /\ mode \in Modes
  /\ remote \in PullRequest /\ row \in Maybe
  /\ snapshot \in {0} \union Rev
  /\ mail \in [Mails -> Mail]
  /\ sync \in Sync
  /\ pass \in [pc: {"idle", "read", "write", "request", "intake", "assign"},
              listed: Maybe, tracked: Maybe]
  /\ item \in Item
  /\ assigning \in {None} \union
       [by: {"sync", "pass"}, seen: Item, rev: Rev, explicit: BOOLEAN]
  /\ wish \in {"none", "in", "out"}
  /\ upsets \in 0..MaxUpsets

NoSync == [pc |-> "idle", failed |-> FALSE, joined |-> FALSE, ask |-> "none",
           observed |-> 0, fetched |-> None]
NoPass == [pc |-> "idle", listed |-> None, tracked |-> None]

IntakeInit ==
  /\ mode \in Modes
  /\ remote = [state |-> "open", rev |-> 1]
  /\ row = None /\ snapshot = 0
  /\ mail = [d \in Mails |-> [status |-> "none", event |-> "updated", rev |-> 0,
                              wanted |-> FALSE, accepted |-> FALSE]]
  /\ sync = NoSync /\ pass = NoPass
  /\ item = [state |-> "none", rev |-> 0]
  /\ assigning = None
  /\ wish = "none" /\ upsets = 0

Upset == upsets < MaxUpsets /\ upsets' = upsets + 1
Tracked == row # None
RowRev == IF Tracked THEN row.rev ELSE 0
IsAssigning(by) == assigning # None /\ assigning.by = by

place == <<item, assigning>>
stored == <<row, snapshot>>

-----------------------------------------------------------------------------
(* The provider, which tells of every change.                              *)

Sends(d, event, pullRequest) ==
  /\ remote' = pullRequest
  /\ mail' = [mail EXCEPT ![d] = [status |-> "sent", event |-> event,
                rev |-> pullRequest.rev, wanted |-> Tracked \/ mode = "all",
                accepted |-> FALSE]]

ProviderChanges(d) ==
  /\ mail[d].status = "none"
  /\ \A e \in 1..(d - 1) : mail[e].status # "none"
  /\ Upset
  /\ \/ /\ remote.state = "open" /\ remote.rev < MaxRevisions
        /\ Sends(d, "updated", [remote EXCEPT !.rev = @ + 1])
        /\ wish' = IF wish = "out" THEN "none" ELSE wish
     \/ /\ remote.state = "open"
        /\ \E end \in {"closed", "merged"} :
             Sends(d, end, [remote EXCEPT !.state = end])
        /\ UNCHANGED wish
     \/ /\ remote.state = "closed"
        /\ Sends(d, "updated", [remote EXCEPT !.state = "open"])
        /\ UNCHANGED wish
  /\ UNCHANGED <<mode, stored, sync, pass, place>>

-----------------------------------------------------------------------------
(* startPullRequestSync: a request begins a run or joins the active one, and  *)
(* leaves its wish for the queue in place of an earlier one of the same user. *)

Requested(ask) ==
  IF sync.pc = "idle" THEN [NoSync EXCEPT !.pc = "queued", !.ask = ask]
  ELSE [sync EXCEPT !.joined = TRUE, !.ask = IF ask = "none" THEN @ ELSE ask]

Requests(ask) ==
  /\ sync' = Requested(ask)
  /\ wish' = CASE ask = "explicit" -> "in"
               [] ask = "implicit" /\ wish = "in" /\ sync.pc # "idle" -> "none"
               [] OTHER -> wish

\* What webhooks, refresh and intake ask for the owner of an automatic queue.
OwnersAsk == IF mode = "manual" THEN "none" ELSE "implicit"

-----------------------------------------------------------------------------
(* Webhook deliveries.  The provider may deliver late, in any order, again,   *)
(* or never.                                                                *)

\* Mutant: a row is a row, whatever became of it.
IsClaimableOnce(d) == mail[d].status = "sent"
\* claimDelivery: no row yet, or a failed one.
IsClaimable(d) == mail[d].status \in {"sent", "failed"}

Receives(d) ==
  /\ mail[d].status # "none"
  /\ mail' = [mail EXCEPT ![d] =
       IF IsClaimable(d) THEN [@ EXCEPT !.status = "received"]
       ELSE [@ EXCEPT !.accepted = TRUE]]
  /\ UNCHANGED <<mode, remote, stored, sync, pass, place, wish, upsets>>

\* Mutant: every event is taken to end the pull request.
TerminalStateOfAny(event) == event
TerminalState(event) == IF event = "updated" THEN None ELSE event

\* A delayed close never downgrades a merged pull request.
Retired(end) ==
  IF Tracked /\ ~(end = "closed" /\ row.state = "merged")
    THEN [row EXCEPT !.state = end]
    ELSE row

Applies(d) ==
  LET end == TerminalState(mail[d].event) IN
  /\ mail[d].status = "received"
  /\ mail' = [mail EXCEPT ![d].status = "applied"]
  /\ IF end # None
       THEN row' = Retired(end) /\ UNCHANGED <<sync, wish>>
       ELSE /\ UNCHANGED row
            /\ IF Tracked \/ mode = "all" THEN Requests(OwnersAsk)
               ELSE UNCHANGED <<sync, wish>>
  /\ UNCHANGED <<mode, remote, snapshot, pass, place, upsets>>

Answers(d) ==
  /\ mail[d].status = "applied"
  /\ mail' = [mail EXCEPT ![d].status = "done", ![d].accepted = TRUE]
  /\ UNCHANGED <<mode, remote, stored, sync, pass, place, wish, upsets>>

\* The handler catches an error and answers with it.
Fails(d) ==
  /\ mail[d].status \in {"received", "applied"}
  /\ Upset
  /\ mail' = [mail EXCEPT ![d].status = "failed", ![d].accepted = FALSE]
  /\ UNCHANGED <<mode, remote, stored, sync, pass, place, wish>>

-----------------------------------------------------------------------------
(* The queue item.                                                         *)

\* Mutant: an explicit request is treated as any other.
ShouldActivateImplicit(seen, rev, explicit) == seen.state # "removed" \/ seen.rev # rev
ShouldActivate(seen, rev, explicit) ==
  seen.state # "removed" \/ explicit \/ seen.rev # rev

\* The transaction reads the item under a lock that removing and restoring do
\* not take, ...
AssignReads(by, rev, explicit) ==
  /\ assigning = None
  /\ assigning' = [by |-> by, seen |-> item, rev |-> rev, explicit |-> explicit]

\* ... and writes what it decided on the item it has read.
AssignWrites ==
  /\ assigning # None
  /\ item' = IF ShouldActivate(assigning.seen, assigning.rev, assigning.explicit)
               THEN [state |-> "active", rev |-> 0] ELSE item
  /\ assigning' = None
  /\ IF assigning.by = "sync"
       THEN sync' = [sync EXCEPT !.pc = "complete"] /\ UNCHANGED pass
       ELSE pass' = NoPass /\ UNCHANGED sync
  /\ UNCHANGED <<mode, remote, stored, mail, wish, upsets>>

\* The reviewer adds the pull request (the procedure sync), ...
Adds ==
  /\ Upset
  /\ Requests("explicit")
  /\ UNCHANGED <<mode, remote, stored, mail, pass, place>>

\* Nothing in progress knows another revision, or an older wish.
Quiet ==
  /\ assigning = None
  /\ remote.rev = row.rev
  /\ \/ sync.pc = "idle"
     \/ sync.ask # "explicit" /\ (sync.fetched = None \/ sync.fetched.rev = row.rev)
  /\ pass.listed = None \/ pass.listed.rev = row.rev

\* ... removes it, and the item remembers the revision of the row, ...
Removes ==
  /\ item.state # "none"
  /\ Upset
  /\ item' = [state |-> "removed", rev |-> row.rev]
  /\ wish' = IF Quiet THEN "out" ELSE "none"
  /\ UNCHANGED <<mode, remote, stored, mail, sync, pass, assigning>>

\* ... or restores it.
Restores ==
  /\ item.state # "none"
  /\ Upset
  /\ item' = [state |-> "active", rev |-> 0]
  /\ wish' = "none"
  /\ UNCHANGED <<mode, remote, stored, mail, sync, pass, assigning>>

-----------------------------------------------------------------------------
(* The synchronization.                                                    *)

SyncGoes(pc) == sync' = [sync EXCEPT !.pc = pc]

\* The step is executed again, or has used up its attempts and the run fails.
Throws ==
  \/ /\ sync' = [sync EXCEPT !.pc = "queued", !.observed = 0, !.fetched = None]
     /\ UNCHANGED wish
  \/ /\ sync' = [NoSync EXCEPT !.failed = TRUE]
     /\ wish' = IF wish = "in" /\ item.state # "active" THEN "none" ELSE wish

syncOnly == <<mode, remote, mail, pass, place, upsets>>

\* A pass reads the request version, the row and the provider, which it confirms
\* behind the download.
SyncReads ==
  /\ sync.pc = "queued"
  /\ sync' = [sync EXCEPT !.pc = "publish", !.joined = FALSE, !.observed = RowRev,
                          !.fetched = remote]
  /\ UNCHANGED <<syncOnly, stored, wish>>

\* A usable snapshot of the fetched revision: only the row's metadata is written.
SyncReuses ==
  /\ sync.pc = "publish"
  /\ snapshot = sync.fetched.rev
  /\ IF RowRev = sync.fetched.rev
       THEN /\ row' = sync.fetched
            /\ sync' = [sync EXCEPT !.pc = "passed", !.observed = 0]
            /\ UNCHANGED wish
       ELSE Throws /\ UNCHANGED row
  /\ UNCHANGED <<syncOnly, snapshot>>

\* The publication compares revisions; the state comes with the upsert.
SyncPublishes ==
  /\ sync.pc = "publish"
  /\ IF RowRev \in {sync.observed, sync.fetched.rev}
       THEN /\ row' = sync.fetched /\ snapshot' = sync.fetched.rev
            /\ sync' = [sync EXCEPT !.pc = "confirm", !.observed = 0]
            /\ UNCHANGED wish
       ELSE Throws /\ UNCHANGED stored
  /\ UNCHANGED syncOnly

\* The published revision must be the provider's latest, and nobody may have joined
\* since the version was read: another pass, which may be one too many.
SyncEndsPass ==
  /\ sync.pc \in {"confirm", "passed"}
  /\ IF sync.joined \/ (sync.pc = "confirm" /\ remote.rev # sync.fetched.rev)
       THEN Throws
       ELSE SyncGoes("assign") /\ UNCHANGED wish
  /\ UNCHANGED <<syncOnly, stored>>

SyncAssigns ==
  /\ sync.pc = "assign"
  /\ IF sync.ask = "none" THEN SyncGoes("complete") /\ UNCHANGED assigning
     ELSE /\ AssignReads("sync", sync.fetched.rev, sync.ask = "explicit")
          /\ UNCHANGED sync
  /\ UNCHANGED <<mode, remote, stored, mail, pass, item, wish, upsets>>

\* The WHERE of the completion: nobody has joined since the version was read.
SyncCompletes ==
  /\ sync.pc = "complete"
  /\ IF sync.joined THEN Throws
     ELSE /\ sync' = NoSync
          /\ wish' = IF wish = "in" /\ item.state = "active" THEN "none" ELSE wish
  /\ UNCHANGED <<syncOnly, stored>>

SyncFails ==
  /\ sync.pc # "idle"
  /\ ~IsAssigning("sync")
  /\ Upset
  /\ Throws
  /\ UNCHANGED <<mode, remote, stored, mail, pass, place>>

-----------------------------------------------------------------------------
(* The passes of an open page.                                             *)

passOnly == <<mode, remote, snapshot, mail, item, upsets>>

\* The provider's list and the open rows are read at the same time.
RefreshLists ==
  /\ pass.pc = "idle" /\ Tracked
  /\ pass' = [pass EXCEPT !.pc = "read", !.listed = remote]
  /\ UNCHANGED <<passOnly, row, sync, assigning, wish>>

\* Mutant: a row that is not in the list is left for another day.
RefreshSkipsAbsent ==
  /\ pass.pc = "read"
  /\ pass' = IF row.state = "open" /\ pass.listed.state = "open"
               THEN [pass EXCEPT !.pc = "write", !.tracked = row]
               ELSE NoPass
  /\ UNCHANGED <<passOnly, row, sync, assigning, wish>>

\* A tracked row that is not in the list of open ones is fetched on its own.
RefreshFetches ==
  /\ pass.pc = "read"
  /\ pass' = IF row.state = "open"
               THEN [pc |-> "write", tracked |-> row,
                     listed |-> IF pass.listed.state = "open" THEN pass.listed
                                ELSE remote]
               ELSE NoPass
  /\ UNCHANGED <<passOnly, row, sync, assigning, wish>>

\* A row that differs in any column is written by its id alone.
RefreshWrites ==
  LET asks == /\ pass.listed.rev # pass.tracked.rev
              /\ pass.listed.state = "open"
  IN
  /\ pass.pc = "write"
  /\ \/ row' = pass.listed
     \/ pass.listed = pass.tracked /\ UNCHANGED row
  /\ pass' = IF asks THEN [NoPass EXCEPT !.pc = "request"] ELSE NoPass
  /\ UNCHANGED <<passOnly, sync, assigning, wish>>

PassRequests ==
  /\ pass.pc = "request"
  /\ pass' = NoPass
  /\ Requests(OwnersAsk)
  /\ UNCHANGED <<passOnly, row, assigning>>

\* The automatic intake, behind a refresh or when a synchronization has ended.
IntakeLists ==
  /\ mode = "all" /\ pass.pc = "idle" /\ remote.state = "open"
  /\ pass' = [NoPass EXCEPT !.pc = "intake", !.listed = remote]
  /\ UNCHANGED <<passOnly, row, sync, assigning, wish>>

\* A changed candidate is synchronized, unless its last run failed and nobody
\* forces the pass; an unchanged one that is not in the queue joins it.
IntakeReads ==
  LET differs == row # pass.listed IN
  /\ pass.pc = "intake"
  /\ \/ /\ differs /\ sync.pc = "idle"
        /\ pass' = [NoPass EXCEPT !.pc = "request"]
     \/ /\ differs /\ (sync.pc # "idle" \/ sync.failed)
        /\ pass' = NoPass
     \/ /\ ~differs
        /\ pass' = IF item.state = "active" THEN NoPass
                   ELSE [pass EXCEPT !.pc = "assign"]
  /\ UNCHANGED <<passOnly, row, sync, assigning, wish>>

IntakeAssigns ==
  /\ pass.pc = "assign"
  /\ AssignReads("pass", pass.listed.rev, FALSE)
  /\ UNCHANGED <<passOnly, row, pass, sync, wish>>

PassFails ==
  /\ pass.pc # "idle" /\ ~IsAssigning("pass")
  /\ Upset
  /\ pass' = NoPass
  /\ UNCHANGED <<mode, remote, stored, mail, sync, place, wish>>

-----------------------------------------------------------------------------
MailNext(d) ==
  \/ ProviderChanges(d) \/ Receives(d) \/ Applies(d) \/ Answers(d)
  \/ Fails(d)

UserNext == Adds \/ Removes \/ Restores

SyncNext ==
  \/ SyncReads \/ SyncReuses \/ SyncPublishes
  \/ SyncEndsPass \/ SyncAssigns \/ SyncCompletes \/ SyncFails

PassSteps ==
  \/ RefreshLists \/ RefreshFetches \/ RefreshWrites \/ PassRequests
  \/ IntakeLists \/ IntakeReads \/ IntakeAssigns

IntakeNext ==
  \/ \E d \in Mails : MailNext(d)
  \/ UserNext \/ SyncNext \/ AssignWrites \/ PassSteps \/ PassFails

IntakeSpec == IntakeInit /\ [][IntakeNext]_intakeVars

\* A signed-in reviewer keeps a page open, which makes a pass every few minutes, and
\* transactions end.  Nothing else has to happen.
IntakeFairSpec == IntakeSpec /\ WF_intakeVars(PassSteps) /\ WF_intakeVars(AssignWrites)

-----------------------------------------------------------------------------
(* Properties                                                              *)

\* An event that the provider need not send again is not lost: the revision of an
\* accepted update is in a snapshot, or a synchronization that will read it is
\* active, or the newest one failed for the user to see.  Except for a delivery in
\* hand: another copy of it is answered as a duplicate, also if its handler has died.
AcceptedUpdateIsShown ==
  \A d \in Mails :
    /\ mail[d].accepted /\ mail[d].status # "received"
    /\ mail[d].wanted /\ mail[d].event = "updated"
    => \/ snapshot >= mail[d].rev
       \/ sync.pc # "idle"
       \/ sync.failed

\* The queue follows its owner, whatever webhooks, refresh and intake do meanwhile.
\* A removed pull request stays out until its next revision, if nothing in progress
\* at the removal knew another one.  One that was added is in the queue when its run
\* has completed, if nobody else joined that run in the owner's name.
QueueFollowsTheOwner ==
  /\ wish = "out" => item.state = "removed"
  /\ wish = "in" => item.state = "active" \/ sync.pc # "idle"

\* A pull request that ended at the provider is not shown open for good, although
\* synchronizations and refreshes write what they read before it ended.
EndIsShown ==
  <>[](remote.state # "open") => <>[](Tracked => row.state # "open")
=============================================================================
