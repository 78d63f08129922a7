-------------------------- MODULE CommentPublication --------------------------
(***************************************************************************)
(* One review comment on its way to the provider: the requests that publish  *)
(* it (publishReviewComment in review/publish-comment.ts, with the helpers of *)
(* review/comments.ts), the conversations they open there, and a reviewer who *)
(* deletes one (deleteThreadComment in api/routers/review.ts).               *)
(*                                                                         *)
(* A reviewer's own comment is recognised by its text and line, a finding of  *)
(* a review by its job and index, which are unique.  The provider may open a  *)
(* conversation whose request has given up, and may ignore the key that asks  *)
(* it to open only one.                                                     *)
(* Left out: the checks of the line and the finding, replies, edits, the      *)
(* reviewer's identity, and what refuses a request before it writes.         *)
(***************************************************************************)
EXTENDS Naturals, Sequences, FiniteSets

CONSTANTS
  Requests,   \* calls of publishReviewComment; a call may be made again
  Kinds,      \* kinds of comment a behaviour may have: "user", "ai"
  None,       \* no request, no row, no conversation
  MaxRows,    \* bound: rows inserted for the comment
  MaxDeletes, \* bound: conversations deleted
  MaxFaults   \* bound: deaths, errors, lost answers and slow calls

ASSUME CommentPublicationAssumption ==
  /\ None \notin Requests \union Nat
  /\ Kinds \subseteq {"user", "ai"}
  /\ MaxRows \in Nat /\ MaxDeletes \in Nat /\ MaxFaults \in Nat

VARIABLES
  kind,       \* of the comment
  honours,    \* whether the provider honours idempotency keys
  rows,       \* the comment's rows of review_comment, oldest first
  threads,    \* conversations the provider has opened, oldest first
  request,    \* the calls in progress
  late,       \* posts whose caller has given up and which may still be applied
  forgetting, \* the deleted conversation whose row is still to be forgotten
  overlapped, \* history: rows retried while an older attempt could still post
  deletes, faults  \* spent of MaxDeletes and MaxFaults

vars == <<kind, honours, rows, threads, request, late, forgetting, overlapped,
          deletes, faults>>

Rows == 1..MaxRows
RequestOrNone == Requests \union {None}

\* stale: updatedAt is at least five minutes old.
Row == [status: {"publishing", "published", "failed", "deleted"},
        lease: RequestOrNone,    \* publicationLeaseToken
        stale: BOOLEAN,
        thread: Nat \union {None}]   \* providerExternalId

\* row: the marker in the body that was posted.
Thread == [row: Rows, live: BOOLEAN]

Request == [pc: {"idle", "claim", "reread", "reclaim", "insert", "list", "post",
                 "record", "fail"},
            row: Rows \union {None},
            thread: Nat \union {None}]

TypeOK ==
  /\ kind \in Kinds /\ honours \in BOOLEAN
  /\ rows \in Seq(Row) /\ Len(rows) <= MaxRows
  /\ threads \in Seq(Thread)
  /\ \A r \in DOMAIN rows : rows[r].status = "published" => rows[r].thread \in DOMAIN threads
  /\ request \in [Requests -> Request]
  /\ late \subseteq Requests \X Rows
  /\ forgetting \in DOMAIN threads \union {None}
  /\ overlapped \subseteq Rows
  /\ deletes \in 0..MaxDeletes /\ faults \in 0..MaxFaults

Idle == [pc |-> "idle", row |-> None, thread |-> None]

Init ==
  /\ kind \in Kinds /\ honours \in BOOLEAN
  /\ rows = <<>> /\ threads = <<>>
  /\ request = [q \in Requests |-> Idle]
  /\ late = {} /\ forgetting = None /\ overlapped = {}
  /\ deletes = 0 /\ faults = 0

Fault == faults < MaxFaults /\ faults' = faults + 1

\* A reply and a deleted comment are no row of this comment any more.
Existing == {r \in DOMAIN rows : rows[r].status # "deleted"}
Latest == CHOOSE r \in Existing : \A s \in Existing : s <= r

At(q, pc) == request[q].pc = pc
Goto(q, pc, row, thread) ==
  request' = [request EXCEPT ![q] = [pc |-> pc, row |-> row, thread |-> thread]]
Ends(q) == request' = [request EXCEPT ![q] = Idle]

Live(row) == {t \in DOMAIN threads : threads[t].row = row /\ threads[t].live}

\* Another call holds this row's comment and may still post it.
Working(q, row) == request[q].row = row /\ request[q].pc \in {"list", "post"}

Leased == {"list", "post", "record", "fail"}

provider == <<threads, late>>
deletion == <<forgetting, deletes>>
fixed == <<kind, honours>>

-----------------------------------------------------------------------------
(* Finding or leasing the row.                                             *)

\* findEquivalentUserComment, or the row of the job's finding.  A published
\* comment is returned as it is.
Asks(q) ==
  /\ At(q, "idle")
  /\ IF Existing = {}
       THEN Goto(q, "insert", None, None)
       ELSE rows[Latest].status # "published" /\ Goto(q, "claim", Latest, None)
  /\ UNCHANGED <<fixed, rows, provider, deletion, overlapped, faults>>

IsFailed(row) == rows[row].status = "failed"
IsClaimable(row) ==
  \/ rows[row].status = "failed"
  \/ rows[row].status = "publishing" /\ rows[row].stale

LeasedTo(q) == [status |-> "publishing", lease |-> q, stale |-> FALSE, thread |-> None]

\* claimCommentForPublicationRetry has reached the row.
Claims(q) ==
  /\ request[q].pc \in {"claim", "reclaim"}
  /\ IsClaimable(request[q].row)
  /\ rows' = [rows EXCEPT ![request[q].row] = LeasedTo(q)]
  /\ overlapped' = IF \E p \in Requests \ {q} : Working(p, request[q].row)
                     THEN overlapped \union {request[q].row} ELSE overlapped
  /\ Goto(q, "list", request[q].row, None)
  /\ UNCHANGED <<fixed, provider, deletion, faults>>

\* It has not: only a finding is read again, and leased if it can be.
ClaimsNothing(q) ==
  /\ request[q].pc \in {"claim", "reclaim"}
  /\ ~IsClaimable(request[q].row)
  /\ IF At(q, "claim") /\ kind = "ai" THEN Goto(q, "reread", None, None) ELSE Ends(q)
  /\ UNCHANGED <<fixed, rows, provider, deletion, overlapped, faults>>

Rereads(q) ==
  /\ At(q, "reread")
  /\ IF Existing = {} \/ rows[Latest].status = "published"
       THEN Ends(q)
       ELSE Goto(q, "reclaim", Latest, None)
  /\ UNCHANGED <<fixed, rows, provider, deletion, overlapped, faults>>

\* onConflictDoNothing: only the job and index of a finding conflict.
Inserts(q) ==
  /\ At(q, "insert")
  /\ IF kind = "ai" /\ Existing # {}
       THEN Goto(q, "reread", None, None) /\ UNCHANGED rows
       ELSE /\ Len(rows) < MaxRows
            /\ rows' = Append(rows, LeasedTo(q))
            /\ Goto(q, "post", Len(rows) + 1, None)
  /\ UNCHANGED <<fixed, provider, deletion, overlapped, faults>>

-----------------------------------------------------------------------------
(* Publishing under the lease.                                             *)

\* publishedThreadForComment: conversations with the marker of the row.
NoneFound(row) == {}
Found(row) == Live(row)

\* A retry looks first for what an earlier attempt may have posted.
Lists(q) ==
  /\ At(q, "list")
  /\ IF Found(request[q].row) = {}
       THEN Goto(q, "post", request[q].row, None)
       ELSE \E t \in Found(request[q].row) : Goto(q, "record", request[q].row, t)
  /\ overlapped' = IF \E p \in Requests : <<p, request[q].row>> \in late
                     THEN overlapped \union {request[q].row} ELSE overlapped
  /\ UNCHANGED <<fixed, rows, provider, deletion, faults>>

\* The provider opens the conversation, or answers a key it has seen before.
Opened(row) ==
  IF honours /\ \E t \in DOMAIN threads : threads[t].row = row
    THEN UNCHANGED threads
    ELSE threads' = Append(threads, [row |-> row, live |-> TRUE])

Posts(q) ==
  /\ At(q, "post")
  /\ Opened(request[q].row)
  /\ \E t \in DOMAIN threads' :
       /\ threads'[t].row = request[q].row
       /\ honours \/ t = Len(threads')
       /\ Goto(q, "record", request[q].row, t)
  /\ UNCHANGED <<fixed, rows, late, deletion, overlapped, faults>>

\* An error, a lost answer, or 20 seconds without one: then the provider may
\* have opened the conversation, or may open it later.
PostFails(q) ==
  /\ At(q, "post")
  /\ Fault
  /\ \/ UNCHANGED provider
     \/ Opened(request[q].row) /\ UNCHANGED late
     \/ late' = late \union {<<q, request[q].row>>} /\ UNCHANGED threads
  /\ Goto(q, "fail", request[q].row, None)
  /\ UNCHANGED <<fixed, rows, deletion, overlapped>>

ListFails(q) ==
  /\ At(q, "list")
  /\ Fault
  /\ Goto(q, "fail", request[q].row, None)
  /\ UNCHANGED <<fixed, rows, provider, deletion, overlapped>>

LateApplies(p, row) ==
  /\ <<p, row>> \in late
  /\ late' = late \ {<<p, row>>}
  /\ Opened(row)
  /\ UNCHANGED <<fixed, rows, request, deletion, overlapped, faults>>

HoldsById(q) == rows[request[q].row].status # "deleted"
HoldsLease(q) ==
  rows[request[q].row].status = "publishing" /\ rows[request[q].row].lease = q

\* A superseded lease writes nothing, here and in the handler of the error.
Records(q) ==
  /\ At(q, "record")
  /\ rows' = IF HoldsLease(q)
               THEN [rows EXCEPT ![request[q].row] =
                       [status |-> "published", lease |-> None, stale |-> FALSE,
                        thread |-> request[q].thread]]
               ELSE rows
  /\ Ends(q)
  /\ UNCHANGED <<fixed, provider, deletion, overlapped, faults>>

Fails(q) ==
  /\ At(q, "fail")
  /\ rows' = IF HoldsLease(q)
               THEN [rows EXCEPT ![request[q].row].status = "failed",
                                 ![request[q].row].lease = None]
               ELSE rows
  /\ Ends(q)
  /\ UNCHANGED <<fixed, provider, deletion, overlapped, faults>>

\* The process dies, or no provider can be built after the lease was taken
\* (providerForReviewerWrite throws outside the try): the row stays leased.
Dies(q) ==
  /\ request[q].pc \in Leased
  /\ Fault
  /\ \/ UNCHANGED late
     \/ At(q, "post") /\ late' = late \union {<<q, request[q].row>>}
  /\ Ends(q)
  /\ UNCHANGED <<fixed, rows, threads, deletion, overlapped>>

IsAtWork(row) ==
  \E q \in Requests : /\ request[q].row = row /\ rows[row].lease = q
                      /\ request[q].pc \in Leased

\* Five minutes pass.  A call that takes longer than that is a fault.
Ages(row) ==
  /\ row \in DOMAIN rows
  /\ rows[row].status = "publishing" /\ ~rows[row].stale
  /\ rows' = [rows EXCEPT ![row].stale = TRUE]
  /\ IF IsAtWork(row) THEN Fault ELSE UNCHANGED faults
  /\ UNCHANGED <<fixed, provider, request, deletion, overlapped>>

-----------------------------------------------------------------------------
(* Deleting the conversation: at the provider, then its record here.       *)

DeletesThread(t) ==
  /\ t \in DOMAIN threads /\ threads[t].live
  /\ forgetting = None
  /\ deletes < MaxDeletes
  /\ deletes' = deletes + 1
  /\ threads' = [threads EXCEPT ![t].live = FALSE]
  /\ forgetting' = t
  /\ UNCHANGED <<fixed, rows, request, late, overlapped, faults>>

Unlinked(row) == [row EXCEPT !.thread = None]
Forgotten(row) == [row EXCEPT !.status = "deleted", !.thread = None]

\* forgetPublishedComments deletes the row by the conversation it names.
Forgets ==
  /\ forgetting # None
  /\ rows' = [r \in DOMAIN rows |->
                IF rows[r].thread = forgetting THEN Forgotten(rows[r]) ELSE rows[r]]
  /\ forgetting' = None
  /\ UNCHANGED <<fixed, provider, request, overlapped, deletes, faults>>

NeverForgets ==
  /\ forgetting # None
  /\ Fault
  /\ forgetting' = None
  /\ UNCHANGED <<fixed, rows, provider, request, overlapped, deletes>>

-----------------------------------------------------------------------------
Publishes(q) ==
  \/ Asks(q) \/ Claims(q) \/ ClaimsNothing(q) \/ Rereads(q) \/ Inserts(q)
  \/ Lists(q) \/ Posts(q) \/ Records(q) \/ Fails(q)

Next ==
  \/ \E q \in Requests : Publishes(q) \/ ListFails(q) \/ PostFails(q) \/ Dies(q)
  \/ \E p \in Requests, row \in Rows : LateApplies(p, row)
  \/ \E row \in Rows : Ages(row)
  \/ \E t \in DOMAIN threads : DeletesThread(t)
  \/ Forgets \/ NeverForgets

\* A reviewer who keeps asking, calls that go on, and a clock that runs.
Fairness ==
  /\ \A q \in Requests : WF_vars(Publishes(q))
  /\ \A row \in Rows : WF_vars(Ages(row))

Spec == Init /\ [][Next]_vars /\ Fairness

-----------------------------------------------------------------------------
(* Properties.                                                             *)

\* A row has at most one conversation at the provider, and a finding of a review at most
\* one over all the rows it ever had, through lost answers, failures, retries and
\* deletions: two need a provider that ignores the key and a retry that ran while an
\* older post could still be applied.  A reviewer's own comment is unique by row only:
\* two calls that both find none give it two rows, and each may open a conversation.
OneConversation ==
  /\ \A row \in DOMAIN rows : Cardinality(Live(row)) > 1 => row \in overlapped /\ ~honours
  /\ kind = "ai" /\ Cardinality(UNION {Live(row) : row \in DOMAIN rows}) > 1 =>
       overlapped # {} /\ ~honours

\* A published row is never taken back or given another conversation by an
\* attempt that fails, or succeeds, later: only a deletion ends it.
PublishedIsFinal ==
  [][\A row \in DOMAIN rows :
       rows[row].status = "published" => \/ rows'[row] = rows[row]
                                         \/ rows'[row].status = "deleted"]_vars

\* However an attempt ended, asking again publishes the comment: no lease that
\* was left behind keeps it from being posted.
AskingAgainPublishes ==
  \A row \in Rows :
    (row \in Existing /\ row = Latest)
      ~> (row \notin Existing \/ row # Latest \/ rows[row].status = "published")
=============================================================================
