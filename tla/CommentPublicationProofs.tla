----------------------- MODULE CommentPublicationProofs -----------------------
(***************************************************************************)
(* Theorems about CommentPublication, for any number of requests, rows,       *)
(* deletions and faults.  The argument: unless a retry ran while an older      *)
(* attempt could still post, there is at each time at most one source of a     *)
(* conversation for a row: a request about to post it, a post whose caller     *)
(* has given up, or the conversation that is there.                          *)
(***************************************************************************)
EXTENDS CommentPublication, FiniteSetTheorems, SequenceTheorems, WellFoundedInduction, TLAPS

\* A request that works on a row.
HasRow == {"claim", "reclaim", "list", "post", "record", "fail"}

\* Whatever is worked on exists.
RowsExist ==
  /\ \A q \in Requests : request[q].pc \in HasRow => request[q].row \in DOMAIN rows
  /\ \A q \in Requests : request[q].pc = "record" => request[q].thread \in DOMAIN threads
  /\ \A t \in DOMAIN threads : threads[t].row \in DOMAIN rows
  /\ \A e \in late : e[2] \in DOMAIN rows

\* A provider that honours the key opens one conversation for a row, ever.
KeysAreHonoured ==
  honours => \A t, u \in DOMAIN threads : threads[t].row = threads[u].row => t = u

\* One source of a conversation at a time.
OneSource(row) ==
  /\ \A p, q \in Requests : Working(p, row) /\ Working(q, row) => p = q
  /\ \A q \in Requests : request[q].row = row /\ At(q, "post") =>
       Live(row) = {} /\ \A p \in Requests : <<p, row>> \notin late
  /\ \A p \in Requests : <<p, row>> \in late => Live(row) = {}
  /\ \A p, q \in Requests : <<p, row>> \in late /\ <<q, row>> \in late => p = q
  /\ \A t, u \in Live(row) : t = u

IInv == /\ TypeOK
        /\ RowsExist
        /\ KeysAreHonoured
        /\ \A row \in Rows \ overlapped : OneSource(row)

\* What is recorded of a conversation is true of it, and a finding has one row that is
\* not deleted.
RowsMatch ==
  /\ \A q \in Requests : At(q, "record") => threads[request[q].thread].row = request[q].row
  /\ \A r \in DOMAIN rows :
       /\ rows[r].status = "published" => threads[rows[r].thread].row = r
       /\ rows[r].status # "published" => rows[r].thread = None
  /\ forgetting # None => ~threads[forgetting].live
  /\ honours => \A r \in DOMAIN rows : rows[r].status = "deleted" =>
       Live(r) = {} /\ \E t \in DOMAIN threads : threads[t].row = r
  /\ kind = "ai" => \A r \in DOMAIN rows : r < Len(rows) => rows[r].status = "deleted"

\* Only the holder of the lease can still open or record a conversation, so that nothing
\* is opened for a row once it is published or deleted.
OneHolder(row) ==
  /\ \A q \in Requests : Working(q, row) => HoldsLease(q)
  /\ (\E p \in Requests : <<p, row>> \in late) =>
       /\ rows[row].status \in {"publishing", "failed"}
       /\ \A q \in Requests : request[q].row = row /\ At(q, "record") => ~HoldsLease(q)
  /\ \A q \in Requests : request[q].row = row /\ At(q, "record") /\ HoldsLease(q) =>
       Live(row) \subseteq {request[q].thread}
  /\ rows[row].status = "published" => Live(row) \subseteq {rows[row].thread}
  /\ rows[row].status = "deleted" => Live(row) = {}

Holders == RowsMatch /\ \A row \in DOMAIN rows \ overlapped : OneHolder(row)

-----------------------------------------------------------------------------
(* Rows and conversations.                                                 *)

\* The rows of the comment are numbered, and each number is one of Rows.
LEMMA RowsFacts ==
  ASSUME IInv
  PROVE  /\ DOMAIN rows = 1..Len(rows) /\ Len(rows) \in Nat
         /\ DOMAIN rows \subseteq Rows
         /\ \A r \in DOMAIN rows : rows[r] \in Row
<1>1. rows \in Seq(Row) /\ Len(rows) <= MaxRows /\ MaxRows \in Nat
  BY CommentPublicationAssumption DEF IInv, TypeOK
<1>2. DOMAIN rows = 1..Len(rows) /\ Len(rows) \in Nat /\ \A r \in DOMAIN rows : rows[r] \in Row
  BY <1>1, ElementOfSeq
<1>3. DOMAIN rows \subseteq Rows
  BY <1>1, <1>2 DEF Rows
<1> QED BY <1>2, <1>3

\* A set of numbers of a sequence has a largest one.
LEMMA LargestExists ==
  ASSUME NEW n \in Nat, NEW E, E \subseteq 1..n, E # {}
  PROVE  \E r \in E : \A s \in E : s <= r
<1> DEFINE Behind == {n - r : r \in E}
<1>1. \A r \in E : r \in Nat /\ n - r \in Nat
  OBVIOUS
<1>2. Behind \subseteq Nat
  BY <1>1
<1>3. Behind # {}
  OBVIOUS
<1>4. PICK a \in Behind : \A b \in Behind : ~(<<b, a>> \in OpToRel(<, Nat))
  BY <1>2, <1>3, NatLessThanWellFounded, WFMin
<1>5. \A b \in Nat : b < a => <<b, a>> \in OpToRel(<, Nat)
  BY <1>2 DEF OpToRel
<1>6. ASSUME NEW b \in Behind PROVE a <= b
  <2>1. a \in Nat /\ b \in Nat
    BY <1>2
  <2>2. ~(b < a)
    BY <1>4, <1>5, <2>1
  <2> QED BY <2>1, <2>2
<1>7. PICK r \in E : a = n - r
  BY <1>4
<1>8. ASSUME NEW s \in E PROVE s <= r
  <2>1. n - s \in Behind
    OBVIOUS
  <2>2. n - r <= n - s
    BY <1>6, <1>7, <2>1
  <2> QED BY <1>1, <2>2
<1> QED BY <1>8

\* The newest of the rows that are not deleted.
LEMMA LatestExists ==
  ASSUME IInv, Existing # {}
  PROVE  Latest \in DOMAIN rows /\ Latest \in Existing
<1>1. Existing \subseteq 1..Len(rows) /\ Len(rows) \in Nat
  BY RowsFacts DEF Existing
<1>2. \E r \in Existing : \A s \in Existing : s <= r
  BY <1>1, LargestExists
<1>3. Latest \in Existing
  BY <1>2 DEF Latest
<1> QED BY <1>3 DEF Existing

\* What the provider does with a post.
LEMMA OpenedFacts ==
  ASSUME IInv, NEW row \in DOMAIN rows, Opened(row), UNCHANGED <<honours, rows>>
  PROVE  /\ threads' \in Seq(Thread)
         /\ DOMAIN threads \subseteq DOMAIN threads'
         /\ \A t \in DOMAIN threads : threads'[t] = threads[t]
         /\ \A t \in DOMAIN threads' : t \notin DOMAIN threads =>
              t = Len(threads) + 1 /\ threads'[t].row = row
         /\ KeysAreHonoured'
         /\ Len(threads') \in Nat
         /\ DOMAIN threads' = 1..Len(threads')
<1>1. threads \in Seq(Thread) /\ Len(threads) \in Nat /\ DOMAIN threads = 1..Len(threads)
  BY ElementOfSeq DEF IInv, TypeOK
<1>2. row \in Rows
  BY RowsFacts
<1>3. CASE UNCHANGED threads
  BY <1>1, <1>3 DEF IInv, KeysAreHonoured
<1>4. CASE /\ threads' = Append(threads, [row |-> row, live |-> TRUE])
           /\ ~(honours /\ \E t \in DOMAIN threads : threads[t].row = row)
  <2>1. [row |-> row, live |-> TRUE] \in Thread
    BY <1>2 DEF Thread
  <2>2. /\ threads' \in Seq(Thread) /\ Len(threads') = Len(threads) + 1
        /\ \A t \in 1..Len(threads) : threads'[t] = threads[t]
        /\ threads'[Len(threads) + 1] = [row |-> row, live |-> TRUE]
    BY <1>1, <1>4, <2>1, AppendProperties
  <2>3. DOMAIN threads' = 1..(Len(threads) + 1)
    BY <2>2, ElementOfSeq
  <2>4. \A t \in DOMAIN threads' :
          \/ t \in DOMAIN threads /\ threads'[t] = threads[t]
          \/ t = Len(threads) + 1 /\ threads'[t].row = row
    BY <1>1, <2>2, <2>3
  <2>5. KeysAreHonoured'
    BY <1>4, <2>4 DEF IInv, KeysAreHonoured
  <2> QED BY <1>1, <2>2, <2>3, <2>4, <2>5
<1> QED BY <1>3, <1>4 DEF Opened

-----------------------------------------------------------------------------
(* What the steps do to the invariant.                                     *)

\* What remains of the types, and of what is worked on, when rows keep their numbers and
\* conversations are added.
LEMMA StillExist ==
  ASSUME IInv,
         UNCHANGED <<kind, honours>>,
         rows' \in Seq(Row), Len(rows') = Len(rows),
         threads' \in Seq(Thread), DOMAIN threads \subseteq DOMAIN threads',
         \A t \in DOMAIN threads' : threads'[t].row \in DOMAIN rows,
         \A r \in DOMAIN rows' :
           rows'[r].status = "published" => rows'[r].thread \in DOMAIN threads',
         request' \in [Requests -> Request],
         \A q \in Requests : \/ request'[q] = request[q]
                             \/ /\ request'[q].pc \in HasRow => request'[q].row \in DOMAIN rows
                                /\ request'[q].pc = "record" =>
                                     request'[q].thread \in DOMAIN threads',
         late' \subseteq Requests \X DOMAIN rows,
         forgetting' \in DOMAIN threads' \union {None},
         overlapped' \subseteq Rows,
         deletes' \in 0..MaxDeletes, faults' \in 0..MaxFaults
  PROVE  TypeOK' /\ RowsExist'
<1>1. DOMAIN rows' = DOMAIN rows
  BY RowsFacts, ElementOfSeq
<1>2. late' \subseteq Requests \X Rows
  BY RowsFacts
<1>3. kind' \in Kinds /\ honours' \in BOOLEAN /\ Len(rows') <= MaxRows
  BY DEF IInv, TypeOK
<1>4. TypeOK'
  BY <1>2, <1>3 DEF TypeOK
<1>5. \A q \in Requests : request'[q].pc \in HasRow => request'[q].row \in DOMAIN rows'
  BY <1>1 DEF IInv, RowsExist
<1>6. \A q \in Requests : request'[q].pc = "record" => request'[q].thread \in DOMAIN threads'
  BY DEF IInv, RowsExist
<1>7. \A e \in late' : e[2] \in DOMAIN rows'
  BY <1>1
<1> QED BY <1>1, <1>4, <1>5, <1>6, <1>7 DEF RowsExist

\* A request goes on, and takes up a post only if no other source is left.
LEMMA RequestInv ==
  ASSUME IInv, NEW q \in Requests, NEW r \in Request,
         request' = [request EXCEPT ![q] = r],
         UNCHANGED <<kind, honours, threads, late, forgetting, deletes>>,
         rows' \in Seq(Row), Len(rows') = Len(rows),
         \A s \in DOMAIN rows' :
           rows'[s].status = "published" => rows'[s].thread \in DOMAIN threads,
         overlapped \subseteq overlapped', overlapped' \subseteq Rows,
         faults' \in 0..MaxFaults,
         r.pc \in HasRow => r.row \in DOMAIN rows,
         r.pc = "record" => r.thread \in DOMAIN threads,
         r.pc \in {"list", "post"} =>
           \/ r.row \in overlapped'
           \/ /\ \A p \in Requests \ {q} : ~Working(p, r.row)
              /\ r.pc = "post" => Live(r.row) = {} /\ \A p \in Requests : <<p, r.row>> \notin late
  PROVE  IInv'
<1>1. request' \in [Requests -> Request] /\ request'[q] = r
      /\ \A p \in Requests : p # q => request'[p] = request[p]
  BY DEF IInv, TypeOK
<1>2. late \subseteq Requests \X DOMAIN rows
  BY DEF IInv, TypeOK, RowsExist
<1>3. threads \in Seq(Thread) /\ (\A t \in DOMAIN threads : threads[t].row \in DOMAIN rows)
      /\ forgetting \in DOMAIN threads \union {None} /\ deletes \in 0..MaxDeletes
  BY DEF IInv, TypeOK, RowsExist
<1>4. TypeOK' /\ RowsExist'
  BY <1>1, <1>2, <1>3, StillExist
<1>5. KeysAreHonoured'
  BY DEF IInv, KeysAreHonoured
<1>6. ASSUME NEW row \in Rows \ overlapped' PROVE OneSource(row)'
  <2>1. OneSource(row)
    BY DEF IInv
  <2>2. Live(row)' = Live(row)
    BY DEF Live
  <2>3. \A a, b \in Requests : Working(a, row)' /\ Working(b, row)' => a = b
    BY <1>1, <2>1 DEF OneSource, Working
  <2>4. ASSUME NEW a \in Requests, request'[a].row = row, At(a, "post")'
        PROVE  Live(row) = {} /\ \A p \in Requests : <<p, row>> \notin late
    BY <1>1, <2>1, <2>4 DEF OneSource, At
  <2> QED BY <2>1, <2>2, <2>3, <2>4 DEF OneSource
<1> QED BY <1>4, <1>5, <1>6 DEF IInv

\* Rows change, and the requests and the provider do not.
LEMMA RowsInv ==
  ASSUME IInv,
         UNCHANGED <<kind, honours, request, threads, late, overlapped, deletes>>,
         rows' \in Seq(Row), Len(rows') = Len(rows),
         \A s \in DOMAIN rows' :
           rows'[s].status = "published" => rows'[s].thread \in DOMAIN threads,
         forgetting' \in DOMAIN threads \union {None}, faults' \in 0..MaxFaults
  PROVE  IInv'
<1>1. /\ request' \in [Requests -> Request] /\ late \subseteq Requests \X DOMAIN rows
      /\ threads \in Seq(Thread) /\ \A t \in DOMAIN threads : threads[t].row \in DOMAIN rows
      /\ overlapped \subseteq Rows /\ deletes \in 0..MaxDeletes
  BY DEF IInv, TypeOK, RowsExist
<1>2. TypeOK' /\ RowsExist'
  BY <1>1, StillExist
<1>3. KeysAreHonoured'
  BY DEF IInv, KeysAreHonoured
<1>4. ASSUME NEW row \in Rows \ overlapped' PROVE OneSource(row)'
  BY DEF IInv, OneSource, Working, Live, At
<1> QED BY <1>2, <1>3, <1>4 DEF IInv

\* A conversation opens for a row that has no other source.
LEMMA OpensOneSource ==
  ASSUME IInv, NEW opened \in DOMAIN rows, Opened(opened),
         UNCHANGED <<honours, rows, overlapped>>,
         \A q \in Requests : request'[q] = request[q] \/ request'[q].pc \notin {"list", "post"},
         late' \subseteq late,
         opened \notin overlapped =>
           /\ Live(opened) = {}
           /\ \A q \in Requests : ~(request'[q].row = opened /\ At(q, "post")')
           /\ \A p \in Requests : <<p, opened>> \notin late'
  PROVE  \A row \in Rows \ overlapped' : OneSource(row)'
<1> SUFFICES ASSUME NEW row \in Rows \ overlapped PROVE OneSource(row)'
  OBVIOUS
<1>1. OneSource(row)
  BY DEF IInv
<1>2. \A a, b \in Requests : Working(a, row)' /\ Working(b, row)' => a = b
  BY <1>1 DEF OneSource, Working
<1>3. /\ \A t \in DOMAIN threads : threads'[t] = threads[t]
      /\ \A t \in DOMAIN threads' : t \notin DOMAIN threads =>
           t = Len(threads) + 1 /\ threads'[t].row = opened
      /\ DOMAIN threads \subseteq DOMAIN threads'
  BY OpenedFacts
<1>4. CASE row # opened
  <2>1. Live(row)' = Live(row)
    BY <1>3, <1>4 DEF Live
  <2>2. \A q \in Requests : request'[q].row = row /\ At(q, "post")' =>
          Live(row) = {} /\ \A p \in Requests : <<p, row>> \notin late
    BY <1>1 DEF OneSource, At
  <2> QED BY <1>1, <1>2, <2>1, <2>2 DEF OneSource
<1>5. CASE row = opened
  <2>1. \A t, u \in Live(row)' : t = u
    BY <1>3, <1>5 DEF Live
  <2> QED BY <1>2, <1>5, <2>1 DEF OneSource
<1> QED BY <1>4, <1>5

\* One row changes.
LEMMA OneRowChanges ==
  ASSUME IInv, NEW s \in DOMAIN rows, NEW x \in Row, rows' = [rows EXCEPT ![s] = x],
         x.status = "published" => x.thread \in DOMAIN threads
  PROVE  /\ rows' \in Seq(Row) /\ Len(rows') = Len(rows) /\ DOMAIN rows' = DOMAIN rows
         /\ \A r \in DOMAIN rows' :
              rows'[r].status = "published" => rows'[r].thread \in DOMAIN threads
<1>1. rows \in Seq(Row) /\ s \in 1..Len(rows)
  BY RowsFacts DEF IInv, TypeOK
<1>2. rows' \in Seq(Row) /\ Len(rows') = Len(rows)
  BY <1>1, ExceptSeq
<1>3. DOMAIN rows' = DOMAIN rows /\ \A r \in DOMAIN rows : r # s => rows'[r] = rows[r]
  OBVIOUS
<1>4. rows'[s] = x
  OBVIOUS
<1> QED BY <1>2, <1>3, <1>4 DEF IInv, TypeOK

\* Faults are bounded.
LEMMA FaultCounted == ASSUME IInv, Fault PROVE faults' \in 0..MaxFaults
BY CommentPublicationAssumption DEF Fault, IInv, TypeOK

\* A request that leaves the rows as they are and does not reach for the conversation.
LEMMA GoesOn ==
  ASSUME IInv, NEW q \in Requests, NEW r \in Request,
         request' = [request EXCEPT ![q] = r],
         UNCHANGED <<kind, honours, rows, threads, late, forgetting, deletes, overlapped>>,
         faults' \in 0..MaxFaults,
         r.pc \in HasRow => r.row \in DOMAIN rows,
         r.pc \notin {"list", "post", "record"}
  PROVE  IInv'
<1>1. rows \in Seq(Row) /\ overlapped \subseteq Rows
      /\ \A s \in DOMAIN rows : rows[s].status = "published" => rows[s].thread \in DOMAIN threads
  BY DEF IInv, TypeOK
<1> QED BY <1>1, RequestInv

-----------------------------------------------------------------------------
(* The initial states, and the steps of a request.                         *)

\* Nothing has been written or posted.
LEMMA InitInv == Init => IInv
<1> SUFFICES ASSUME Init PROVE IInv
  OBVIOUS
<1>1. rows = <<>> /\ threads = <<>> /\ late = {} /\ request = [q \in Requests |-> Idle]
      /\ overlapped = {}
  BY DEF Init
<1>2. rows \in Seq(Row) /\ Len(rows) = 0 /\ DOMAIN rows = {}
      /\ threads \in Seq(Thread) /\ DOMAIN threads = {}
  BY <1>1, EmptySeq
<1>3. Idle \in Request /\ Idle.pc = "idle"
  BY DEF Idle, Request
<1>4. TypeOK
  <2>1. request \in [Requests -> Request]
    BY <1>1, <1>3
  <2> QED BY <1>1, <1>2, <2>1, CommentPublicationAssumption DEF TypeOK, Init
<1>5. RowsExist
  BY <1>1, <1>2, <1>3 DEF RowsExist, HasRow
<1>6. KeysAreHonoured
  BY <1>2 DEF KeysAreHonoured
<1>7. ASSUME NEW row \in Rows PROVE OneSource(row)
  BY <1>1, <1>2, <1>3 DEF OneSource, Working, At, Live
<1> QED BY <1>4, <1>5, <1>6, <1>7 DEF IInv

\* Where a request without a lease may be.
LEMMA RequestsAreTyped ==
  /\ Idle \in Request /\ Idle.pc = "idle"
  /\ \A pc \in {"reread", "insert"} : [pc |-> pc, row |-> None, thread |-> None] \in Request
  /\ \A pc \in HasRow, row \in Rows :
       [pc |-> pc, row |-> row, thread |-> None] \in Request
BY DEF Idle, Request, HasRow

\* Looking for the row, with and without success.
LEMMA FindsInv ==
  ASSUME IInv, NEW q \in Requests, Asks(q) \/ ClaimsNothing(q) \/ Rereads(q)
  PROVE  IInv'
<1>1. PICK r \in Request :
        /\ request' = [request EXCEPT ![q] = r]
        /\ r.pc \notin {"list", "post", "record"}
        /\ r.pc \in HasRow => r.row \in DOMAIN rows
  <2>1. Existing # {} => Latest \in DOMAIN rows /\ Latest \in Rows
    BY LatestExists, RowsFacts
  <2>2. CASE Asks(q)
    BY <2>1, <2>2, RequestsAreTyped DEF Asks, Goto, HasRow
  <2>3. CASE ClaimsNothing(q)
    BY <2>3, RequestsAreTyped DEF ClaimsNothing, Goto, Ends, HasRow
  <2>4. CASE Rereads(q)
    BY <2>1, <2>4, RequestsAreTyped DEF Rereads, Goto, Ends, HasRow
  <2> QED BY <2>2, <2>3, <2>4
<1>2. UNCHANGED <<kind, honours, rows, threads, late, forgetting, deletes, overlapped, faults>>
  BY DEF Asks, ClaimsNothing, Rereads, fixed, provider, deletion
<1>3. faults' \in 0..MaxFaults
  BY <1>2 DEF IInv, TypeOK
<1> QED BY <1>1, <1>2, <1>3, GoesOn

\* A lease that finds another call at work on the row marks it.
LEMMA ClaimsInv == ASSUME IInv, NEW q \in Requests, Claims(q) PROVE IInv'
<1> DEFINE s == request[q].row
           r == [pc |-> "list", row |-> s, thread |-> None]
<1>1. s \in DOMAIN rows /\ s \in Rows
  BY RowsFacts DEF Claims, IInv, RowsExist, HasRow
<1>2. r \in Request /\ r.pc = "list" /\ r.row = s
  BY <1>1 DEF Request
<1>3. LeasedTo(q) \in Row /\ LeasedTo(q).status = "publishing"
  BY DEF LeasedTo, Row, RequestOrNone
<1>4. /\ request' = [request EXCEPT ![q] = r]
      /\ rows' = [rows EXCEPT ![s] = LeasedTo(q)]
      /\ UNCHANGED <<kind, honours, threads, late, forgetting, deletes, faults>>
  BY DEF Claims, Goto, fixed, provider, deletion
<1>5. /\ rows' \in Seq(Row) /\ Len(rows') = Len(rows)
      /\ \A x \in DOMAIN rows' :
           rows'[x].status = "published" => rows'[x].thread \in DOMAIN threads
  BY <1>1, <1>3, <1>4, OneRowChanges
<1>6. /\ overlapped \subseteq overlapped' /\ overlapped' \subseteq Rows
      /\ s \in overlapped' \/ \A p \in Requests \ {q} : ~Working(p, s)
  BY <1>1 DEF Claims, IInv, TypeOK
<1>7. faults' \in 0..MaxFaults
  BY <1>4 DEF IInv, TypeOK
<1> HIDE DEF s, r
<1> QED BY <1>1, <1>2, <1>4, <1>5, <1>6, <1>7, RequestInv

\* A new row has no conversation and nobody else at work.
LEMMA InsertsInv == ASSUME IInv, NEW q \in Requests, Inserts(q) PROVE IInv'
<1>1. UNCHANGED <<kind, honours, threads, late, forgetting, deletes, overlapped, faults>>
  BY DEF Inserts, fixed, provider, deletion
<1>2. faults' \in 0..MaxFaults
  BY <1>1 DEF IInv, TypeOK
<1>3. CASE /\ request' = [request EXCEPT ![q] = [pc |-> "reread", row |-> None, thread |-> None]]
           /\ UNCHANGED rows
  BY <1>1, <1>2, <1>3, RequestsAreTyped, GoesOn DEF HasRow
<1>4. CASE Len(rows) < MaxRows /\ rows' = Append(rows, LeasedTo(q))
           /\ request' = [request EXCEPT ![q] =
                           [pc |-> "post", row |-> Len(rows) + 1, thread |-> None]]
  <2> DEFINE n == Len(rows) + 1
             r == [pc |-> "post", row |-> n, thread |-> None]
  <2>1. rows \in Seq(Row) /\ Len(rows) \in Nat /\ DOMAIN rows = 1..Len(rows)
        /\ MaxRows \in Nat /\ LeasedTo(q) \in Row /\ LeasedTo(q).status = "publishing"
    BY RowsFacts, CommentPublicationAssumption
       DEF IInv, TypeOK, LeasedTo, Row, RequestOrNone
  <2>2. /\ rows' \in Seq(Row) /\ Len(rows') = n /\ rows'[n] = LeasedTo(q)
        /\ \A x \in 1..Len(rows) : rows'[x] = rows[x]
    BY <1>4, <2>1, AppendProperties
  <2>3. DOMAIN rows' = 1..n
    BY <2>2, ElementOfSeq
  <2>4. n \in Rows /\ n \notin DOMAIN rows /\ n \in DOMAIN rows' /\ n <= MaxRows
        /\ DOMAIN rows \subseteq DOMAIN rows'
        /\ \A x \in DOMAIN rows' : x \in DOMAIN rows \/ x = n
    BY <1>4, <2>1, <2>3 DEF Rows
  <2>5. r \in Request /\ r.pc = "post" /\ r.row = n
    BY <2>4 DEF Request
  <2>6. request' = [request EXCEPT ![q] = r]
    BY <1>4
  <2> HIDE DEF r, n
  <2>7. /\ request' \in [Requests -> Request] /\ request'[q] = r
        /\ \A p \in Requests : p # q => request'[p] = request[p]
    BY <2>5, <2>6 DEF IInv, TypeOK
  <2>8. \A x \in DOMAIN rows' :
          rows'[x].status = "published" => rows'[x].thread \in DOMAIN threads
    BY <2>1, <2>2, <2>4 DEF IInv, TypeOK
  <2>9. TypeOK'
    BY <1>1, <1>2, <2>2, <2>4, <2>7, <2>8 DEF IInv, TypeOK
  <2>10. RowsExist'
    BY <1>1, <2>4, <2>5, <2>7 DEF IInv, RowsExist
  <2>11. KeysAreHonoured'
    BY <1>1 DEF IInv, KeysAreHonoured
  <2>12. ASSUME NEW row \in Rows \ overlapped PROVE OneSource(row)'
    <3>1. Live(row)' = Live(row) /\ OneSource(row)
      BY <1>1 DEF IInv, Live
    <3>2. CASE row # n
      BY <1>1, <2>5, <2>7, <3>1, <3>2 DEF OneSource, Working, At
    <3>3. CASE row = n
      <4>1. Live(row) = {} /\ \A p \in Requests : <<p, row>> \notin late
        BY <2>4, <3>3 DEF IInv, RowsExist, Live
      <4>2. \A p \in Requests : Working(p, row)' => p = q
        BY <2>4, <2>7, <3>3 DEF IInv, RowsExist, Working, HasRow
      <4> QED BY <1>1, <3>1, <4>1, <4>2 DEF OneSource
    <3> QED BY <3>2, <3>3
  <2> QED BY <1>1, <2>9, <2>10, <2>11, <2>12 DEF IInv
<1> QED BY <1>3, <1>4 DEF Inserts, Goto

\* The markers are searched: what is found is taken over, and if nothing is found while
\* an older post may still be applied, the row is marked.
LEMMA ListsInv == ASSUME IInv, NEW q \in Requests, Lists(q) PROVE IInv'
<1> DEFINE s == request[q].row
<1>1. s \in DOMAIN rows /\ s \in Rows /\ At(q, "list")
  BY RowsFacts DEF Lists, At, IInv, RowsExist, HasRow
<1>2. /\ UNCHANGED <<kind, honours, rows, threads, late, forgetting, deletes, faults>>
      /\ overlapped \subseteq overlapped' /\ overlapped' \subseteq Rows
      /\ s \in overlapped' \/ \A p \in Requests : <<p, s>> \notin late
  BY <1>1 DEF Lists, fixed, provider, deletion, IInv, TypeOK
<1>3. rows' \in Seq(Row) /\ faults' \in 0..MaxFaults
      /\ \A x \in DOMAIN rows' :
           rows'[x].status = "published" => rows'[x].thread \in DOMAIN threads
  BY <1>2 DEF IInv, TypeOK
<1>4. CASE /\ Live(s) = {}
           /\ request' = [request EXCEPT ![q] = [pc |-> "post", row |-> s, thread |-> None]]
  <2> DEFINE r == [pc |-> "post", row |-> s, thread |-> None]
  <2>1. r \in Request /\ r.pc = "post" /\ r.row = s
    BY <1>1 DEF Request
  <2>2. s \in overlapped' \/ \A p \in Requests \ {q} : ~Working(p, s)
    BY <1>1, <1>2 DEF IInv, OneSource, Working, At
  <2>3. request' = [request EXCEPT ![q] = r]
    BY <1>4
  <2> HIDE DEF r, s
  <2> QED BY <1>1, <1>2, <1>3, <1>4, <2>1, <2>2, <2>3, RequestInv
<1>5. ASSUME NEW t \in Live(s),
             request' = [request EXCEPT ![q] = [pc |-> "record", row |-> s, thread |-> t]]
      PROVE  IInv'
  <2> DEFINE r == [pc |-> "record", row |-> s, thread |-> t]
  <2>1. t \in DOMAIN threads /\ t \in Nat
    BY ElementOfSeq DEF Live, IInv, TypeOK
  <2>2. r \in Request /\ r.pc = "record" /\ r.row = s /\ r.thread = t
    BY <1>1, <2>1 DEF Request
  <2>3. request' = [request EXCEPT ![q] = r]
    BY <1>5
  <2> HIDE DEF r, s
  <2> QED BY <1>1, <1>2, <1>3, <2>1, <2>2, <2>3, RequestInv
<1> QED BY <1>4, <1>5 DEF Lists, Found, Goto

\* A conversation opens while its request is in progress: the request has been the only
\* source, and is none any more.
LEMMA OpenedByRequest ==
  ASSUME IInv, NEW q \in Requests, At(q, "post"), Opened(request[q].row),
         NEW r \in Request, request' = [request EXCEPT ![q] = r],
         r.pc \in {"record", "fail"}, r.row = request[q].row,
         r.pc = "record" => r.thread \in DOMAIN threads',
         UNCHANGED <<kind, honours, rows, late, forgetting, deletes, overlapped>>,
         faults' \in 0..MaxFaults
  PROVE  IInv'
<1> DEFINE s == request[q].row
<1>1. s \in DOMAIN rows /\ s \in Rows
  BY RowsFacts DEF At, IInv, RowsExist, HasRow
<1>2. request' \in [Requests -> Request] /\ request'[q] = r
      /\ \A p \in Requests : p # q => request'[p] = request[p]
  BY DEF IInv, TypeOK
<1>3. /\ threads' \in Seq(Thread) /\ DOMAIN threads \subseteq DOMAIN threads'
      /\ \A t \in DOMAIN threads' : threads'[t].row \in DOMAIN rows
      /\ KeysAreHonoured'
  BY <1>1, OpenedFacts DEF IInv, RowsExist
<1>4. /\ rows \in Seq(Row) /\ late \subseteq Requests \X DOMAIN rows
      /\ forgetting \in DOMAIN threads' \union {None} /\ overlapped \subseteq Rows
      /\ deletes \in 0..MaxDeletes
      /\ \A x \in DOMAIN rows : rows[x].status = "published" => rows[x].thread \in DOMAIN threads'
  BY <1>3 DEF IInv, TypeOK, RowsExist
<1>5. TypeOK' /\ RowsExist'
  BY <1>1, <1>2, <1>3, <1>4, StillExist
<1>6. s \notin overlapped =>
        /\ Live(s) = {}
        /\ \A p \in Requests : ~(request'[p].row = s /\ At(p, "post")')
        /\ \A p \in Requests : <<p, s>> \notin late'
  <2>1. s \notin overlapped => OneSource(s)
    BY <1>1 DEF IInv
  <2> QED BY <1>2, <2>1 DEF OneSource, Working, At
<1>7. \A p \in Requests : request'[p] = request[p] \/ request'[p].pc \notin {"list", "post"}
  BY <1>2
<1> HIDE DEF s
<1>8. Opened(s)
  BY DEF s
<1>9. \A row \in Rows \ overlapped' : OneSource(row)'
  BY <1>1, <1>6, <1>7, <1>8, OpensOneSource
<1> QED BY <1>3, <1>5, <1>9 DEF IInv

\* The provider answers.
LEMMA PostsInv == ASSUME IInv, NEW q \in Requests, Posts(q) PROVE IInv'
<1> DEFINE s == request[q].row
<1>1. s \in DOMAIN rows /\ s \in Rows /\ At(q, "post") /\ Opened(s)
      /\ UNCHANGED <<kind, honours, rows, late, forgetting, deletes, overlapped, faults>>
  BY RowsFacts DEF Posts, At, IInv, RowsExist, HasRow, fixed, deletion
<1>2. PICK t \in DOMAIN threads' :
        request' = [request EXCEPT ![q] = [pc |-> "record", row |-> s, thread |-> t]]
  BY DEF Posts, Goto
<1>3. t \in Nat
  BY <1>1, OpenedFacts
<1> DEFINE r == [pc |-> "record", row |-> s, thread |-> t]
<1>4. r \in Request /\ r.pc = "record" /\ r.row = s /\ r.thread = t
  BY <1>1, <1>3 DEF Request
<1>5. request' = [request EXCEPT ![q] = r] /\ faults' \in 0..MaxFaults
  BY <1>1, <1>2 DEF IInv, TypeOK
<1> HIDE DEF r
<1> QED BY <1>1, <1>2, <1>4, <1>5, OpenedByRequest

\* A post whose caller gives up is the only source of its row, or the row is marked.
LEMMA GivesUpPost ==
  ASSUME IInv, NEW q \in Requests, At(q, "post"),
         NEW r \in Request, request' = [request EXCEPT ![q] = r],
         r.pc \in {"fail", "idle"}, r.pc = "fail" => r.row = request[q].row,
         late' = late \union {<<q, request[q].row>>},
         UNCHANGED <<kind, honours, rows, threads, forgetting, deletes, overlapped>>,
         faults' \in 0..MaxFaults
  PROVE  IInv'
<1> DEFINE s == request[q].row
<1>1. s \in DOMAIN rows /\ s \in Rows
  BY RowsFacts DEF At, IInv, RowsExist, HasRow
<1>2. request' \in [Requests -> Request] /\ request'[q] = r
      /\ \A p \in Requests : p # q => request'[p] = request[p]
  BY DEF IInv, TypeOK
<1>3. late' \subseteq Requests \X DOMAIN rows
  BY <1>1 DEF IInv, TypeOK, RowsExist
<1>4. /\ rows \in Seq(Row) /\ threads \in Seq(Thread)
      /\ forgetting \in DOMAIN threads \union {None} /\ overlapped \subseteq Rows
      /\ deletes \in 0..MaxDeletes
      /\ \A x \in DOMAIN rows : rows[x].status = "published" => rows[x].thread \in DOMAIN threads
      /\ \A t \in DOMAIN threads : threads[t].row \in DOMAIN rows
  BY DEF IInv, TypeOK, RowsExist
<1>5. \A p \in Requests :
        \/ request'[p] = request[p]
        \/ /\ request'[p].pc \in HasRow => request'[p].row \in DOMAIN rows
           /\ request'[p].pc # "record"
  BY <1>1, <1>2 DEF HasRow
<1>6. TypeOK' /\ RowsExist'
  BY <1>2, <1>3, <1>4, <1>5, StillExist
<1>7. KeysAreHonoured'
  BY DEF IInv, KeysAreHonoured
<1>8. ASSUME NEW row \in Rows \ overlapped PROVE OneSource(row)'
  <2>1. OneSource(row) /\ Live(row)' = Live(row)
    BY DEF IInv, Live
  <2>2. CASE row # s
    BY <1>2, <2>1, <2>2 DEF OneSource, Working, At
  <2>3. CASE row = s
    <3>1. Live(row) = {} /\ \A p \in Requests : <<p, row>> \notin late
      BY <2>1, <2>3 DEF OneSource, At
    <3>2. \A p \in Requests : ~Working(p, row)'
      BY <1>2, <2>1, <2>3 DEF OneSource, Working, At
    <3>3. \A p \in Requests : <<p, row>> \in late' => p = q
      BY <2>3, <3>1
    <3> QED BY <2>1, <3>1, <3>2, <3>3 DEF OneSource, Working, At
  <2> QED BY <2>2, <2>3
<1> QED BY <1>6, <1>7, <1>8 DEF IInv

\* Errors of the provider.
LEMMA ErrorsInv ==
  ASSUME IInv, NEW q \in Requests, PostFails(q) \/ ListFails(q) PROVE IInv'
<1> DEFINE s == request[q].row
           r == [pc |-> "fail", row |-> s, thread |-> None]
<1>1. s \in DOMAIN rows /\ s \in Rows
  BY RowsFacts DEF PostFails, ListFails, At, IInv, RowsExist, HasRow
<1>2. r \in Request /\ r.pc = "fail" /\ r.row = s
  BY <1>1 DEF Request
<1>3. /\ request' = [request EXCEPT ![q] = r] /\ faults' \in 0..MaxFaults
      /\ UNCHANGED <<kind, honours, rows, forgetting, deletes, overlapped>>
  BY FaultCounted DEF PostFails, ListFails, Goto, fixed, deletion
<1>4. PostFails(q) => At(q, "post")
  BY DEF PostFails
<1>5. \/ UNCHANGED <<threads, late>>
      \/ PostFails(q) /\ Opened(s) /\ UNCHANGED late
      \/ PostFails(q) /\ late' = late \union {<<q, s>>} /\ UNCHANGED threads
  BY DEF PostFails, ListFails, provider
<1> HIDE DEF r
<1>6. CASE UNCHANGED <<threads, late>>
  BY <1>1, <1>2, <1>3, <1>6, GoesOn
<1>7. CASE PostFails(q) /\ Opened(s) /\ UNCHANGED late
  BY <1>2, <1>3, <1>4, <1>7, OpenedByRequest
<1>8. CASE PostFails(q) /\ late' = late \union {<<q, s>>} /\ UNCHANGED threads
  BY <1>2, <1>3, <1>4, <1>8, GivesUpPost
<1> QED BY <1>5, <1>6, <1>7, <1>8

\* A request that dies leaves its row leased, and possibly a post.
LEMMA DiesInv == ASSUME IInv, NEW q \in Requests, Dies(q) PROVE IInv'
<1>1. /\ request' = [request EXCEPT ![q] = Idle] /\ faults' \in 0..MaxFaults
      /\ UNCHANGED <<kind, honours, rows, threads, forgetting, deletes, overlapped>>
  BY FaultCounted DEF Dies, Ends, fixed, deletion
<1>2. CASE UNCHANGED late
  BY <1>1, <1>2, RequestsAreTyped, GoesOn DEF HasRow
<1>3. CASE At(q, "post") /\ late' = late \union {<<q, request[q].row>>}
  BY <1>1, <1>3, RequestsAreTyped, GivesUpPost
<1> QED BY <1>2, <1>3 DEF Dies

\* A late post opens what its row has no other source for.
LEMMA LateAppliesInv ==
  ASSUME IInv, NEW p \in Requests, NEW row \in Rows, LateApplies(p, row) PROVE IInv'
<1>1. /\ <<p, row>> \in late /\ late' = late \ {<<p, row>>} /\ Opened(row)
      /\ UNCHANGED <<kind, honours, rows, request, forgetting, deletes, overlapped, faults>>
  BY DEF LateApplies, fixed, deletion
<1>2. row \in DOMAIN rows /\ late' \subseteq Requests \X DOMAIN rows
  BY <1>1 DEF IInv, TypeOK, RowsExist
<1>3. /\ threads' \in Seq(Thread) /\ DOMAIN threads \subseteq DOMAIN threads'
      /\ \A t \in DOMAIN threads' : threads'[t].row \in DOMAIN rows
      /\ KeysAreHonoured'
  BY <1>1, <1>2, OpenedFacts DEF IInv, RowsExist
<1>4. /\ rows \in Seq(Row) /\ request \in [Requests -> Request]
      /\ forgetting \in DOMAIN threads' \union {None} /\ overlapped \subseteq Rows
      /\ deletes \in 0..MaxDeletes /\ faults \in 0..MaxFaults
      /\ \A x \in DOMAIN rows : rows[x].status = "published" => rows[x].thread \in DOMAIN threads'
  BY <1>3 DEF IInv, TypeOK
<1>5. TypeOK' /\ RowsExist'
  BY <1>1, <1>2, <1>3, <1>4, StillExist
<1>6. row \notin overlapped =>
        /\ Live(row) = {}
        /\ \A q \in Requests : ~(request'[q].row = row /\ At(q, "post")')
        /\ \A q \in Requests : <<q, row>> \notin late'
  <2>1. row \notin overlapped => OneSource(row)
    BY DEF IInv
  <2> QED BY <1>1, <2>1 DEF OneSource, At
<1>7. \A r \in Rows \ overlapped' : OneSource(r)'
  BY <1>1, <1>2, <1>6, OpensOneSource
<1> QED BY <1>3, <1>5, <1>7 DEF IInv

\* The end of a request writes its row only under its lease.
LEMMA EndsInv ==
  ASSUME IInv, NEW q \in Requests, Records(q) \/ Fails(q) PROVE IInv'
<1> DEFINE s == request[q].row
<1>1. s \in DOMAIN rows /\ rows[s] \in Row
  BY RowsFacts DEF Records, Fails, At, IInv, RowsExist, HasRow
<1>2. /\ request' = [request EXCEPT ![q] = Idle]
      /\ UNCHANGED <<kind, honours, threads, late, forgetting, deletes, overlapped, faults>>
  BY DEF Records, Fails, Ends, fixed, provider, deletion
<1>3. /\ rows' \in Seq(Row) /\ Len(rows') = Len(rows)
      /\ \A x \in DOMAIN rows' :
           rows'[x].status = "published" => rows'[x].thread \in DOMAIN threads
  <2>1. CASE UNCHANGED rows
    BY <2>1 DEF IInv, TypeOK
  <2>2. CASE Records(q) /\ rows' = [rows EXCEPT ![s] =
                 [status |-> "published", lease |-> None, stale |-> FALSE,
                  thread |-> request[q].thread]]
    <3> DEFINE x == [status |-> "published", lease |-> None, stale |-> FALSE,
                     thread |-> request[q].thread]
    <3>1. request[q].thread \in DOMAIN threads
      BY <2>2 DEF Records, At, IInv, RowsExist
    <3>2. request[q].thread \in Nat
      BY <3>1, ElementOfSeq DEF IInv, TypeOK
    <3>3. x \in Row /\ x.thread = request[q].thread
      BY <3>2 DEF Row, RequestOrNone
    <3>4. rows' = [rows EXCEPT ![s] = x]
      BY <2>2
    <3> HIDE DEF x
    <3> QED BY <1>1, <3>1, <3>3, <3>4, OneRowChanges
  <2>3. CASE rows' = [rows EXCEPT ![s].status = "failed", ![s].lease = None]
    <3> DEFINE x == [rows[s] EXCEPT !.status = "failed", !.lease = None]
    <3>1. x \in Row /\ x.status = "failed"
      BY <1>1 DEF Row, RequestOrNone
    <3>2. rows' = [rows EXCEPT ![s] = x]
      BY <1>1, <2>3
    <3> HIDE DEF x
    <3> QED BY <1>1, <3>1, <3>2, OneRowChanges
  <2> QED BY <2>1, <2>2, <2>3 DEF Records, Fails
<1>4. faults' \in 0..MaxFaults /\ overlapped \subseteq Rows
  BY <1>2 DEF IInv, TypeOK
<1> QED BY <1>2, <1>3, <1>4, RequestsAreTyped, RequestInv DEF HasRow

-----------------------------------------------------------------------------
(* The clock, and a reviewer who deletes the conversation.                  *)

\* A lease grows old.
LEMMA AgesInv == ASSUME IInv, NEW row \in Rows, Ages(row) PROVE IInv'
<1> DEFINE x == [rows[row] EXCEPT !.stale = TRUE]
<1>1. /\ row \in DOMAIN rows /\ rows[row] \in Row /\ rows[row].status = "publishing"
      /\ rows' = [rows EXCEPT ![row].stale = TRUE]
      /\ UNCHANGED <<kind, honours, request, threads, late, forgetting, overlapped, deletes>>
  BY RowsFacts DEF Ages, fixed, provider, deletion
<1>2. x \in Row /\ x.status = "publishing"
  BY <1>1 DEF Row
<1>3. rows' = [rows EXCEPT ![row] = x]
  BY <1>1
<1> HIDE DEF x
<1>4. /\ rows' \in Seq(Row) /\ Len(rows') = Len(rows)
      /\ \A s \in DOMAIN rows' :
           rows'[s].status = "published" => rows'[s].thread \in DOMAIN threads
  BY <1>1, <1>2, <1>3, OneRowChanges
<1>5. faults' \in 0..MaxFaults
  BY FaultCounted DEF Ages, IInv, TypeOK
<1>6. forgetting' \in DOMAIN threads \union {None}
  BY <1>1 DEF IInv, TypeOK
<1> QED BY <1>1, <1>4, <1>5, <1>6, RowsInv

\* A row that is forgotten is deleted and names no conversation.
LEMMA ForgetsInv == ASSUME IInv, Forgets PROVE IInv'
<1>1. /\ rows' = [r \in DOMAIN rows |->
                    IF rows[r].thread = forgetting THEN Forgotten(rows[r]) ELSE rows[r]]
      /\ UNCHANGED <<kind, honours, request, threads, late, overlapped, deletes, faults>>
      /\ forgetting' = None
  BY DEF Forgets, fixed, provider
<1>2. \A r \in Row : Forgotten(r) \in Row /\ Forgotten(r).status = "deleted"
  BY DEF Forgotten, Row
<1>3. \A r \in DOMAIN rows : /\ rows'[r] \in Row
                             /\ rows'[r] = rows[r] \/ rows'[r].status = "deleted"
  BY <1>1, <1>2, RowsFacts
<1>4. rows' \in [1..Len(rows) -> Row] /\ Len(rows) \in Nat
  BY <1>1, <1>3, RowsFacts
<1>5. rows' \in Seq(Row)
  BY <1>4, SeqDef
<1>6. Len(rows') = Len(rows) /\ DOMAIN rows' = DOMAIN rows
  BY <1>4, <1>5, RowsFacts
<1>7. \A s \in DOMAIN rows' :
        rows'[s].status = "published" => rows'[s].thread \in DOMAIN threads
  BY <1>3, <1>6 DEF IInv, TypeOK
<1>8. faults' \in 0..MaxFaults
  BY <1>1 DEF IInv, TypeOK
<1> QED BY <1>1, <1>5, <1>6, <1>7, <1>8, RowsInv

\* The record here stays when the deletion dies in between.
LEMMA NeverForgetsInv == ASSUME IInv, NeverForgets PROVE IInv'
<1>1. /\ UNCHANGED <<kind, honours, rows, request, threads, late, overlapped, deletes>>
      /\ forgetting' = None /\ faults' \in 0..MaxFaults
  BY FaultCounted DEF NeverForgets, fixed, provider
<1>2. rows' \in Seq(Row)
      /\ \A s \in DOMAIN rows' :
           rows'[s].status = "published" => rows'[s].thread \in DOMAIN threads
  BY <1>1 DEF IInv, TypeOK
<1> QED BY <1>1, <1>2, RowsInv

\* The provider deletes a conversation, which keeps its place.
LEMMA DeletesThreadInv ==
  ASSUME IInv, NEW t \in DOMAIN threads, DeletesThread(t) PROVE IInv'
<1> DEFINE x == [threads[t] EXCEPT !.live = FALSE]
<1>1. /\ threads' = [threads EXCEPT ![t].live = FALSE] /\ forgetting' = t
      /\ deletes < MaxDeletes /\ deletes' = deletes + 1
      /\ UNCHANGED <<kind, honours, rows, request, late, overlapped, faults>>
  BY DEF DeletesThread, fixed
<1>2. threads \in Seq(Thread) /\ t \in 1..Len(threads) /\ threads[t] \in Thread
  BY ElementOfSeq DEF IInv, TypeOK
<1>3. x \in Thread /\ x.row = threads[t].row /\ ~x.live /\ threads' = [threads EXCEPT ![t] = x]
  BY <1>1, <1>2 DEF Thread
<1> HIDE DEF x
<1>4. threads' \in Seq(Thread)
  BY <1>2, <1>3, ExceptSeq
<1>5. /\ DOMAIN threads' = DOMAIN threads
      /\ \A u \in DOMAIN threads : /\ threads'[u].row = threads[u].row
                                   /\ threads'[u].live => threads[u].live
  BY <1>3
<1>6. deletes' \in 0..MaxDeletes
  BY <1>1, CommentPublicationAssumption DEF IInv, TypeOK
<1>7. /\ rows' \in Seq(Row) /\ late' \subseteq Requests \X DOMAIN rows
      /\ request' \in [Requests -> Request] /\ overlapped' \subseteq Rows
      /\ faults' \in 0..MaxFaults
      /\ \A s \in DOMAIN rows' :
           rows'[s].status = "published" => rows'[s].thread \in DOMAIN threads'
      /\ \A u \in DOMAIN threads' : threads'[u].row \in DOMAIN rows
  BY <1>1, <1>5 DEF IInv, TypeOK, RowsExist
<1>8. TypeOK' /\ RowsExist'
  BY <1>1, <1>4, <1>5, <1>6, <1>7, StillExist
<1>9. KeysAreHonoured'
  BY <1>1, <1>5 DEF IInv, KeysAreHonoured
<1>10. ASSUME NEW row \in Rows \ overlapped PROVE OneSource(row)'
  <2>1. OneSource(row) /\ Live(row)' \subseteq Live(row)
    BY <1>5 DEF IInv, Live
  <2> QED BY <1>1, <2>1 DEF OneSource, Working, At
<1> QED BY <1>1, <1>8, <1>9, <1>10 DEF IInv

-----------------------------------------------------------------------------
(* Who may still open or record a conversation.                            *)

\* The facts of the first invariant that these steps need.
LEMMA Known ==
  ASSUME IInv
  PROVE  /\ request \in [Requests -> Request] /\ DOMAIN rows = 1..Len(rows)
         /\ Len(rows) \in Nat /\ DOMAIN rows \subseteq Rows
         /\ \A r \in DOMAIN rows : rows[r] \in Row
         /\ \A q \in Requests : request[q].pc \in HasRow => request[q].row \in DOMAIN rows
         /\ \A q \in Requests : At(q, "record") => request[q].thread \in DOMAIN threads
         /\ \A t \in DOMAIN threads : threads[t].row \in DOMAIN rows /\ t \in Nat
         /\ \A row : (\E p \in Requests : <<p, row>> \in late) => row \in DOMAIN rows
         /\ \A r \in DOMAIN rows :
              rows[r].status = "published" => rows[r].thread \in DOMAIN threads
         /\ threads \in Seq(Thread) /\ None \notin Nat
<1>1. \A t \in DOMAIN threads : t \in Nat
  BY ElementOfSeq DEF IInv, TypeOK
<1> QED BY <1>1, RowsFacts, CommentPublicationAssumption DEF IInv, TypeOK, RowsExist, At

\* A row that a step leaves alone keeps its holder.
LEMMA HolderKept ==
  ASSUME NEW row \in DOMAIN rows, row \in DOMAIN rows', OneHolder(row),
         rows'[row].status = rows[row].status, rows'[row].lease = rows[row].lease,
         rows'[row].thread = rows[row].thread,
         Live(row)' \subseteq Live(row),
         \A q \in Requests : \/ request'[q] = request[q]
                             \/ request'[q].row # row
                             \/ request'[q].pc \notin {"list", "post", "record"},
         \A p \in Requests : <<p, row>> \in late' => <<p, row>> \in late
  PROVE  OneHolder(row)'
<1>1. ASSUME NEW q \in Requests, request'[q].row = row,
             request'[q].pc \in {"list", "post", "record"}
      PROVE  request'[q] = request[q] /\ HoldsLease(q)' = HoldsLease(q)
             /\ request[q].row = row
  BY <1>1 DEF HoldsLease
<1>2. \A q \in Requests : Working(q, row)' => HoldsLease(q)'
  BY <1>1 DEF OneHolder, Working
<1>3. (\E p \in Requests : <<p, row>> \in late') =>
        /\ rows'[row].status \in {"publishing", "failed"}
        /\ \A q \in Requests : request'[q].row = row /\ At(q, "record")' => ~HoldsLease(q)'
  BY <1>1 DEF OneHolder, At
<1>4. \A q \in Requests : request'[q].row = row /\ At(q, "record")' /\ HoldsLease(q)' =>
        Live(row)' \subseteq {request'[q].thread}
  BY <1>1 DEF OneHolder, At
<1> QED BY <1>2, <1>3, <1>4 DEF OneHolder

\* Nothing is held or recorded at first.
LEMMA HoldersInit == Init => Holders
<1> SUFFICES ASSUME Init PROVE Holders
  OBVIOUS
<1>1. /\ rows = <<>> /\ request = [q \in Requests |-> Idle] /\ forgetting = None
      /\ DOMAIN rows = {}
  BY EmptySeq DEF Init
<1>2. \A q \in Requests : ~At(q, "record")
  BY <1>1 DEF At, Idle
<1> QED BY <1>1, <1>2 DEF Holders, RowsMatch

\* Steps of a request that neither write a row nor reach for the provider.
LEMMA HoldersOfQuiet ==
  ASSUME IInv, Holders, NEW q \in Requests, NEW r, r.pc \notin {"list", "post", "record"},
         request' = [request EXCEPT ![q] = r],
         UNCHANGED <<kind, honours, rows, threads, late, forgetting, overlapped>>
  PROVE  Holders'
<1>1. \A p \in Requests : request'[p] = request[p]
                          \/ request'[p].pc \notin {"list", "post", "record"}
  BY Known
<1>2. RowsMatch'
  BY <1>1 DEF Holders, RowsMatch, At, Live
<1>3. ASSUME NEW row \in DOMAIN rows \ overlapped PROVE OneHolder(row)'
  <2>1. OneHolder(row) /\ Live(row)' = Live(row)
    BY DEF Holders, Live
  <2> QED BY <1>1, <2>1, HolderKept
<1> QED BY <1>2, <1>3 DEF Holders

LEMMA HoldersOfFinds ==
  ASSUME IInv, Holders, NEW q \in Requests,
         \/ Asks(q) \/ ClaimsNothing(q) \/ Rereads(q) \/ ListFails(q)
         \/ Dies(q) /\ UNCHANGED late
         \/ PostFails(q) /\ UNCHANGED provider
  PROVE  Holders'
<1>1. UNCHANGED <<kind, honours, rows, threads, late, forgetting, overlapped>>
  BY DEF Asks, ClaimsNothing, Rereads, ListFails, Dies, PostFails, fixed, provider, deletion
<1> DEFINE at(pc, row) == [pc |-> pc, row |-> row, thread |-> None]
<1>2. \/ request' = [request EXCEPT ![q] = Idle]
      \/ request' = [request EXCEPT ![q] = at("insert", None)]
      \/ request' = [request EXCEPT ![q] = at("claim", Latest)]
      \/ request' = [request EXCEPT ![q] = at("reread", None)]
      \/ request' = [request EXCEPT ![q] = at("reclaim", Latest)]
      \/ request' = [request EXCEPT ![q] = at("fail", request[q].row)]
  BY DEF Asks, ClaimsNothing, Rereads, ListFails, Dies, PostFails, Goto, Ends
<1>3. /\ Idle.pc = "idle"
      /\ \A pc, row : at(pc, row).pc = pc
  BY DEF Idle
<1> HIDE DEF at
<1> QED BY <1>1, <1>2, <1>3, HoldersOfQuiet

\* A lease makes its request the holder; others at work make the row overlapped.
LEMMA HoldersOfClaims ==
  ASSUME IInv, Holders, NEW q \in Requests, Claims(q) PROVE Holders'
<1> DEFINE s == request[q].row
<1>1. /\ s \in DOMAIN rows /\ IsClaimable(s)
      /\ request[q].pc \in {"claim", "reclaim"}
      /\ rows' = [rows EXCEPT ![s] = LeasedTo(q)]
      /\ request' = [request EXCEPT ![q] = [pc |-> "list", row |-> s, thread |-> None]]
      /\ UNCHANGED <<kind, honours, threads, late, forgetting>>
      /\ overlapped \subseteq overlapped'
      /\ s \in overlapped' \/ \A p \in Requests \ {q} : ~Working(p, s)
  BY Known DEF Claims, HasRow, Goto, fixed, provider, deletion
<1>2. /\ DOMAIN rows' = DOMAIN rows /\ \A x \in DOMAIN rows : x # s => rows'[x] = rows[x]
      /\ rows'[s].status = "publishing" /\ rows'[s].lease = q /\ rows'[s].thread = None
      /\ request'[q].pc = "list" /\ request'[q].row = s
      /\ \A p \in Requests : p # q => request'[p] = request[p]
  BY <1>1, Known DEF LeasedTo
<1>3. Len(rows') = Len(rows)
  BY <1>1, Known, ExceptSeq, OneRowChanges DEF LeasedTo, Row, RequestOrNone
<1>4. rows[s].status \in {"failed", "publishing"} /\ \A x : Live(x)' = Live(x)
  BY <1>1 DEF IsClaimable, Live
<1> HIDE DEF s
<1>5. RowsMatch'
  <2>1. \A p \in Requests :
          At(p, "record")' => threads'[request'[p].thread].row = request'[p].row
    BY <1>1, <1>2 DEF Holders, RowsMatch, At
  <2>2. \A r \in DOMAIN rows' :
          /\ rows'[r].status = "published" => threads'[rows'[r].thread].row = r
          /\ rows'[r].status # "published" => rows'[r].thread = None
    BY <1>1, <1>2 DEF Holders, RowsMatch
  <2>3. honours' => \A r \in DOMAIN rows' : rows'[r].status = "deleted" =>
          Live(r)' = {} /\ \E t \in DOMAIN threads' : threads'[t].row = r
    BY <1>1, <1>2, <1>4 DEF Holders, RowsMatch
  <2>4. kind' = "ai" =>
          \A r \in DOMAIN rows' : r < Len(rows') => rows'[r].status = "deleted"
    BY <1>1, <1>2, <1>3, <1>4 DEF Holders, RowsMatch
  <2> QED BY <1>1, <2>1, <2>2, <2>3, <2>4 DEF Holders, RowsMatch
<1>6. ASSUME NEW row \in DOMAIN rows \ overlapped' PROVE OneHolder(row)'
  <2>1. OneHolder(row)
    BY <1>1 DEF Holders
  <2>2. CASE row # s
    <3>1. row \in DOMAIN rows' /\ rows'[row] = rows[row]
      BY <1>2, <2>2
    <3> QED BY <1>1, <1>2, <1>4, <2>1, <2>2, <3>1, HolderKept
  <2>3. CASE row = s
    <3>1. \A p \in Requests : Working(p, row)' => p = q
      BY <1>1, <1>2, <2>3 DEF Working
    <3>2. \A p \in Requests : request'[p].row = row /\ At(p, "record")' => ~HoldsLease(p)'
      BY <1>2, <2>3 DEF HoldsLease, At
    <3>3. HoldsLease(q)'
      BY <1>2 DEF HoldsLease
    <3> QED BY <1>2, <2>3, <3>1, <3>2, <3>3 DEF OneHolder
  <2> QED BY <2>2, <2>3
<1> QED BY <1>2, <1>5, <1>6 DEF Holders

\* A new row is held by the call that inserts it; for a finding, no other is left.
LEMMA HoldersOfInserts ==
  ASSUME IInv, Holders, NEW q \in Requests, Inserts(q) PROVE Holders'
<1>1. UNCHANGED <<kind, honours, threads, late, forgetting, overlapped>>
  BY DEF Inserts, fixed, provider, deletion
<1>2. CASE request' = [request EXCEPT ![q] = [pc |-> "reread", row |-> None, thread |-> None]]
           /\ UNCHANGED rows
  <2> DEFINE r == [pc |-> "reread", row |-> None, thread |-> None]
  <2>1. r.pc \notin {"list", "post", "record"} /\ request' = [request EXCEPT ![q] = r]
    BY <1>2
  <2> HIDE DEF r
  <2> QED BY <1>1, <1>2, <2>1, HoldersOfQuiet
<1>3. CASE /\ rows' = Append(rows, LeasedTo(q)) /\ (kind = "ai" => Existing = {})
           /\ request' = [request EXCEPT ![q] =
                           [pc |-> "post", row |-> Len(rows) + 1, thread |-> None]]
  <2>1. PICK n : n = Len(rows) + 1
    OBVIOUS
  <2>7. rows \in Seq(Row) /\ LeasedTo(q) \in Row
    BY DEF IInv, TypeOK, LeasedTo, Row, RequestOrNone
  <2>2. /\ rows' \in Seq(Row) /\ Len(rows') = n /\ rows'[n] = LeasedTo(q)
        /\ \A x \in 1..Len(rows) : rows'[x] = rows[x]
    BY <1>3, <2>1, <2>7, AppendProperties
  <2>3. /\ DOMAIN rows' = DOMAIN rows \union {n} /\ n \notin DOMAIN rows
        /\ \A x \in DOMAIN rows : rows'[x] = rows[x] /\ x # n
    BY <2>1, <2>2, Known, ElementOfSeq
  <2>4. /\ rows'[n].status = "publishing" /\ rows'[n].lease = q /\ rows'[n].thread = None
        /\ request'[q].pc = "post" /\ request'[q].row = n
        /\ \A p \in Requests : p # q => request'[p] = request[p]
        /\ \A x : Live(x)' = Live(x)
    BY <1>1, <1>3, <2>1, <2>2, Known DEF LeasedTo, Live
  <2>5. RowsMatch'
    <3>1. \A p \in Requests :
            At(p, "record")' => threads'[request'[p].thread].row = request'[p].row
      BY <1>1, <2>4 DEF Holders, RowsMatch, At
    <3>2. \A r \in DOMAIN rows' :
            /\ rows'[r].status = "published" => threads'[rows'[r].thread].row = r
            /\ rows'[r].status # "published" => rows'[r].thread = None
      BY <1>1, <2>3, <2>4 DEF Holders, RowsMatch
    <3>3. honours' => \A r \in DOMAIN rows' : rows'[r].status = "deleted" =>
            Live(r)' = {} /\ \E t \in DOMAIN threads' : threads'[t].row = r
      BY <1>1, <2>3, <2>4 DEF Holders, RowsMatch
    <3>4. kind' = "ai" =>
            \A r \in DOMAIN rows' : r < Len(rows') => rows'[r].status = "deleted"
      BY <1>1, <1>3, <2>1, <2>2, <2>3, Known DEF Existing
    <3> QED BY <1>1, <3>1, <3>2, <3>3, <3>4 DEF Holders, RowsMatch
  <2>6. ASSUME NEW row \in DOMAIN rows' \ overlapped' PROVE OneHolder(row)'
    <3>1. CASE row # n
      <4>1. OneHolder(row) /\ row \in DOMAIN rows /\ rows'[row] = rows[row]
        BY <1>1, <2>3, <3>1 DEF Holders
      <4> QED BY <1>1, <2>4, <3>1, <4>1, HolderKept
    <3>2. CASE row = n
      <4>1. \A p \in Requests : request[p].row = n => request[p].pc \notin HasRow
        BY <2>3, Known
      <4>2. \A p \in Requests : <<p, n>> \notin late
        BY <2>3, Known
      <4>3. \A p \in Requests : /\ Working(p, n)' => p = q
                                /\ ~(request'[p].row = n /\ At(p, "record")')
        BY <2>4, <4>1 DEF Working, At, HasRow
      <4>4. HoldsLease(q)'
        BY <2>4 DEF HoldsLease
      <4> QED BY <1>1, <2>4, <3>2, <4>2, <4>3, <4>4 DEF OneHolder
    <3> QED BY <3>1, <3>2
  <2> QED BY <2>5, <2>6 DEF Holders
<1> QED BY <1>2, <1>3 DEF Inserts, Goto

\* A retry that finds the row's conversation takes up the only one.
LEMMA HoldersOfLists ==
  ASSUME IInv, Holders, NEW q \in Requests, Lists(q) PROVE Holders'
<1>1. PICK s : s = request[q].row
  OBVIOUS
<1>2. /\ s \in DOMAIN rows /\ s \in Rows /\ At(q, "list")
      /\ UNCHANGED <<kind, honours, rows, threads, late, forgetting>>
      /\ overlapped \subseteq overlapped'
      /\ s \in overlapped' \/ \A p \in Requests : <<p, s>> \notin late
  BY <1>1, Known DEF Lists, HasRow, At, fixed, provider, deletion
<1>3. PICK x : /\ request' = [request EXCEPT ![q] = x] /\ x.row = s
               /\ x.pc = "post" \/ (x.pc = "record" /\ x.thread \in Live(s))
  <2>1. CASE Found(s) = {}
    <3> DEFINE x == [pc |-> "post", row |-> s, thread |-> None]
    <3>1. request' = [request EXCEPT ![q] = x]
      BY <1>1, <2>1 DEF Lists, Goto
    <3>2. x.row = s /\ x.pc = "post"
      OBVIOUS
    <3> HIDE DEF x
    <3> QED BY <3>1, <3>2
  <2>2. CASE Found(s) # {}
    <3>1. PICK t \in Live(s) :
            request' = [request EXCEPT ![q] = [pc |-> "record", row |-> s, thread |-> t]]
      BY <1>1, <2>2 DEF Lists, Goto, Found
    <3> DEFINE x == [pc |-> "record", row |-> s, thread |-> t]
    <3>2. request' = [request EXCEPT ![q] = x]
      BY <3>1
    <3>3. x.row = s /\ x.pc = "record" /\ x.thread \in Live(s)
      OBVIOUS
    <3> HIDE DEF x
    <3> QED BY <3>2, <3>3
  <2> QED BY <2>1, <2>2
<1>4. /\ request'[q] = x /\ \A p \in Requests : p # q => request'[p] = request[p]
      /\ \A r : Live(r)' = Live(r)
  BY <1>2, <1>3, Known DEF Live
<1>5. RowsMatch'
  <2>1. \A p \in Requests :
          At(p, "record")' => threads'[request'[p].thread].row = request'[p].row
    BY <1>2, <1>3, <1>4 DEF Holders, RowsMatch, At, Live
  <2> QED BY <1>2, <1>4, <2>1 DEF Holders, RowsMatch
<1>6. ASSUME NEW row \in DOMAIN rows \ overlapped' PROVE OneHolder(row)'
  <2>1. OneHolder(row) /\ row \in DOMAIN rows' /\ rows'[row] = rows[row]
    BY <1>2 DEF Holders
  <2>2. CASE row # s
    BY <1>2, <1>3, <1>4, <2>1, <2>2, HolderKept
  <2>3. CASE row = s
    <3>1. /\ \A p \in Requests : <<p, s>> \notin late
          /\ Working(q, s) /\ HoldsLease(q) /\ OneSource(s)
      BY <1>1, <1>2, <2>1, <2>3 DEF OneHolder, Working, At, IInv
    <3>2. \A p \in Requests : Working(p, s)' => p = q
      BY <1>4, <3>1 DEF OneSource, Working
    <3>3. HoldsLease(q)'
      BY <1>1, <1>2, <1>3, <1>4, <3>1 DEF HoldsLease
    <3>4. \A p \in Requests : p # q /\ request'[p].row = s => ~HoldsLease(p)'
      BY <1>1, <1>2, <1>4, <3>1 DEF HoldsLease
    <3>5. At(q, "record")' => Live(s)' \subseteq {request'[q].thread}
      BY <1>3, <1>4, <3>1 DEF At, OneSource
    <3>6. rows'[s].status = "publishing"
      BY <1>1, <1>2, <3>1 DEF HoldsLease
    <3> QED BY <1>2, <2>3, <3>1, <3>2, <3>3, <3>4, <3>5, <3>6 DEF OneHolder, At
  <2> QED BY <2>2, <2>3
<1> QED BY <1>2, <1>5, <1>6 DEF Holders

\* What the provider opens for a row changes nothing about the others, and nothing at
\* all about a row whose key it has seen.
LEMMA MatchOfOpened ==
  ASSUME IInv, Holders, NEW s \in DOMAIN rows, Opened(s),
         UNCHANGED <<kind, honours, rows, forgetting>>,
         \A p \in Requests : \/ request'[p] = request[p] \/ request'[p].pc # "record"
                             \/ /\ request'[p].row = s
                                /\ threads'[request'[p].thread].row = s
  PROVE  /\ RowsMatch'
         /\ \A row \in DOMAIN rows : row # s => Live(row)' = Live(row)
<1>1. /\ \A t \in DOMAIN threads : t \in DOMAIN threads' /\ threads'[t] = threads[t]
      /\ \A t \in DOMAIN threads' : t \notin DOMAIN threads => threads'[t].row = s
  BY OpenedFacts
<1>2. \A row \in DOMAIN rows : row # s => Live(row)' = Live(row)
  BY <1>1 DEF Live
<1>3. \A p \in Requests :
        At(p, "record")' => threads'[request'[p].thread].row = request'[p].row
  BY <1>1, Known DEF Holders, RowsMatch, At
<1>4. \A r \in DOMAIN rows :
        /\ rows[r].status = "published" => threads'[rows[r].thread].row = r
        /\ rows[r].status # "published" => rows[r].thread = None
  BY <1>1, Known DEF Holders, RowsMatch
<1>5. forgetting # None => ~threads'[forgetting].live
  <2>1. forgetting # None => forgetting \in DOMAIN threads
    BY DEF IInv, TypeOK
  <2> QED BY <1>1, <2>1 DEF Holders, RowsMatch
<1>6. ASSUME honours, NEW r \in DOMAIN rows, rows[r].status = "deleted"
      PROVE  Live(r)' = {} /\ \E t \in DOMAIN threads' : threads'[t].row = r
  <2>1. Live(r) = {} /\ \E t \in DOMAIN threads : threads[t].row = r
    BY <1>6 DEF Holders, RowsMatch
  <2>2. Live(r)' = {}
    <3>1. CASE r # s
      BY <1>2, <2>1, <3>1
    <3>2. CASE r = s
      BY <1>6, <2>1, <3>2 DEF Opened, Live
    <3> QED BY <3>1, <3>2
  <2> QED BY <1>1, <2>1, <2>2
<1>7. kind' = "ai" =>
        \A r \in DOMAIN rows' : r < Len(rows') => rows'[r].status = "deleted"
  BY DEF Holders, RowsMatch
<1> QED BY <1>2, <1>3, <1>4, <1>5, <1>6, <1>7 DEF RowsMatch

\* A post by the holder, whose answer arrives or is lost.
LEMMA HoldersOfPosts ==
  ASSUME IInv, IInv', Holders, NEW q \in Requests, At(q, "post"), Opened(request[q].row),
         NEW x, request' = [request EXCEPT ![q] = x], x.pc \in {"record", "fail"},
         x.pc = "record" =>
           /\ x.row = request[q].row /\ x.thread \in DOMAIN threads'
           /\ threads'[x.thread].row = x.row
           /\ honours \/ x.thread = Len(threads'),
         UNCHANGED <<kind, honours, rows, late, forgetting, overlapped>>
  PROVE  Holders'
<1>1. PICK s : s = request[q].row
  OBVIOUS
<1>2. /\ s \in DOMAIN rows /\ s \in Rows
      /\ request'[q] = x /\ \A p \in Requests : p # q => request'[p] = request[p]
  BY <1>1, Known DEF At, HasRow
<1>3. /\ RowsMatch'
      /\ \A row \in DOMAIN rows : row # s => Live(row)' = Live(row)
  BY <1>1, <1>2, MatchOfOpened
<1>4. ASSUME NEW row \in DOMAIN rows \ overlapped PROVE OneHolder(row)'
  <2>1. OneHolder(row) /\ row \in DOMAIN rows' /\ rows'[row] = rows[row]
    BY DEF Holders
  <2>2. CASE row # s
    BY <1>1, <1>2, <1>3, <2>1, <2>2, HolderKept
  <2>3. CASE row = s
    <3>1. OneSource(s) /\ Working(q, s) /\ HoldsLease(q)
          /\ Live(s) = {} /\ \A p \in Requests : <<p, s>> \notin late
      BY <1>1, <1>2, <2>1, <2>3 DEF OneHolder, OneSource, Working, At, IInv
    <3>2. \A p \in Requests : ~Working(p, s)'
      BY <1>2, <3>1 DEF OneSource, Working
    <3>3. \A p \in Requests : p # q /\ request'[p].row = s => ~HoldsLease(p)'
      BY <1>1, <1>2, <3>1 DEF HoldsLease
    <3>4. ASSUME At(q, "record")' PROVE Live(s)' \subseteq {request'[q].thread}
      <4>1. x.pc = "record" /\ threads'[x.thread].row = s /\ x.thread \in DOMAIN threads'
            /\ (honours \/ x.thread = Len(threads'))
        BY <1>1, <1>2, <3>4 DEF At
      <4>2. CASE honours
        <5>1. \A t, u \in DOMAIN threads' : threads'[t].row = threads'[u].row => t = u
          BY <4>2 DEF IInv, KeysAreHonoured
        <5> QED BY <1>2, <4>1, <5>1 DEF Live
      <4>3. CASE ~honours
        <5>1. x.thread = Len(threads')
          BY <4>1, <4>3
        <5>2. threads' = Append(threads, [row |-> s, live |-> TRUE])
          BY <1>1, <4>3 DEF Opened
        <5>3. [row |-> s, live |-> TRUE] \in Thread
          BY <1>2 DEF Thread
        <5>4. Len(threads') = Len(threads) + 1
          BY <5>2, <5>3, Known, AppendProperties
        <5>5. \A t \in DOMAIN threads' :
                (t \in DOMAIN threads /\ threads'[t] = threads[t]) \/ t = Len(threads')
          BY <1>1, <1>2, <5>4, OpenedFacts
        <5>6. \A t \in DOMAIN threads : ~(threads[t].row = s /\ threads[t].live)
          BY <3>1 DEF Live
        <5> QED BY <1>2, <5>1, <5>5, <5>6 DEF Live
      <4> QED BY <4>2, <4>3
    <3>5. rows'[s].status = "publishing"
      BY <1>1, <3>1 DEF HoldsLease
    <3> QED BY <1>2, <2>3, <3>1, <3>2, <3>3, <3>4, <3>5 DEF OneHolder, At
  <2> QED BY <2>2, <2>3
<1> QED BY <1>3, <1>4 DEF Holders

\* The holder gives up a post that may still be applied.
LEMMA HoldersOfGivingUp ==
  ASSUME IInv, Holders, NEW q \in Requests, At(q, "post"),
         NEW x, request' = [request EXCEPT ![q] = x], x.pc \in {"fail", "idle"},
         late' = late \union {<<q, request[q].row>>},
         UNCHANGED <<kind, honours, rows, threads, forgetting, overlapped>>
  PROVE  Holders'
<1>1. PICK s : s = request[q].row
  OBVIOUS
<1>2. /\ s \in DOMAIN rows /\ s \in Rows /\ \A r : Live(r)' = Live(r)
      /\ request'[q] = x /\ \A p \in Requests : p # q => request'[p] = request[p]
  BY <1>1, Known DEF At, HasRow, Live
<1>3. RowsMatch'
  BY <1>2 DEF Holders, RowsMatch, At
<1>4. ASSUME NEW row \in DOMAIN rows \ overlapped PROVE OneHolder(row)'
  <2>1. OneHolder(row) /\ row \in DOMAIN rows' /\ rows'[row] = rows[row]
    BY DEF Holders
  <2>2. CASE row # s
    BY <1>1, <1>2, <2>1, <2>2, HolderKept
  <2>3. CASE row = s
    <3>1. OneSource(s) /\ Working(q, s) /\ HoldsLease(q)
      BY <1>1, <1>2, <2>1, <2>3 DEF OneHolder, Working, At, IInv
    <3>2. \A p \in Requests : ~Working(p, s)'
      BY <1>2, <3>1 DEF OneSource, Working
    <3>3. \A p \in Requests : p # q /\ request'[p].row = s => ~HoldsLease(p)'
      BY <1>1, <1>2, <3>1 DEF HoldsLease
    <3>4. rows'[s].status = "publishing"
      BY <1>1, <3>1 DEF HoldsLease
    <3> QED BY <1>2, <2>3, <3>2, <3>3, <3>4 DEF OneHolder, At
  <2> QED BY <2>2, <2>3
<1> QED BY <1>3, <1>4 DEF Holders

LEMMA HoldersOfCalls ==
  ASSUME IInv, IInv', Holders, NEW q \in Requests, Posts(q) \/ PostFails(q) \/ Dies(q)
  PROVE  Holders'
<1>1. CASE Posts(q)
  <2>1. PICK t \in DOMAIN threads' :
          /\ threads'[t].row = request[q].row
          /\ honours \/ t = Len(threads')
          /\ request' = [request EXCEPT ![q] =
                          [pc |-> "record", row |-> request[q].row, thread |-> t]]
    BY <1>1 DEF Posts, Goto
  <2> DEFINE x == [pc |-> "record", row |-> request[q].row, thread |-> t]
  <2>2. /\ request' = [request EXCEPT ![q] = x] /\ x.pc = "record"
        /\ x.row = request[q].row /\ x.thread = t
    BY <2>1
  <2>3. /\ At(q, "post") /\ Opened(request[q].row)
        /\ UNCHANGED <<kind, honours, rows, late, forgetting, overlapped>>
    BY <1>1 DEF Posts, fixed, deletion
  <2> HIDE DEF x
  <2> QED BY <2>1, <2>2, <2>3, HoldersOfPosts
<1>2. CASE PostFails(q)
  <2> DEFINE x == [pc |-> "fail", row |-> request[q].row, thread |-> None]
  <2>1. /\ request' = [request EXCEPT ![q] = x] /\ x.pc = "fail" /\ At(q, "post")
        /\ UNCHANGED <<kind, honours, rows, forgetting, overlapped>>
    BY <1>2 DEF PostFails, Goto, fixed, deletion
  <2> HIDE DEF x
  <2>2. CASE UNCHANGED provider
    BY <1>2, <2>2, HoldersOfFinds
  <2>3. CASE Opened(request[q].row) /\ UNCHANGED late
    BY <2>1, <2>3, HoldersOfPosts
  <2>4. CASE late' = late \union {<<q, request[q].row>>} /\ UNCHANGED threads
    BY <2>1, <2>4, HoldersOfGivingUp
  <2> QED BY <1>2, <2>2, <2>3, <2>4 DEF PostFails
<1>3. CASE Dies(q)
  <2>1. CASE UNCHANGED late
    BY <1>3, <2>1, HoldersOfFinds
  <2>2. CASE At(q, "post") /\ late' = late \union {<<q, request[q].row>>}
    <3>1. /\ request' = [request EXCEPT ![q] = Idle] /\ Idle.pc = "idle"
          /\ UNCHANGED <<kind, honours, rows, threads, forgetting, overlapped>>
      BY <1>3 DEF Dies, Ends, Idle, fixed, deletion
    <3> QED BY <2>2, <3>1, HoldersOfGivingUp
  <2> QED BY <1>3, <2>1, <2>2 DEF Dies
<1> QED BY <1>1, <1>2, <1>3

\* A post that is applied late finds its row unpublished and nobody about to record.
LEMMA HoldersOfLatePosts ==
  ASSUME IInv, Holders, NEW p \in Requests, NEW s \in Rows, LateApplies(p, s)
  PROVE  Holders'
<1>1. /\ <<p, s>> \in late /\ late' \subseteq late /\ Opened(s) /\ s \in DOMAIN rows
      /\ UNCHANGED <<kind, honours, rows, request, forgetting, overlapped>>
  BY Known DEF LateApplies, fixed, deletion
<1>2. /\ RowsMatch'
      /\ \A row \in DOMAIN rows : row # s => Live(row)' = Live(row)
  BY <1>1, MatchOfOpened
<1>3. ASSUME NEW row \in DOMAIN rows \ overlapped PROVE OneHolder(row)'
  <2>1. OneHolder(row) /\ row \in DOMAIN rows' /\ rows'[row] = rows[row]
    BY <1>1 DEF Holders
  <2>2. CASE row # s
    BY <1>1, <1>2, <2>1, <2>2, HolderKept
  <2>3. CASE row = s
    <3>1. /\ rows[row].status \in {"publishing", "failed"}
          /\ \A q \in Requests : request[q].row = row /\ At(q, "record") => ~HoldsLease(q)
          /\ \A q \in Requests : Working(q, row) => HoldsLease(q)
      BY <1>1, <2>1, <2>3 DEF OneHolder
    <3>2. \A q \in Requests : /\ Working(q, row)' = Working(q, row)
                              /\ At(q, "record")' = At(q, "record")
                              /\ HoldsLease(q)' = HoldsLease(q)
      BY <1>1 DEF Working, At, HoldsLease
    <3> QED BY <1>1, <3>1, <3>2 DEF OneHolder
  <2> QED BY <2>2, <2>3
<1> QED BY <1>1, <1>2, <1>3 DEF Holders

\* The holder publishes what it has found or opened, or gives its row up.
LEMMA HoldersOfEnds ==
  ASSUME IInv, Holders, NEW q \in Requests, Records(q) \/ Fails(q) PROVE Holders'
<1>1. PICK s : s = request[q].row
  OBVIOUS
<1>2. /\ s \in DOMAIN rows /\ request' = [request EXCEPT ![q] = Idle] /\ Idle.pc = "idle"
      /\ UNCHANGED <<kind, honours, threads, late, forgetting, overlapped>>
  BY <1>1, Known DEF Records, Fails, At, HasRow, Ends, Idle, fixed, provider, deletion
<1>3. CASE UNCHANGED rows
  BY <1>2, <1>3, HoldersOfQuiet
<1>4. CASE ~UNCHANGED rows
  <2>1. HoldsLease(q) /\ rows[s].status = "publishing" /\ rows[s].lease = q
    BY <1>1, <1>4 DEF Records, Fails, HoldsLease
  <2>2. PICK x : /\ rows' = [rows EXCEPT ![s] = x]
                 /\ \/ /\ x.status = "published" /\ x.thread = request[q].thread
                       /\ At(q, "record")
                    \/ x.status = "failed" /\ x.thread = None
    <3>1. CASE Records(q)
      <4> DEFINE x == [status |-> "published", lease |-> None, stale |-> FALSE,
                       thread |-> request[q].thread]
      <4>1. /\ rows' = [rows EXCEPT ![s] = x] /\ x.status = "published"
            /\ x.thread = request[q].thread /\ At(q, "record")
        BY <1>1, <2>1, <3>1 DEF Records
      <4> HIDE DEF x
      <4> QED BY <4>1
    <3>2. CASE Fails(q)
      <4> DEFINE x == [rows[s] EXCEPT !.status = "failed", !.lease = None]
      <4>1. rows' = [rows EXCEPT ![s] = x]
        BY <1>1, <1>2, <2>1, <3>2 DEF Fails
      <4>2. x.status = "failed" /\ x.thread = None
        BY <1>2, <2>1, Known DEF Row, Holders, RowsMatch
      <4> HIDE DEF x
      <4> QED BY <4>1, <4>2
    <3> QED BY <3>1, <3>2
  <2>3. /\ DOMAIN rows' = DOMAIN rows /\ rows'[s] = x
        /\ \A r \in DOMAIN rows : r # s => rows'[r] = rows[r]
        /\ \A p \in Requests : p # q => request'[p] = request[p]
        /\ request'[q].pc = "idle" /\ \A r : Live(r)' = Live(r)
    BY <1>2, <2>2, Known DEF Live
  <2>4. Len(rows') = Len(rows)
    <3>1. rows' \in [1..Len(rows) -> Row \union {x}] /\ Len(rows) \in Nat
      BY <2>2, Known
    <3>2. rows' \in Seq(Row \union {x})
      BY <3>1, SeqDef
    <3> QED BY <3>1, <3>2, LenProperties
  <2>5. RowsMatch'
    <3>1. \A p \in Requests :
            At(p, "record")' => threads'[request'[p].thread].row = request'[p].row
      BY <1>2, <2>3 DEF Holders, RowsMatch, At
    <3>2. \A r \in DOMAIN rows' :
            /\ rows'[r].status = "published" => threads'[rows'[r].thread].row = r
            /\ rows'[r].status # "published" => rows'[r].thread = None
      BY <1>1, <1>2, <2>2, <2>3 DEF Holders, RowsMatch
    <3>3. honours' => \A r \in DOMAIN rows' : rows'[r].status = "deleted" =>
            Live(r)' = {} /\ \E t \in DOMAIN threads' : threads'[t].row = r
      BY <1>2, <2>2, <2>3 DEF Holders, RowsMatch
    <3>4. kind' = "ai" =>
            \A r \in DOMAIN rows' : r < Len(rows') => rows'[r].status = "deleted"
      BY <1>2, <2>1, <2>3, <2>4 DEF Holders, RowsMatch
    <3> QED BY <1>2, <3>1, <3>2, <3>3, <3>4 DEF Holders, RowsMatch
  <2>6. ASSUME NEW row \in DOMAIN rows \ overlapped PROVE OneHolder(row)'
    <3>1. OneHolder(row)
      BY DEF Holders
    <3>2. CASE row # s
      BY <1>2, <2>3, <3>1, <3>2, HolderKept
    <3>3. CASE row = s
      <4>1. \A p \in Requests : ~Working(p, row)'
        <5>1. \A p \in Requests : Working(p, row) => p = q
          BY <1>1, <2>1, <3>1, <3>3 DEF OneHolder, Working, HoldsLease
        <5> QED BY <2>3, <5>1 DEF Working
      <4>2. rows'[row].status # "publishing" /\ rows'[row].status # "deleted"
        BY <2>2, <2>3, <3>3
      <4>3. \A p \in Requests : request'[p].row = row => ~HoldsLease(p)'
        BY <4>2 DEF HoldsLease
      <4>4. rows'[row].status = "published" =>
              /\ \A p \in Requests : <<p, row>> \notin late
              /\ Live(row)' \subseteq {rows'[row].thread}
        BY <1>1, <2>1, <2>2, <2>3, <3>1, <3>3 DEF OneHolder
      <4>5. rows'[row].status \in {"published", "failed"}
        BY <2>2, <2>3, <3>3
      <4> QED BY <1>2, <4>1, <4>2, <4>3, <4>4, <4>5 DEF OneHolder
    <3> QED BY <3>2, <3>3
  <2> QED BY <1>2, <2>3, <2>5, <2>6 DEF Holders
<1> QED BY <1>3, <1>4

\* Time, and a deletion at the provider, leave the holders alone.
LEMMA HoldersOfTime ==
  ASSUME IInv, Holders, NEW row \in Rows, Ages(row) PROVE Holders'
<1>1. /\ row \in DOMAIN rows /\ rows' = [rows EXCEPT ![row].stale = TRUE]
      /\ UNCHANGED <<kind, honours, request, threads, late, forgetting, overlapped>>
  BY DEF Ages, fixed, provider, deletion
<1>2. /\ DOMAIN rows' = DOMAIN rows
      /\ \A r \in DOMAIN rows : /\ rows'[r].status = rows[r].status
                                /\ rows'[r].lease = rows[r].lease
                                /\ rows'[r].thread = rows[r].thread
      /\ \A r : Live(r)' = Live(r)
  BY <1>1, Known DEF Row, Live
<1>3. Len(rows') = Len(rows)
  <2> DEFINE x == [rows[row] EXCEPT !.stale = TRUE]
  <2>1. x \in Row /\ rows' = [rows EXCEPT ![row] = x]
    BY <1>1, Known DEF Row
  <2>2. rows \in Seq(Row) /\ row \in 1..Len(rows)
    BY <1>1, Known DEF IInv, TypeOK
  <2> HIDE DEF x
  <2> QED BY <2>1, <2>2, ExceptSeq
<1>4. RowsMatch'
  BY <1>1, <1>2, <1>3 DEF Holders, RowsMatch, At
<1>5. ASSUME NEW r \in DOMAIN rows \ overlapped PROVE OneHolder(r)'
  <2>1. OneHolder(r) /\ r \in DOMAIN rows'
    BY <1>2 DEF Holders
  <2> QED BY <1>1, <1>2, <2>1, HolderKept
<1> QED BY <1>1, <1>2, <1>4, <1>5 DEF Holders

LEMMA HoldersOfDeletion ==
  ASSUME IInv, Holders, NeverForgets \/ \E t \in DOMAIN threads : DeletesThread(t)
  PROVE  Holders'
<1>1. UNCHANGED <<kind, honours, rows, request, late, overlapped>>
  BY DEF NeverForgets, DeletesThread, fixed, provider
<1>2. /\ DOMAIN threads' = DOMAIN threads
      /\ \A t \in DOMAIN threads : /\ threads'[t].row = threads[t].row
                                   /\ threads'[t].live => threads[t].live
      /\ forgetting' # None => ~threads'[forgetting'].live
  <2>1. CASE NeverForgets
    BY <2>1 DEF NeverForgets, provider
  <2>2. ASSUME NEW t \in DOMAIN threads, DeletesThread(t)
        PROVE  /\ threads' = [threads EXCEPT ![t].live = FALSE] /\ forgetting' = t
               /\ threads[t] \in Thread
    BY <2>2, Known, ElementOfSeq DEF DeletesThread
  <2>3. CASE \E t \in DOMAIN threads : DeletesThread(t)
    <3>1. PICK t \in DOMAIN threads : DeletesThread(t)
      BY <2>3
    <3> QED BY <2>2, <3>1 DEF Thread
  <2> QED BY <2>1, <2>3
<1>3. \A r : Live(r)' \subseteq Live(r)
  BY <1>2 DEF Live
<1>4. RowsMatch'
  <2>1. \A q \in Requests :
          At(q, "record")' => threads'[request'[q].thread].row = request'[q].row
    BY <1>1, <1>2, Known DEF Holders, RowsMatch, At
  <2>2. \A r \in DOMAIN rows' :
          /\ rows'[r].status = "published" => threads'[rows'[r].thread].row = r
          /\ rows'[r].status # "published" => rows'[r].thread = None
    BY <1>1, <1>2, Known DEF Holders, RowsMatch
  <2>3. honours' => \A r \in DOMAIN rows' : rows'[r].status = "deleted" =>
          Live(r)' = {} /\ \E t \in DOMAIN threads' : threads'[t].row = r
    BY <1>1, <1>2, <1>3 DEF Holders, RowsMatch
  <2>4. kind' = "ai" =>
          \A r \in DOMAIN rows' : r < Len(rows') => rows'[r].status = "deleted"
    BY <1>1 DEF Holders, RowsMatch
  <2> QED BY <1>2, <2>1, <2>2, <2>3, <2>4 DEF RowsMatch
<1>5. ASSUME NEW r \in DOMAIN rows \ overlapped PROVE OneHolder(r)'
  <2>1. OneHolder(r)
    BY DEF Holders
  <2> QED BY <1>1, <1>3, <2>1, HolderKept
<1> QED BY <1>1, <1>4, <1>5 DEF Holders

\* A row that is deleted had its conversation deleted first, and nobody holds it.
LEMMA HoldersOfForgetting == ASSUME IInv, Holders, Forgets PROVE Holders'
<1>1. /\ rows' = [r \in DOMAIN rows |->
                    IF rows[r].thread = forgetting THEN Forgotten(rows[r]) ELSE rows[r]]
      /\ UNCHANGED <<kind, honours, request, threads, late, overlapped>>
      /\ forgetting # None /\ forgetting' = None
  BY DEF Forgets, fixed, provider
<1>2. \A r : Live(r)' = Live(r)
  BY <1>1 DEF Live
<1>3. \A r \in DOMAIN rows :
        \/ rows'[r] = rows[r]
        \/ /\ rows[r].thread = forgetting /\ rows[r].status = "published"
           /\ rows'[r].status = "deleted" /\ rows'[r].thread = None
  <2>1. \A x \in Row : Forgotten(x).status = "deleted" /\ Forgotten(x).thread = None
    BY DEF Forgotten, Row
  <2> QED BY <1>1, <2>1, Known DEF Holders, RowsMatch
<1>4. DOMAIN rows' = DOMAIN rows /\ Len(rows') = Len(rows)
  <2>1. rows' \in [1..Len(rows) -> {rows'[r] : r \in 1..Len(rows)}] /\ Len(rows) \in Nat
    BY <1>1, Known
  <2>2. rows' \in Seq({rows'[r] : r \in 1..Len(rows)})
    BY <2>1, SeqDef
  <2> QED BY <1>1, <2>1, <2>2, LenProperties
<1>5. ASSUME NEW r \in DOMAIN rows, rows'[r] # rows[r]
      PROVE  /\ threads[forgetting].row = r /\ ~threads[forgetting].live
             /\ forgetting \in DOMAIN threads
  BY <1>1, <1>3, <1>5, Known DEF Holders, RowsMatch
<1>6. RowsMatch'
  <2>1. \A r \in DOMAIN rows' :
          /\ rows'[r].status = "published" => threads'[rows'[r].thread].row = r
          /\ rows'[r].status # "published" => rows'[r].thread = None
    BY <1>1, <1>3, <1>4 DEF Holders, RowsMatch
  <2>2. ASSUME honours, NEW r \in DOMAIN rows, rows'[r].status = "deleted"
        PROVE  Live(r) = {} /\ \E t \in DOMAIN threads : threads[t].row = r
    <3>1. CASE rows'[r] = rows[r]
      BY <2>2, <3>1 DEF Holders, RowsMatch
    <3>2. CASE rows'[r] # rows[r]
      BY <1>5, <2>2, <3>2 DEF IInv, KeysAreHonoured, Live
    <3> QED BY <3>1, <3>2
  <2>3. kind' = "ai" =>
          \A r \in DOMAIN rows' : r < Len(rows') => rows'[r].status = "deleted"
    BY <1>1, <1>3, <1>4 DEF Holders, RowsMatch
  <2> QED BY <1>1, <1>2, <1>4, <2>1, <2>2, <2>3 DEF Holders, RowsMatch, At
<1>7. ASSUME NEW row \in DOMAIN rows \ overlapped PROVE OneHolder(row)'
  <2>1. OneHolder(row) /\ row \in DOMAIN rows'
    BY <1>4 DEF Holders
  <2>2. CASE rows'[row] = rows[row]
    BY <1>1, <1>2, <2>1, <2>2, HolderKept
  <2>3. CASE rows'[row] # rows[row]
    <3>1. /\ rows[row].status = "published" /\ rows[row].thread = forgetting
          /\ rows'[row].status = "deleted" /\ ~threads[forgetting].live
      BY <1>3, <1>5, <2>3
    <3>2. Live(row) = {}
      BY <2>1, <3>1 DEF OneHolder, Live
    <3>3. \A q \in Requests : ~Working(q, row)'
      BY <1>1, <2>1, <3>1 DEF OneHolder, Working, HoldsLease
    <3>4. \A p \in Requests : <<p, row>> \notin late'
      BY <1>1, <2>1, <3>1 DEF OneHolder
    <3>5. \A q \in Requests : request'[q].row = row => ~HoldsLease(q)'
      BY <3>1 DEF HoldsLease
    <3> QED BY <1>2, <3>1, <3>2, <3>3, <3>4, <3>5 DEF OneHolder
  <2> QED BY <2>2, <2>3
<1> QED BY <1>1, <1>4, <1>6, <1>7 DEF Holders

-----------------------------------------------------------------------------
(* Every step, and the theorems.                                           *)

LEMMA NextInv == IInv /\ [Next]_vars => IInv'
<1> SUFFICES ASSUME IInv, [Next]_vars PROVE IInv'
  OBVIOUS
<1>1. ASSUME NEW q \in Requests, Publishes(q) \/ ListFails(q) \/ PostFails(q) \/ Dies(q)
      PROVE  IInv'
  BY <1>1, FindsInv, ClaimsInv, InsertsInv, ListsInv, PostsInv, EndsInv, ErrorsInv, DiesInv
     DEF Publishes
<1>2. ASSUME NEW p \in Requests, NEW row \in Rows, LateApplies(p, row) PROVE IInv'
  BY <1>2, LateAppliesInv
<1>3. ASSUME NEW row \in Rows, Ages(row) PROVE IInv'
  BY <1>3, AgesInv
<1>4. ASSUME NEW t \in DOMAIN threads, DeletesThread(t) PROVE IInv'
  BY <1>4, DeletesThreadInv
<1>5. CASE Forgets \/ NeverForgets
  BY <1>5, ForgetsInv, NeverForgetsInv
<1>6. CASE UNCHANGED vars
  BY <1>6 DEF vars, IInv, TypeOK, RowsExist, KeysAreHonoured, OneSource, Working, At, Live
<1> QED BY <1>1, <1>2, <1>3, <1>4, <1>5, <1>6 DEF Next

LEMMA HoldersStep == IInv /\ IInv' /\ Holders /\ [Next]_vars => Holders'
<1> SUFFICES ASSUME IInv, IInv', Holders, [Next]_vars PROVE Holders'
  OBVIOUS
<1>1. ASSUME NEW q \in Requests, Publishes(q) \/ ListFails(q) \/ PostFails(q) \/ Dies(q)
      PROVE  Holders'
  BY <1>1, HoldersOfFinds, HoldersOfClaims, HoldersOfInserts, HoldersOfLists,
     HoldersOfCalls, HoldersOfEnds DEF Publishes
<1>2. ASSUME NEW p \in Requests, NEW row \in Rows, LateApplies(p, row) PROVE Holders'
  BY <1>2, HoldersOfLatePosts
<1>3. ASSUME NEW row \in Rows, Ages(row) PROVE Holders'
  BY <1>3, HoldersOfTime
<1>4. CASE NeverForgets \/ \E t \in DOMAIN threads : DeletesThread(t)
  BY <1>4, HoldersOfDeletion
<1>5. CASE Forgets
  BY <1>5, HoldersOfForgetting
<1>6. CASE UNCHANGED vars
  <2>1. RowsMatch'
    BY <1>6 DEF vars, Holders, RowsMatch, At, Live
  <2>2. ASSUME NEW row \in DOMAIN rows \ overlapped PROVE OneHolder(row)'
    BY <1>6, HolderKept DEF vars, Holders, Live
  <2> QED BY <1>6, <2>1, <2>2 DEF vars, Holders
<1> QED BY <1>1, <1>2, <1>3, <1>4, <1>5, <1>6 DEF Next

\* IInv and Holders hold of every state the calls and the provider reach.
THEOREM Inductive == Spec => [](IInv /\ Holders)
<1>1. Init => IInv /\ Holders
  BY InitInv, HoldersInit
<1>2. IInv /\ Holders /\ [Next]_vars => (IInv /\ Holders)'
  BY NextInv, HoldersStep
<1> QED BY <1>1, <1>2, PTL DEF Spec

\* The model's values stay in their types, and a published row names a conversation
\* that the provider has opened.
THEOREM TypeCorrect == Spec => []TypeOK
<1>1. IInv => TypeOK
  BY DEF IInv
<1> QED BY <1>1, Inductive, PTL

\* Conversations that are all the same are no more than one.
LEMMA NotTwo ==
  ASSUME NEW S, \A t, u \in S : t = u
  PROVE  ~(Cardinality(S) > 1)
<1>1. CASE S = {}
  BY <1>1, FS_EmptySet
<1>2. CASE \E t : S = {t}
  <2>1. Cardinality(S) = 1
    BY <1>2, FS_Singleton
  <2> QED BY <2>1
<1> QED BY <1>1, <1>2

\* A row has one conversation, and a finding one over all its rows, but for a provider
\* that ignores the key and a retry that ran while an older post could still be applied.
THEOREM OneConversationPerComment == Spec => []OneConversation
<1>1. ASSUME IInv, NEW row \in DOMAIN rows, row \notin overlapped \/ honours
      PROVE  \A t, u \in Live(row) : t = u
  <2>1. row \in Rows
    BY <1>1, RowsFacts
  <2>2. CASE row \notin overlapped
    BY <1>1, <2>1, <2>2 DEF IInv, OneSource
  <2>3. CASE honours
    BY <1>1, <2>3 DEF IInv, KeysAreHonoured, Live
  <2> QED BY <1>1, <2>2, <2>3
<1>2. ASSUME IInv, Holders, kind = "ai", overlapped = {} \/ honours
      PROVE  ~(Cardinality(UNION {Live(row) : row \in DOMAIN rows}) > 1)
  <2>1. ASSUME NEW r \in DOMAIN rows, r # Len(rows) PROVE Live(r) = {}
    <3>1. rows[r].status = "deleted"
      BY <1>2, <2>1, Known DEF Holders, RowsMatch
    <3> QED BY <1>2, <3>1 DEF Holders, RowsMatch, OneHolder
  <2>2. ASSUME NEW t \in UNION {Live(row) : row \in DOMAIN rows}
        PROVE  Len(rows) \in DOMAIN rows /\ t \in Live(Len(rows))
    BY <2>1, <2>2
  <2>3. \A t, u \in UNION {Live(row) : row \in DOMAIN rows} : t = u
    BY <1>1, <1>2, <2>2
  <2> QED BY <2>3, NotTwo
<1>3. IInv /\ Holders => OneConversation
  <2> SUFFICES ASSUME IInv, Holders PROVE OneConversation
    OBVIOUS
  <2>1. honours \in BOOLEAN
    BY DEF IInv, TypeOK
  <2> QED BY <1>1, <1>2, <2>1, NotTwo DEF OneConversation
<1> QED BY <1>3, Inductive, PTL

\* What is published is not taken back or given another conversation by an attempt that
\* ends later.
THEOREM PublishedStays == Spec => PublishedIsFinal
<1>1. ASSUME IInv, [Next]_vars, NEW row \in DOMAIN rows, rows[row].status = "published"
      PROVE  rows'[row] = rows[row] \/ rows'[row].status = "deleted"
  <2>1. CASE UNCHANGED rows
    BY <2>1
  <2>2. ASSUME NEW q \in Requests, Claims(q) PROVE rows'[row] = rows[row]
    BY <1>1, <2>2 DEF Claims, IsClaimable
  <2>3. ASSUME NEW q \in Requests, Inserts(q) PROVE rows'[row] = rows[row]
    <3>1. rows \in Seq(Row) /\ row \in 1..Len(rows) /\ LeasedTo(q) \in Row
      BY <1>1, RowsFacts DEF IInv, TypeOK, LeasedTo, Row, RequestOrNone
    <3> QED BY <2>3, <3>1, AppendProperties DEF Inserts
  <2>4. ASSUME NEW q \in Requests, Records(q) \/ Fails(q) PROVE rows'[row] = rows[row]
    BY <1>1, <2>4 DEF Records, Fails, HoldsLease
  <2>5. ASSUME NEW s \in Rows, Ages(s) PROVE rows'[row] = rows[row]
    BY <1>1, <2>5 DEF Ages
  <2>6. CASE Forgets
    BY <1>1, <2>6, RowsFacts DEF Forgets, Forgotten, Row
  <2> QED BY <1>1, <2>1, <2>2, <2>3, <2>4, <2>5, <2>6
          DEF Next, Publishes, Asks, ClaimsNothing, Rereads, Lists, Posts, ListFails, PostFails,
              Dies, LateApplies, DeletesThread, NeverForgets, vars
<1>2. IInv /\ [Next]_vars =>
        [\A row \in DOMAIN rows :
           rows[row].status = "published" => \/ rows'[row] = rows[row]
                                             \/ rows'[row].status = "deleted"]_vars
  BY <1>1
<1> QED BY <1>2, Inductive, PTL DEF Spec, PublishedIsFinal
=============================================================================
