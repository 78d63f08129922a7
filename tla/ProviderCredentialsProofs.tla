---------------------- MODULE ProviderCredentialsProofs ----------------------
(***************************************************************************)
(* Theorems about ProviderCredentials, for any number of requests, grants,   *)
(* expiries and faults.  The argument: the lock is of the row's id, and a     *)
(* grant is only ever stored in the row of one id; so that while a request    *)
(* renews a grant nobody else holds its tokens, and the row shows an older    *)
(* token only until that request has stored the new one, or has lost it.     *)
(***************************************************************************)
EXTENDS ProviderCredentials, SequenceTheorems, TLAPS

Writing == {q \in Readers : reader[q].pc = "write"}
Known == 1..Len(grants)

\* Whatever is named exists.
NamesAreKnown ==
  /\ row # NoRow => row.id \in Known /\ row.grant \in Known /\ row.access.grant \in Known
  /\ \A q \in Renewing : /\ reader[q].id \in Known
                         /\ reader[q].token \in Token /\ reader[q].token.grant \in Known
  /\ disconnect.pc # "idle" => /\ disconnect.id \in Known
                               /\ disconnect.access \in Token
                               /\ disconnect.access.grant \in Known
  /\ \A t \in spent : t.grant \in Known
  /\ disowned \subseteq Known

\* A grant without a refresh token has nothing to revoke; only a GitLab connection's
\* refresh token is revoked, and it is of the generation of the access token.
KindsAreKnown ==
  /\ row # NoRow /\ row.refresh = None => grants[row.grant].kind = "pat"
  /\ disconnect.pc # "idle" => /\ disconnect.refresh \in {None, disconnect.access}
                               /\ disconnect.refresh = None => disconnect.kind = "pat"
  /\ disconnect.pc = "refresh" => disconnect.kind = "oauth"

\* Nobody else holds a token of the grant, or of the row, that a request renews.
OneRenewal ==
  /\ \A p, q \in Renewing :
       \/ reader[p].id = reader[q].id
       \/ reader[p].token.grant = reader[q].token.grant
       => p = q
  /\ \A q \in Renewing :
       row # NoRow /\ reader[q].token.grant = row.access.grant => reader[q].id = row.id

\* Each renewal is for one expiry.
GenerationsAreCounted ==
  /\ \A g \in Known : grants[g].generation <= expiries
  /\ row # NoRow => /\ row.access.generation <= grants[row.access.grant].generation
                    /\ row.expired => row.access.generation < expiries
  /\ \A q \in Renewing :
       LET t == reader[q].token
       IN  /\ reader[q].pc = "rotate" =>
                t.generation < expiries /\ t.generation <= grants[t.grant].generation
           /\ reader[q].pc = "write" =>
                t.generation >= 1 /\ t.generation = grants[t.grant].generation
  /\ \A t \in spent : /\ t.generation <= grants[t.grant].generation
                      /\ t \notin stranded => t.generation < grants[t.grant].generation

\* A spent token is either lost for good or about to be replaced.
SpentTokensAreReplaced ==
  /\ \A q \in Renewing : reader[q].pc = "rotate" /\ reader[q].token \in spent
                           => reader[q].token \in stranded
  /\ \A q \in Renewing : reader[q].pc = "write" => reader[q].token \notin spent
  /\ row # NoRow /\ row.access \in spent =>
       \/ row.access \in stranded
       \/ \E q \in Writing : /\ reader[q].id = row.id
                             /\ reader[q].token.grant = row.access.grant
                             /\ reader[q].token.generation = row.access.generation + 1

\* What the row shows, and what will be stored in it, is of the same grant.
RowShowsItsGrant ==
  /\ row # NoRow => row.access.grant = row.grant \/ row.grant \in overtaken
  /\ \A q \in Renewing : reader[q].id = row.id =>
       reader[q].token.grant = row.grant \/ row.grant \in overtaken

Lost(g) == g \in overtaken \/ \E t \in stranded : t.grant = g

\* The row has the grant's tokens, or will have them.
RowIsCurrent ==
  row # NoRow =>
    \/ Lost(row.grant)
    \/ row.access.generation = grants[row.grant].generation
    \/ \E q \in Writing : reader[q].id = row.id /\ reader[q].token.grant = row.grant

Lapsed(g) == grants[g].kind = "github_user" /\ g \in lapsed
Gone(g) == ~grants[g].live \/ grants[g].kind = "pat" \/ Lost(g) \/ Lapsed(g)

\* A disconnection revokes what the row shows.
DisconnectKnowsTheGrant ==
  /\ disconnect.pc \in {"revoke", "refresh"} => ~disconnect.revoked
  /\ disconnect.pc \in {"revoke", "refresh"} /\ row.id = disconnect.id =>
       \/ Lost(row.grant)
       \/ /\ disconnect.kind = grants[row.grant].kind
          /\ disconnect.access.grant = row.grant
          /\ disconnect.access.generation = grants[row.grant].generation
  /\ disconnect.pc = "delete" /\ disconnect.revoked /\ row.id = disconnect.id =>
       Gone(row.grant)
  /\ \A g \in disowned : Gone(g)

IInv == /\ TypeOK
        /\ NamesAreKnown
        /\ KindsAreKnown
        /\ OneRenewal
        /\ GenerationsAreCounted
        /\ SpentTokensAreReplaced
        /\ RowShowsItsGrant
        /\ RowIsCurrent
        /\ DisconnectKnowsTheGrant
        /\ reused \subseteq stranded

-----------------------------------------------------------------------------
(* Types, and what a renewal does to the grants.                           *)

\* What the invariant says of the types of what it relates.
LEMMA Types ==
  ASSUME IInv
  PROVE  /\ grants \in Seq(Grant) /\ Len(grants) \in Nat /\ Known \subseteq Grants
         /\ \A g \in Known : grants[g] \in Grant /\ grants[g].generation \in Nat /\ g \in Nat
         /\ expiries \in Nat /\ expiries <= MaxExpiries
         /\ row # NoRow => row \in Row /\ row.access \in Token /\ row.access.generation \in Nat
         /\ reader \in [Readers -> Reader]
         /\ Renewing \subseteq Readers
         /\ \A q \in Renewing : reader[q].token \in Token /\ reader[q].token.generation \in Nat
         /\ \A t \in spent : t \in Token /\ t.generation \in Nat
<1> USE ProviderCredentialsAssumption DEF IInv, TypeOK
<1>1. grants \in Seq(Grant) /\ Len(grants) \in Nat /\ Known \subseteq Grants
  BY DEF Known, Grants
<1>2. \A g \in Known : grants[g] \in Grant /\ grants[g].generation \in Nat /\ g \in Nat
  <2>1. \A g \in Known : grants[g] \in Grant /\ g \in Nat
    BY <1>1, ElementOfSeq DEF Known
  <2>2. \A x \in Grant : x.generation \in Nat
    BY DEF Grant
  <2> HIDE DEF IInv, TypeOK
  <2> QED BY <2>1, <2>2
<1>3. expiries \in Nat /\ expiries <= MaxExpiries
  OBVIOUS
<1>4. row # NoRow => row \in Row /\ row.access \in Token /\ row.access.generation \in Nat
  BY DEF Row, Token
<1>5. \A q \in Renewing : reader[q].token \in Token /\ reader[q].token.generation \in Nat
  BY DEF NamesAreKnown, Token
<1>6. \A t \in spent : t \in Token /\ t.generation \in Nat
  BY DEF Token
<1> QED BY <1>1, <1>2, <1>3, <1>4, <1>5, <1>6 DEF Renewing

\* Changing one grant leaves the others alone.
LEMMA OneGrantChanges ==
  ASSUME grants \in Seq(Grant), NEW g \in Known, NEW x \in Grant,
         grants' = [grants EXCEPT ![g] = x]
  PROVE  /\ grants' \in Seq(Grant) /\ Len(grants') = Len(grants) /\ Known' = Known
         /\ \A h \in Known : grants'[h] = IF h = g THEN x ELSE grants[h]
<1>1. g \in 1..Len(grants)
  BY DEF Known
<1> QED BY <1>1, ExceptSeq DEF Known

\* The provider renews a grant.
LEMMA RenewedFacts ==
  ASSUME IInv, NEW t \in Token, t.grant \in Known, Renewed(t),
         grants[t.grant].generation < expiries
  PROVE  /\ grants' \in Seq(Grant) /\ Len(grants') = Len(grants) /\ Known' = Known
         /\ \A h \in Known :
              /\ grants'[h].kind = grants[h].kind /\ grants'[h].live = grants[h].live
              /\ grants'[h].generation = IF h = t.grant THEN grants[h].generation + 1
                                         ELSE grants[h].generation
<1> DEFINE n == grants[t.grant].generation + 1
           x == [grants[t.grant] EXCEPT !.generation = n, !.ended = FALSE]
<1>1. n \in 0..MaxExpiries
  BY Types, ProviderCredentialsAssumption
<1>2. grants' = [grants EXCEPT ![t.grant] = x]
  BY DEF Renewed
<1> HIDE DEF n
<1>3. /\ x \in Grant /\ x.kind = grants[t.grant].kind /\ x.live = grants[t.grant].live
      /\ x.generation = n
  BY <1>1, Types DEF Grant
<1> HIDE DEF x
<1>4. /\ grants' \in Seq(Grant) /\ Len(grants') = Len(grants) /\ Known' = Known
      /\ \A h \in Known : grants'[h] = IF h = t.grant THEN x ELSE grants[h]
  BY <1>2, <1>3, Types, OneGrantChanges
<1> QED BY <1>3, <1>4 DEF n

\* None is no token.
LEMMA NoToken == \A t \in Token : t # None
BY ProviderCredentialsAssumption

-----------------------------------------------------------------------------
(* The requests.                                                           *)

\* A request that was not about to store a token goes on without one.
LEMMA ReaderLeaves ==
  ASSUME IInv, NEW q \in Readers, NEW v \in Reader,
         reader[q].pc # "write", v.pc \in {"idle", "wait"},
         reader' = [reader EXCEPT ![q] = v],
         reused' \subseteq stranded, 
         UNCHANGED <<row, grants, disconnect, expiries, faults, spent, stranded, overtaken,
                     disowned, lapsed>>
  PROVE  IInv'
<1>1. Renewing' = Renewing \ {q} /\ Writing' = Writing /\ Known' = Known
  BY Types DEF Renewing, Writing, Known
<1>2. \A p \in Renewing' \union Writing' : p \in Readers /\ reader'[p] = reader[p]
  BY <1>1, Types DEF Renewing, Writing
<1>3. TypeOK'
  BY DEF IInv, TypeOK
<1>4. NamesAreKnown'
  BY <1>1, <1>2 DEF IInv, NamesAreKnown
<1>5. OneRenewal'
  BY <1>1, <1>2 DEF IInv, OneRenewal
<1>6. GenerationsAreCounted'
  BY <1>1, <1>2 DEF IInv, GenerationsAreCounted
<1>7. SpentTokensAreReplaced'
  BY <1>1, <1>2 DEF IInv, SpentTokensAreReplaced
<1>8. RowShowsItsGrant' /\ RowIsCurrent'
  BY <1>1, <1>2 DEF IInv, RowShowsItsGrant, RowIsCurrent, Lost
<1>9. DisconnectKnowsTheGrant' /\ KindsAreKnown'
  BY DEF IInv, DisconnectKnowsTheGrant, KindsAreKnown, Gone, Lost, Lapsed
<1> QED BY <1>3, <1>4, <1>5, <1>6, <1>7, <1>8, <1>9 DEF IInv

\* A token that has expired is found.
LEMMA ReadsExpiredInv == ASSUME IInv, NEW q \in Readers, ReadsExpired(q) PROVE IInv'
<1> DEFINE v == [pc |-> "wait", id |-> row.id, token |-> None]
<1>1. reader' = [reader EXCEPT ![q] = v] /\ reader[q].pc = "idle" /\ row # NoRow
  BY DEF ReadsExpired, Becomes, CredentialNeedsRefresh
<1>2. v \in Reader
  BY <1>1, Types DEF Row, Reader, TokenOrNone
<1>3. v.pc = "wait"
  OBVIOUS
<1> HIDE DEF v
<1>4. reused' \subseteq stranded
  BY DEF ReadsExpired, history, tokens, IInv
<1> QED BY <1>1, <1>2, <1>3, <1>4, ReaderLeaves DEF ReadsExpired, history, tokens

\* A request that renews nothing is over.
LEMMA IdleFacts == IdleReader \in Reader /\ IdleReader.pc = "idle"
  BY DEF IdleReader, Reader, TokenOrNone

\* With the lock, a request has the row's refresh token to itself.
LEMMA LocksInv == ASSUME IInv, NEW q \in Readers, Locks(q) PROVE IInv'
<1> USE DEF history, tokens
<1> DEFINE takes == row.id = reader[q].id /\ CredentialNeedsRefresh /\ row.refresh # None
<1>0. reader[q].pc = "wait"
  BY DEF Locks
<1>1. CASE ~takes
  <2>1. reader' = [reader EXCEPT ![q] = IdleReader] /\ reused' \subseteq stranded
    BY <1>1 DEF Locks, Ends, IInv
  <2> QED BY <1>0, <2>1, IdleFacts, ReaderLeaves DEF Locks
<1>2. CASE takes
  <2> DEFINE v == [pc |-> "rotate", id |-> row.id, token |-> row.refresh]
  <2>1. /\ reader' = [reader EXCEPT ![q] = v] /\ row # NoRow /\ row.expired
        /\ \A p \in Renewing : reader[p].id # row.id
        /\ UNCHANGED <<row, grants, disconnect, expiries, faults, spent, reused, stranded,
                       overtaken, disowned, lapsed>>
    BY <1>2 DEF Locks, Becomes, CredentialNeedsRefresh, RefreshLockIsFree
  <2>2. row.refresh = row.access /\ row.access \in Token /\ row.id \in Grants
    BY <1>2, <2>1, Types DEF IInv, TypeOK, Row
  <2>3. v \in Reader /\ v.pc = "rotate" /\ v.id = row.id /\ v.token = row.access
    BY <2>2 DEF Reader, TokenOrNone
  <2> HIDE DEF v
  <2>4. /\ Renewing' = Renewing \union {q} /\ q \notin Renewing
        /\ Writing' = Writing /\ Known' = Known
        /\ reader'[q] = v
        /\ \A p \in Renewing \union Writing : p \in Readers /\ p # q /\ reader'[p] = reader[p]
    BY <1>0, <2>1, <2>3, Types DEF Renewing, Writing, Known
  <2>5. TypeOK'
    BY <2>1, <2>3 DEF IInv, TypeOK
  <2>6. NamesAreKnown'
    BY <2>1, <2>2, <2>3, <2>4 DEF IInv, NamesAreKnown
  <2>7. OneRenewal'
    BY <2>1, <2>3, <2>4 DEF IInv, OneRenewal
  <2>8. GenerationsAreCounted'
    <3>1. \A t \in spent' : /\ t.generation <= grants[t.grant].generation
                            /\ t \notin stranded => t.generation < grants[t.grant].generation
      BY <2>1 DEF IInv, GenerationsAreCounted
    <3> QED BY <2>1, <2>2, <2>3, <2>4, <3>1 DEF IInv, GenerationsAreCounted
  <2>9. SpentTokensAreReplaced'
    <3>1. row.access \in spent => row.access \in stranded
      BY <2>1 DEF IInv, SpentTokensAreReplaced, Writing, Renewing
    <3> QED BY <2>1, <2>3, <2>4, <3>1 DEF IInv, SpentTokensAreReplaced
  <2>10. RowShowsItsGrant' /\ RowIsCurrent'
    BY <2>1, <2>3, <2>4 DEF IInv, RowShowsItsGrant, RowIsCurrent, Lost
  <2>11. DisconnectKnowsTheGrant' /\ KindsAreKnown' /\ reused' \subseteq stranded'
    BY <2>1 DEF IInv, DisconnectKnowsTheGrant, KindsAreKnown, Gone, Lost, Lapsed
  <2> QED BY <2>5, <2>6, <2>7, <2>8, <2>9, <2>10, <2>11 DEF IInv
<1> QED BY <1>1, <1>2

\* A refused token was not spent, or its successor has been lost.
LEMMA IsRefusedInv == ASSUME IInv, NEW q \in Readers, IsRefused(q) PROVE IInv'
<1>1. reader' = [reader EXCEPT ![q] = IdleReader] /\ reader[q].pc = "rotate"
  BY DEF IsRefused, Ends
<1>2. reused' \subseteq stranded
  BY <1>1 DEF IsRefused, Presents, IInv, SpentTokensAreReplaced, Renewing
<1> QED BY <1>1, <1>2, IdleFacts, ReaderLeaves DEF IsRefused

\* What holds of a request that presents its token.
LEMMA OfRotating ==
  ASSUME IInv, NEW q \in Readers, reader[q].pc = "rotate"
  PROVE  LET t == reader[q].token
         IN  /\ q \in Renewing /\ q \notin Writing
             /\ t \in Token /\ t.grant \in Known /\ t.generation \in Nat
             /\ t.generation < expiries /\ t.generation <= grants[t.grant].generation
             /\ t \in spent => t \in stranded
             /\ reader[q].id \in Known
             /\ \A p \in Renewing : p # q => /\ reader[p].id # reader[q].id
                                            /\ reader[p].token.grant # t.grant
<1>1. q \in Renewing /\ q \notin Writing
  BY DEF Renewing, Writing
<1>2. reader[q].token \in Token /\ reader[q].token.generation \in Nat
  BY <1>1, Types
<1>3. /\ reader[q].token.grant \in Known /\ reader[q].id \in Known
      /\ \A p \in Renewing : p # q => /\ reader[p].id # reader[q].id
                                     /\ reader[p].token.grant # reader[q].token.grant
  BY <1>1 DEF IInv, NamesAreKnown, OneRenewal
<1>4. /\ reader[q].token.generation < expiries
      /\ reader[q].token.generation <= grants[reader[q].token.grant].generation
      /\ reader[q].token \in spent => reader[q].token \in stranded
  BY <1>1 DEF IInv, GenerationsAreCounted, SpentTokensAreReplaced
<1> QED BY <1>1, <1>2, <1>3, <1>4

\* The provider answers with the successor, which nobody else has.
LEMMA RotatesInv == ASSUME IInv, NEW q \in Readers, Rotates(q) PROVE IInv'
<1> DEFINE t == reader[q].token
           u == Successor(t)
           v == [pc |-> "write", id |-> reader[q].id, token |-> u]
<1>1. /\ reader[q].pc = "rotate" /\ IsCurrent(t) /\ Renewed(t) /\ Overtakes(t)
      /\ reused' = reused \union ({t} \intersect spent) /\ spent' = spent \union {t}
      /\ reader' = [reader EXCEPT ![q] = v]
      /\ UNCHANGED <<row, disconnect, expiries, faults, stranded, disowned, lapsed>>
  BY DEF Rotates, Spends, Presents, Becomes
<1>2. /\ q \in Renewing /\ q \notin Writing
      /\ t \in Token /\ t.grant \in Known /\ t.generation \in Nat
      /\ t.generation < expiries /\ grants[t.grant].generation = t.generation
      /\ t \in spent => t \in stranded
      /\ reader[q].id \in Known
      /\ \A p \in Renewing : p # q => /\ reader[p].id # reader[q].id
                                     /\ reader[p].token.grant # t.grant
  BY <1>1, OfRotating DEF IsCurrent
<1> DEFINE n == t.generation + 1
<1>3. n \in 0..MaxExpiries /\ n <= expiries /\ n >= 1 /\ n > t.generation
  BY <1>2, Types, ProviderCredentialsAssumption
<1>4. u = [t EXCEPT !.generation = n]
  BY DEF Successor
<1>5. /\ grants' \in Seq(Grant) /\ Len(grants') = Len(grants) /\ Known' = Known
      /\ \A h \in Known :
           /\ grants'[h].kind = grants[h].kind /\ grants'[h].live = grants[h].live
           /\ grants'[h].generation = IF h = t.grant THEN n ELSE grants[h].generation
  BY <1>1, <1>2, RenewedFacts
<1> HIDE DEF t, n
<1>6. u \in Token /\ u.grant = t.grant /\ u.generation = n
  BY <1>2, <1>3, <1>4 DEF Token
<1> HIDE DEF u
<1>7. v \in Reader /\ v.pc = "write" /\ v.id = reader[q].id /\ v.token = u
  BY <1>2, <1>6, Types DEF Reader, TokenOrNone
<1> HIDE DEF v
<1>8. /\ Renewing' = Renewing /\ Writing' = Writing \union {q}
      /\ reader'[q] = v
      /\ \A p \in Renewing \union Writing :
           p \in Readers /\ p \in Renewing /\ (p # q => reader'[p] = reader[p])
  BY <1>1, <1>2, <1>7, Types DEF Renewing, Writing
<1>9. overtaken \subseteq overtaken' /\ overtaken' \subseteq overtaken \union {t.grant}
      /\ (disconnect.pc # "idle" /\ disconnect.access.grant = t.grant => t.grant \in overtaken')
  BY <1>1 DEF Overtakes
<1>10. TypeOK'
  BY <1>1, <1>2, <1>5, <1>7, <1>9, Types DEF IInv, TypeOK, Known
<1>11. NamesAreKnown'
  BY <1>1, <1>2, <1>5, <1>6, <1>7, <1>8 DEF IInv, NamesAreKnown
<1>12. OneRenewal'
  BY <1>1, <1>2, <1>6, <1>7, <1>8, <1>5 DEF IInv, OneRenewal, t
<1>13. GenerationsAreCounted'
  <2>1. \A g \in Known' : grants'[g].generation <= expiries'
    BY <1>1, <1>3, <1>5 DEF IInv, GenerationsAreCounted
  <2>2. row' # NoRow => /\ row'.access.generation <= grants'[row'.access.grant].generation
                        /\ row'.expired => row'.access.generation < expiries'
    <3>1. row # NoRow => row.access.grant \in Known
      BY DEF IInv, NamesAreKnown
    <3>2. row # NoRow => /\ row.access.generation <= grants[row.access.grant].generation
                         /\ row.expired => row.access.generation < expiries
      BY DEF IInv, GenerationsAreCounted
    <3>3. row # NoRow => row.access.generation \in Nat
      BY Types
    <3>4. n \in Nat
      BY <1>3
    <3> QED BY <1>1, <1>2, <1>3, <1>5, <3>1, <3>2, <3>3, <3>4
  <2>3. ASSUME NEW p \in Renewing
        PROVE  LET x == reader'[p].token
               IN  /\ reader'[p].pc = "rotate" =>
                        x.generation < expiries' /\ x.generation <= grants'[x.grant].generation
                   /\ reader'[p].pc = "write" =>
                        x.generation >= 1 /\ x.generation = grants'[x.grant].generation
    <3>1. CASE p = q
      BY <1>2, <1>3, <1>5, <1>6, <1>7, <1>8, <3>1
    <3>2. CASE p # q
      <4>1. reader[p].token.grant \in Known /\ reader[p].token.grant # t.grant
        BY <1>2, <3>2 DEF IInv, NamesAreKnown
      <4> QED BY <1>1, <1>5, <1>8, <3>2, <4>1 DEF IInv, GenerationsAreCounted
    <3> QED BY <3>1, <3>2
  <2>4. ASSUME NEW x \in spent'
        PROVE  /\ x.generation <= grants'[x.grant].generation
               /\ x \notin stranded' => x.generation < grants'[x.grant].generation
    <3>1. CASE x = t
      BY <1>2, <1>3, <1>5, <3>1
    <3>2. CASE x \in spent
      <4>1. x.grant \in Known /\ x.generation \in Nat
        BY <3>2, Types DEF IInv, NamesAreKnown
      <4> QED BY <1>1, <1>2, <1>3, <1>5, <3>2, <4>1 DEF IInv, GenerationsAreCounted
    <3> QED BY <1>1, <3>1, <3>2
  <2> QED BY <1>8, <2>1, <2>2, <2>3, <2>4 DEF GenerationsAreCounted
<1>14. SpentTokensAreReplaced'
  <2>1. u \notin spent'
    <3>1. \A x \in spent : x.grant = t.grant => x.generation <= t.generation
      BY <1>2 DEF IInv, GenerationsAreCounted
    <3> QED BY <1>1, <1>2, <1>3, <1>6, <3>1, Types
  <2>2. \A p \in Renewing : p # q => (reader[p].token \in spent' => reader[p].token \in spent)
    BY <1>1, <1>2
  <2>3. row # NoRow /\ row.access \in spent' =>
           \/ row.access \in stranded
           \/ \E p \in Writing' : /\ reader'[p].id = row.id
                                  /\ reader'[p].token.grant = row.access.grant
                                  /\ reader'[p].token.generation = row.access.generation + 1
    <3>1. CASE row # NoRow /\ row.access = t
      <4>1. reader[q].id = row.id
        BY <1>2, <3>1 DEF IInv, OneRenewal, t
      <4> QED BY <1>6, <1>7, <1>8, <3>1, <4>1 DEF n
    <3>2. CASE row # NoRow /\ row.access \in spent
      BY <1>2, <1>8, <3>2 DEF IInv, SpentTokensAreReplaced
    <3> QED BY <1>1, <3>1, <3>2
  <2> QED BY <1>1, <1>7, <1>8, <2>1, <2>2, <2>3 DEF IInv, SpentTokensAreReplaced
<1>15. RowShowsItsGrant'
  BY <1>1, <1>2, <1>6, <1>7, <1>8, <1>9 DEF IInv, RowShowsItsGrant, t
<1>16. RowIsCurrent'
  <2>1. CASE row = NoRow
    BY <1>1, <2>1 DEF RowIsCurrent
  <2>2. CASE row # NoRow /\ row.grant = t.grant /\ row.grant \notin overtaken
    <3>1. reader[q].id = row.id
      BY <1>2, <2>2 DEF IInv, OneRenewal, RowShowsItsGrant, t
    <3> QED BY <1>1, <1>6, <1>7, <1>8, <2>2, <3>1 DEF RowIsCurrent
  <2>3. CASE row # NoRow /\ row.grant # t.grant
    <3>1. row.grant \in Known
      BY <2>3 DEF IInv, NamesAreKnown
    <3> QED BY <1>1, <1>2, <1>5, <1>8, <1>9, <2>3, <3>1 DEF IInv, RowIsCurrent, Lost
  <2>4. CASE row # NoRow /\ row.grant \in overtaken
    BY <1>1, <1>9, <2>4 DEF RowIsCurrent, Lost
  <2> QED BY <2>1, <2>2, <2>3, <2>4
<1>17. DisconnectKnowsTheGrant'
  <2>1. \A g \in Known : (Gone(g) => Gone(g)') /\ (Lost(g) => Lost(g)')
    BY <1>1, <1>5, <1>9 DEF Gone, Lost, Lapsed
  <2>2. \A g \in Known : g = t.grant /\ disconnect.pc # "idle" /\ disconnect.access.grant = g
                           => Lost(g)'
    BY <1>9 DEF Lost
  <2>3. disconnect.pc # "idle" /\ row.id = disconnect.id => row.grant \in Known
    BY ProviderCredentialsAssumption DEF IInv, NamesAreKnown, NoRow, Known
  <2>4. disowned \subseteq Known
    BY DEF IInv, NamesAreKnown
  <2> QED BY <1>1, <1>5, <2>1, <2>2, <2>3, <2>4 DEF IInv, DisconnectKnowsTheGrant
<1>18. reused' \subseteq stranded'
  BY <1>1, <1>2 DEF IInv
<1>19. KindsAreKnown'
  BY <1>1, <1>5 DEF IInv, NamesAreKnown, KindsAreKnown
<1> QED BY <1>10, <1>11, <1>12, <1>13, <1>14, <1>15, <1>16, <1>17, <1>18, <1>19 DEF IInv

\* Faults are bounded.
LEMMA FaultCounted == ASSUME IInv, Fault PROVE faults' \in 0..MaxFaults
  BY ProviderCredentialsAssumption DEF Fault, IInv, TypeOK

\* No answer: whether the provider has renewed the grant or not, the token counts as
\* lost.
LEMMA LosesAnswerInv == ASSUME IInv, NEW q \in Readers, LosesAnswer(q) PROVE IInv'
<1> DEFINE t == reader[q].token
<1>1. /\ reader[q].pc = "rotate" /\ faults' \in 0..MaxFaults
      /\ UNCHANGED grants \/ (IsCurrent(t) /\ Renewed(t))
      /\ reused' = reused \union ({t} \intersect spent) /\ spent' = spent \union {t}
      /\ stranded' = stranded \union {t}
      /\ reader' = [reader EXCEPT ![q] = IdleReader]
      /\ UNCHANGED <<row, disconnect, expiries, overtaken, disowned, lapsed>>
  BY FaultCounted DEF LosesAnswer, Spends, Presents, Ends
<1>2. /\ q \in Renewing /\ q \notin Writing
      /\ t \in Token /\ t.grant \in Known /\ t.generation \in Nat
      /\ t.generation < expiries /\ t.generation <= grants[t.grant].generation
      /\ t \in spent => t \in stranded
      /\ \A p \in Renewing : p # q => reader[p].token.grant # t.grant
  BY <1>1, OfRotating
<1>3. /\ grants' \in Seq(Grant) /\ Len(grants') = Len(grants) /\ Known' = Known
      /\ \A h \in Known :
           /\ grants'[h].kind = grants[h].kind /\ grants'[h].live = grants[h].live
           /\ h # t.grant => grants'[h].generation = grants[h].generation
           /\ grants'[h].generation >= grants[h].generation
           /\ grants'[h].generation <= expiries
           /\ grants'[h].generation \in Nat
  <2>1. CASE UNCHANGED grants
    BY <2>1, Types DEF Known, IInv, GenerationsAreCounted
  <2>2. CASE IsCurrent(t) /\ Renewed(t)
    <3>1. grants[t.grant].generation < expiries
      BY <1>2, <2>2 DEF IsCurrent
    <3>2. /\ grants' \in Seq(Grant) /\ Len(grants') = Len(grants) /\ Known' = Known
          /\ \A h \in Known :
              /\ grants'[h].kind = grants[h].kind /\ grants'[h].live = grants[h].live
              /\ grants'[h].generation = IF h = t.grant THEN grants[h].generation + 1
                                         ELSE grants[h].generation
      BY <1>2, <2>2, <3>1, RenewedFacts
    <3>3. \A h \in Known : grants[h].generation <= expiries /\ grants[h].generation \in Nat
      BY Types DEF IInv, GenerationsAreCounted
    <3>4. expiries \in Nat
      BY Types
    <3> HIDE DEF t
    <3> QED BY <3>1, <3>2, <3>3, <3>4
  <2> QED BY <1>1, <2>1, <2>2
<1> HIDE DEF t
<1>4. /\ Renewing' = Renewing \ {q} /\ Writing' = Writing
      /\ \A p \in Renewing' \union Writing' :
           p \in Readers /\ p \in Renewing /\ p # q /\ reader'[p] = reader[p]
  BY <1>1, <1>2, Types DEF Renewing, Writing, IdleReader
<1>5. TypeOK'
  BY <1>1, <1>2, <1>3, IdleFacts, Types DEF IInv, TypeOK
<1>6. NamesAreKnown'
  BY <1>1, <1>2, <1>3, <1>4 DEF IInv, NamesAreKnown
<1>7. OneRenewal'
  BY <1>1, <1>4 DEF IInv, OneRenewal
<1>8. GenerationsAreCounted'
  <2>1. \A g \in Known' : grants'[g].generation <= expiries'
    BY <1>1, <1>3
  <2>2. row' # NoRow => /\ row'.access.generation <= grants'[row'.access.grant].generation
                        /\ row'.expired => row'.access.generation < expiries'
    <3>1. row # NoRow => /\ row.access.generation <= grants[row.access.grant].generation
                         /\ row.expired => row.access.generation < expiries
      BY DEF IInv, GenerationsAreCounted
    <3>2. row # NoRow => row.access.generation \in Nat /\ row.access.grant \in Known
      BY Types DEF IInv, NamesAreKnown
    <3>3. \A h \in Known : grants[h].generation \in Nat
      BY Types
    <3> QED BY <1>1, <1>3, <3>1, <3>2, <3>3
  <2>3. ASSUME NEW p \in Renewing'
        PROVE  LET x == reader'[p].token
               IN  /\ reader'[p].pc = "rotate" =>
                        x.generation < expiries' /\ x.generation <= grants'[x.grant].generation
                   /\ reader'[p].pc = "write" =>
                        x.generation >= 1 /\ x.generation = grants'[x.grant].generation
    <3>1. reader[p].token.grant \in Known /\ reader[p].token.grant # t.grant
      BY <1>2, <1>4 DEF IInv, NamesAreKnown
    <3> QED BY <1>1, <1>3, <1>4, <3>1 DEF IInv, GenerationsAreCounted
  <2>4. ASSUME NEW x \in spent'
        PROVE  /\ x.generation <= grants'[x.grant].generation
               /\ x \notin stranded' => x.generation < grants'[x.grant].generation
    <3>1. x.grant \in Known /\ x.generation \in Nat
      BY <1>1, <1>2, Types DEF IInv, NamesAreKnown
    <3>2. x.generation <= grants[x.grant].generation
      BY <1>1, <1>2 DEF IInv, GenerationsAreCounted
    <3>3. x \notin stranded' => x.generation < grants[x.grant].generation
      BY <1>1 DEF IInv, GenerationsAreCounted
    <3>4. grants[x.grant].generation \in Nat
      BY <3>1, Types
    <3> QED BY <1>3, <3>1, <3>2, <3>3, <3>4
  <2> QED BY <2>1, <2>2, <2>3, <2>4 DEF GenerationsAreCounted
<1>9. SpentTokensAreReplaced'
  <2>1. \A p \in Renewing' : reader'[p].token # t
    BY <1>2, <1>4
  <2> QED BY <1>1, <1>4, <2>1 DEF IInv, SpentTokensAreReplaced
<1>10. RowShowsItsGrant'
  BY <1>1, <1>4 DEF IInv, RowShowsItsGrant
<1>11. RowIsCurrent'
  <2>1. row # NoRow => row.grant \in Known
    BY DEF IInv, NamesAreKnown
  <2>2. row.grant = t.grant => Lost(row.grant)'
    BY <1>1 DEF Lost
  <2> QED BY <1>1, <1>3, <1>4, <2>1, <2>2 DEF IInv, RowIsCurrent, Lost
<1>12. DisconnectKnowsTheGrant'
  <2>1. \A g \in Known : (Gone(g) => Gone(g)') /\ (Lost(g) => Lost(g)')
    BY <1>1, <1>3 DEF Gone, Lost, Lapsed
  <2>2. row.grant = t.grant => Lost(row.grant)'
    BY <1>1 DEF Lost
  <2>3. disconnect.pc # "idle" /\ row.id = disconnect.id => row.grant \in Known
    BY ProviderCredentialsAssumption DEF IInv, NamesAreKnown, NoRow, Known
  <2>4. disowned \subseteq Known
    BY DEF IInv, NamesAreKnown
  <2> QED BY <1>1, <1>3, <2>1, <2>2, <2>3, <2>4 DEF IInv, DisconnectKnowsTheGrant
<1>13. reused' \subseteq stranded'
  BY <1>1, <1>2 DEF IInv
<1>14. KindsAreKnown'
  BY <1>1, <1>3 DEF IInv, NamesAreKnown, KindsAreKnown
<1> QED BY <1>5, <1>6, <1>7, <1>8, <1>9, <1>10, <1>11, <1>12, <1>13, <1>14 DEF IInv

\* What holds of a request that has an answer.
LEMMA OfWriting ==
  ASSUME IInv, NEW q \in Readers, reader[q].pc = "write"
  PROVE  LET u == reader[q].token
         IN  /\ q \in Renewing /\ q \in Writing
             /\ u \in Token /\ u.grant \in Known /\ u.generation \in Nat
             /\ u.generation >= 1 /\ u.generation = grants[u.grant].generation
             /\ u.generation <= expiries
             /\ u \notin spent
             /\ reader[q].id \in Known
             /\ \A p \in Renewing : p # q => /\ reader[p].id # reader[q].id
                                            /\ reader[p].token.grant # u.grant
<1>1. q \in Renewing /\ q \in Writing
  BY DEF Renewing, Writing
<1>2. reader[q].token \in Token /\ reader[q].token.generation \in Nat
  BY <1>1, Types
<1>3. /\ reader[q].token.grant \in Known /\ reader[q].id \in Known
      /\ \A p \in Renewing : p # q => /\ reader[p].id # reader[q].id
                                     /\ reader[p].token.grant # reader[q].token.grant
  BY <1>1 DEF IInv, NamesAreKnown, OneRenewal
<1>4. /\ reader[q].token.generation >= 1
      /\ reader[q].token.generation = grants[reader[q].token.grant].generation
      /\ reader[q].token \notin spent
  BY <1>1 DEF IInv, GenerationsAreCounted, SpentTokensAreReplaced
<1>5. reader[q].token.generation <= expiries
  BY <1>3, <1>4 DEF IInv, GenerationsAreCounted
<1> QED BY <1>1, <1>2, <1>3, <1>4, <1>5

\* The successor is stored in the row that showed the token, if it is still there.
LEMMA WritesInv == ASSUME IInv, NEW q \in Readers, Writes(q) PROVE IInv'
<1> USE DEF history, tokens
<1> DEFINE u == reader[q].token
<1>1. /\ reader[q].pc = "write"
      /\ row' = IF row.id = reader[q].id THEN Stores(u) ELSE row
      /\ reader' = [reader EXCEPT ![q] = IdleReader]
      /\ UNCHANGED <<grants, disconnect, expiries, faults, history>>
  BY DEF Writes, Ends, HasItsRow
<1>2. /\ q \in Renewing /\ q \in Writing
      /\ u \in Token /\ u.grant \in Known /\ u.generation \in Nat
      /\ u.generation >= 1 /\ u.generation = grants[u.grant].generation
      /\ u.generation <= expiries
      /\ u \notin spent
      /\ reader[q].id \in Known
      /\ \A p \in Renewing : p # q => /\ reader[p].id # reader[q].id
                                     /\ reader[p].token.grant # u.grant
  BY <1>1, OfWriting
<1>3. row.id = reader[q].id => row # NoRow /\ row \in Row
  BY <1>2, Types, ProviderCredentialsAssumption DEF NoRow, Known
<1>4. row.id = reader[q].id =>
        /\ row' \in Row /\ row'.id = row.id /\ row'.grant = row.grant /\ row'.access = u
        /\ row'.refresh = u /\ row'.expired = FALSE /\ row' # NoRow
  <2>1. CASE row.id = reader[q].id
    <3>1. row' = [row EXCEPT !.access = u, !.refresh = u, !.expired = FALSE]
      BY <1>1, <2>1 DEF Stores
    <3>2. row \in Row /\ u \in Token
      BY <1>2, <1>3, <2>1
    <3> HIDE DEF u
    <3>3. /\ row' \in Row /\ row'.id = row.id /\ row'.grant = row.grant /\ row'.access = u
          /\ row'.refresh = u /\ row'.expired = FALSE
      BY <3>1, <3>2 DEF Row, TokenOrNone
    <3>4. row' # NoRow
      BY <3>3, ProviderCredentialsAssumption DEF Row, NoRow, Grants
    <3> QED BY <3>3, <3>4
  <2> QED BY <2>1
<1> HIDE DEF u
<1>5. /\ Renewing' = Renewing \ {q} /\ Writing' = Writing \ {q} /\ Known' = Known
      /\ \A p \in Renewing' \union Writing' :
           p \in Readers /\ p \in Renewing /\ p # q /\ reader'[p] = reader[p]
  BY <1>1, <1>2, Types DEF Renewing, Writing, IdleReader, Known
<1>6. TypeOK'
  BY <1>1, <1>4, IdleFacts DEF IInv, TypeOK
<1>7. NamesAreKnown'
  BY <1>1, <1>2, <1>3, <1>4, <1>5 DEF IInv, NamesAreKnown
<1>8. OneRenewal'
  BY <1>1, <1>2, <1>3, <1>4, <1>5 DEF IInv, OneRenewal
<1>9. GenerationsAreCounted'
  <2>1. row' # NoRow => /\ row'.access.generation <= grants'[row'.access.grant].generation
                        /\ row'.expired => row'.access.generation < expiries'
    BY <1>1, <1>2, <1>4 DEF IInv, GenerationsAreCounted
  <2> QED BY <1>1, <1>5, <2>1 DEF IInv, GenerationsAreCounted
<1>10. SpentTokensAreReplaced'
  <2>1. CASE row.id = reader[q].id
    BY <1>1, <1>2, <1>4, <1>5, <2>1 DEF IInv, SpentTokensAreReplaced
  <2>2. CASE row.id # reader[q].id
    BY <1>1, <1>2, <1>5, <2>2 DEF IInv, SpentTokensAreReplaced
  <2> QED BY <2>1, <2>2
<1>11. RowShowsItsGrant'
  BY <1>1, <1>2, <1>3, <1>4, <1>5 DEF IInv, RowShowsItsGrant, u
<1>12. RowIsCurrent'
  <2>1. CASE row.id = reader[q].id
    <3>1. u.grant = row.grant \/ row.grant \in overtaken
      BY <1>2, <2>1 DEF IInv, RowShowsItsGrant, u
    <3> QED BY <1>1, <1>2, <1>4, <2>1, <3>1 DEF RowIsCurrent, Lost
  <2>2. CASE row.id # reader[q].id
    BY <1>1, <1>2, <1>5, <2>2 DEF IInv, RowIsCurrent, Lost
  <2> QED BY <2>1, <2>2
<1>13. DisconnectKnowsTheGrant'
  <2>1. row'.id = row.id /\ row'.grant = row.grant
    BY <1>1, <1>4
  <2> QED BY <1>1, <2>1 DEF IInv, DisconnectKnowsTheGrant, Gone, Lost, Lapsed
<1>14. reused' \subseteq stranded'
  BY <1>1 DEF IInv
<1>15. KindsAreKnown'
  BY <1>1, <1>2, <1>4, NoToken DEF IInv, KindsAreKnown
<1> QED BY <1>6, <1>7, <1>8, <1>9, <1>10, <1>11, <1>12, <1>13, <1>14, <1>15 DEF IInv

\* The answer is lost, and with it what the grant had to offer.
LEMMA DiesInv == ASSUME IInv, NEW q \in Readers, Dies(q) PROVE IInv'
<1> DEFINE u == reader[q].token
           t == [u EXCEPT !.generation = @ - 1]
<1>1. /\ reader[q].pc = "write" /\ faults' \in 0..MaxFaults
      /\ stranded' = stranded \union {t}
      /\ reader' = [reader EXCEPT ![q] = IdleReader]
      /\ UNCHANGED <<row, grants, disconnect, expiries, spent, reused, overtaken, disowned,
                     lapsed>>
  BY FaultCounted DEF Dies, Ends
<1>2. /\ q \in Renewing /\ q \in Writing
      /\ u \in Token /\ u.grant \in Known /\ u.generation \in Nat
      /\ u.generation >= 1 /\ u.generation <= expiries
      /\ \A p \in Renewing : p # q => /\ reader[p].id # reader[q].id
                                     /\ reader[p].token.grant # u.grant
  BY <1>1, OfWriting
<1> DEFINE n == u.generation - 1
<1>3. n \in 0..MaxExpiries /\ n + 1 = u.generation
  BY <1>2, Types, ProviderCredentialsAssumption
<1>4. t = [u EXCEPT !.generation = n]
  OBVIOUS
<1> HIDE DEF u, n, t
<1>5. t \in Token /\ t.grant = u.grant /\ t.generation = n
  BY <1>2, <1>3, <1>4 DEF Token
<1>6. /\ Renewing' = Renewing \ {q} /\ Writing' = Writing \ {q} /\ Known' = Known
      /\ \A p \in Renewing' \union Writing' :
           p \in Readers /\ p \in Renewing /\ p # q /\ reader'[p] = reader[p]
  BY <1>1, <1>2, Types DEF Renewing, Writing, IdleReader, Known
<1>7. TypeOK'
  BY <1>1, <1>5, IdleFacts DEF IInv, TypeOK
<1>8. NamesAreKnown' /\ OneRenewal'
  BY <1>1, <1>6 DEF IInv, NamesAreKnown, OneRenewal
<1>9. GenerationsAreCounted'
  BY <1>1, <1>6 DEF IInv, GenerationsAreCounted
<1>10. SpentTokensAreReplaced'
  <2>1. row # NoRow /\ row.access \in spent =>
           \/ row.access \in stranded'
           \/ \E p \in Writing' : /\ reader'[p].id = row.id
                                  /\ reader'[p].token.grant = row.access.grant
                                  /\ reader'[p].token.generation = row.access.generation + 1
    <3>1. CASE /\ row # NoRow /\ row.access.grant = u.grant
               /\ u.generation = row.access.generation + 1
      <4>1. row.access \in Token /\ row.access.generation \in Nat
        BY <3>1, Types
      <4>2. row.access.generation = n
        BY <1>2, <1>3, <3>1, <4>1
      <4>3. row.access = t
        BY <1>5, <3>1, <4>1, <4>2 DEF Token
      <4> QED BY <1>1, <4>3
    <3>2. CASE /\ row # NoRow /\ row.access \in spent
               /\ ~(row.access.grant = u.grant /\ u.generation = row.access.generation + 1)
      BY <1>1, <1>6, <3>2 DEF IInv, SpentTokensAreReplaced, u
    <3> QED BY <3>1, <3>2
  <2> QED BY <1>1, <1>6, <2>1 DEF IInv, SpentTokensAreReplaced
<1>11. RowShowsItsGrant'
  BY <1>1, <1>6 DEF IInv, RowShowsItsGrant
<1>12. RowIsCurrent'
  <2>1. u.grant = row.grant => Lost(row.grant)'
    BY <1>1, <1>5 DEF Lost
  <2> QED BY <1>1, <1>6, <2>1 DEF IInv, RowIsCurrent, Lost, u
<1>13. DisconnectKnowsTheGrant' /\ KindsAreKnown' /\ reused' \subseteq stranded'
  BY <1>1 DEF IInv, DisconnectKnowsTheGrant, KindsAreKnown, Gone, Lost, Lapsed
<1> QED BY <1>7, <1>8, <1>9, <1>10, <1>11, <1>12, <1>13 DEF IInv

-----------------------------------------------------------------------------
(* The reviewer connects and disconnects, and time passes.                 *)

\* A new grant is unknown to everybody, and replaces what the row shows.
LEMMA ConnectsInv ==
  ASSUME IInv, NEW kind \in Kinds, Connects(kind)
  PROVE  IInv'
<1> USE DEF tokens
<1> DEFINE g == Len(grants) + 1
           t == [grant |-> g, generation |-> 0]
           new == [kind |-> kind, generation |-> 0, live |-> TRUE, ended |-> FALSE]
           id == IF row = NoRow THEN g ELSE row.id
           refresh == IF kind \in OAuthKinds THEN t ELSE None
           busy == {reader[q].id : q \in Renewing} \union {disconnect.id}
<1>1. /\ g \in Grants
      /\ grants' = Append(grants, new)
      /\ row' = [id |-> id, grant |-> g, access |-> t, refresh |-> refresh, expired |-> FALSE]
      /\ overtaken' = IF row # NoRow /\ row.id \in busy THEN overtaken \union {g} ELSE overtaken
      /\ UNCHANGED <<reader, disconnect, expiries, faults, tokens, disowned, lapsed>>
  BY DEF Connects
<1>2. /\ g \notin Known /\ g \in Nat /\ Known \subseteq Grants
      /\ t \in Token /\ t.grant = g /\ t.generation = 0
  BY <1>1, Types, ProviderCredentialsAssumption DEF Known, Grants, Token
<1>3. new \in Grant /\ new.generation = 0 /\ new.kind = kind
  BY ProviderCredentialsAssumption DEF Grant
<1>4. /\ grants' \in Seq(Grant) /\ Len(grants') = g /\ Known' = Known \union {g}
      /\ \A h \in Known : grants'[h] = grants[h]
      /\ grants'[g].generation = 0 /\ grants'[g].kind = kind
  <2>1. /\ grants' \in Seq(Grant) /\ Len(grants') = g
        /\ \A h \in Known : grants'[h] = grants[h]
        /\ grants'[g] = new
    BY <1>1, <1>3, Types, AppendProperties DEF Known
  <2>2. Known' = Known \union {g}
    BY <2>1, Types DEF Known
  <2> QED BY <1>3, <2>1, <2>2
<1> HIDE DEF new, t, g
<1>5. /\ id \in Grants /\ refresh \in TokenOrNone /\ refresh \in {None, t}
      /\ refresh = None => kind = "pat"
  BY <1>1, <1>2, Types, NoToken DEF Row, TokenOrNone, Kinds
<1>6. id \in Known' /\ (row # NoRow => id = row.id /\ id \in Known) /\ (row = NoRow => id = g)
  BY <1>4 DEF IInv, NamesAreKnown
<1> HIDE DEF id, refresh
<1>7. /\ row' \in Row /\ row'.id = id /\ row'.grant = g /\ row'.access = t
      /\ row'.refresh = refresh /\ row'.expired = FALSE /\ row' # NoRow
  <2>1. /\ row' \in Row /\ row'.id = id /\ row'.grant = g /\ row'.access = t
        /\ row'.refresh = refresh /\ row'.expired = FALSE
    BY <1>1, <1>2, <1>5 DEF Row
  <2> QED BY <2>1, ProviderCredentialsAssumption DEF Row, NoRow, Grants
<1>8. Renewing' = Renewing /\ Writing' = Writing
  BY <1>1 DEF Renewing, Writing
<1>9. \A q \in Renewing : reader[q].token.grant \in Known /\ reader[q].id \in Known
  BY DEF IInv, NamesAreKnown
<1>10. overtaken \subseteq overtaken' /\ overtaken' \subseteq overtaken \union {g}
  BY <1>1
<1>11. TypeOK'
  <2>1. Len(grants') <= MaxGrants
    BY <1>1, <1>4 DEF Grants
  <2> QED BY <1>1, <1>4, <1>5, <1>7, <1>10, <2>1 DEF IInv, TypeOK
<1>12. NamesAreKnown'
  BY <1>1, <1>2, <1>4, <1>6, <1>7, <1>8 DEF IInv, NamesAreKnown
<1>13. OneRenewal'
  BY <1>1, <1>2, <1>7, <1>8, <1>9 DEF IInv, OneRenewal
<1>14. GenerationsAreCounted'
  <2>1. \A h \in Known' : grants'[h].generation <= expiries'
    <3>1. expiries \in Nat /\ \A h \in Known : grants[h].generation <= expiries
      BY Types DEF IInv, GenerationsAreCounted
    <3>2. expiries' = expiries
      BY <1>1
    <3> QED BY <1>4, <3>1, <3>2
  <2>2. row'.access.generation <= grants'[row'.access.grant].generation
    BY <1>2, <1>4, <1>7
  <2>3. \A x \in spent : x.grant \in Known
    BY DEF IInv, NamesAreKnown
  <2> QED BY <1>1, <1>4, <1>7, <1>8, <1>9, <2>1, <2>2, <2>3 DEF IInv, GenerationsAreCounted
<1>15. SpentTokensAreReplaced'
  <2>1. t \notin spent
    BY <1>2 DEF IInv, NamesAreKnown
  <2> QED BY <1>1, <1>7, <1>8, <2>1 DEF IInv, SpentTokensAreReplaced
<1>16. RowShowsItsGrant'
  <2>1. ASSUME NEW q \in Renewing, reader[q].id = id PROVE g \in overtaken'
    BY <1>1, <1>2, <1>6, <1>9, <2>1
  <2> QED BY <1>1, <1>2, <1>7, <1>8, <2>1 DEF RowShowsItsGrant
<1>17. RowIsCurrent'
  BY <1>2, <1>4, <1>7 DEF RowIsCurrent
<1>18. DisconnectKnowsTheGrant'
  <2>1. disconnect.pc # "idle" /\ disconnect.id = id => g \in overtaken'
    BY <1>1, <1>2, <1>6 DEF IInv, NamesAreKnown
  <2>2. \A h \in Known : Gone(h) => Gone(h)'
    BY <1>1, <1>4, <1>10 DEF Gone, Lost, Lapsed
  <2>3. disowned \subseteq Known
    BY DEF IInv, NamesAreKnown
  <2> QED BY <1>1, <1>7, <2>1, <2>2, <2>3 DEF IInv, DisconnectKnowsTheGrant, Gone, Lost, Lapsed
<1>19. reused' \subseteq stranded'
  BY <1>1 DEF IInv
<1>20. KindsAreKnown'
  BY <1>1, <1>4, <1>5, <1>7 DEF IInv, KindsAreKnown
<1> QED BY <1>11, <1>12, <1>13, <1>14, <1>15, <1>16, <1>17, <1>18, <1>19, <1>20 DEF IInv

\* An expiry is one more, and of the token that the row shows.
LEMMA ExpiresInv == ASSUME IInv, Expires PROVE IInv'
<1> USE DEF history, tokens
<1> DEFINE n == expiries + 1
<1>1. /\ row # NoRow /\ row' = [row EXCEPT !.expired = TRUE] /\ expiries' = n
      /\ expiries < MaxExpiries
      /\ UNCHANGED <<reader, disconnect, faults, history>>
      /\ UNCHANGED grants \/ grants' = [grants EXCEPT ![row.access.grant].ended = TRUE]
  BY DEF Expires
<1>2. n \in 0..MaxExpiries /\ n > expiries /\ n \in Nat /\ expiries \in Nat
  BY <1>1, Types, ProviderCredentialsAssumption
<1> HIDE DEF n
<1>3. /\ row' \in Row /\ row'.id = row.id /\ row'.grant = row.grant /\ row'.access = row.access
      /\ row'.refresh = row.refresh /\ row' # NoRow
  <2>1. /\ row' \in Row /\ row'.id = row.id /\ row'.grant = row.grant
        /\ row'.access = row.access /\ row'.refresh = row.refresh
    BY <1>1, Types DEF Row
  <2> QED BY <2>1, ProviderCredentialsAssumption DEF Row, NoRow, Grants
<1>4. /\ grants' \in Seq(Grant) /\ Len(grants') = Len(grants) /\ Known' = Known
      /\ \A h \in Known : /\ grants'[h].kind = grants[h].kind
                          /\ grants'[h].generation = grants[h].generation
                          /\ grants'[h].live = grants[h].live
  <2> DEFINE g == row.access.grant
             x == [grants[g] EXCEPT !.ended = TRUE]
  <2>1. CASE UNCHANGED grants
    BY <2>1, Types DEF Known
  <2>2. CASE grants' = [grants EXCEPT ![g].ended = TRUE]
    <3>1. grants' = [grants EXCEPT ![g] = x]
      BY <2>2
    <3>2. g \in Known
      BY <1>1 DEF IInv, NamesAreKnown
    <3>3. /\ x \in Grant /\ x.kind = grants[g].kind /\ x.live = grants[g].live
          /\ x.generation = grants[g].generation
      BY <3>2, Types DEF Grant
    <3> HIDE DEF g, x
    <3>4. /\ grants' \in Seq(Grant) /\ Len(grants') = Len(grants) /\ Known' = Known
          /\ \A h \in Known : grants'[h] = IF h = g THEN x ELSE grants[h]
      BY <3>1, <3>2, <3>3, Types, OneGrantChanges
    <3> QED BY <3>3, <3>4
  <2> QED BY <1>1, <2>1, <2>2
<1>5. Renewing' = Renewing /\ Writing' = Writing /\ Known' = Known
  BY <1>1, <1>4 DEF Renewing, Writing
<1>6. TypeOK'
  BY <1>1, <1>2, <1>3, <1>4 DEF IInv, TypeOK
<1>7. NamesAreKnown' /\ OneRenewal' /\ KindsAreKnown'
  BY <1>1, <1>3, <1>5, <1>4 DEF IInv, NamesAreKnown, OneRenewal, KindsAreKnown
<1>8. GenerationsAreCounted'
  <2>1. \A g \in Known : grants[g].generation \in Nat /\ grants[g].generation <= expiries
    BY Types DEF IInv, GenerationsAreCounted
  <2>2. \A g \in Known : grants[g].generation <= n /\ grants[g].generation < n
    BY <1>2, <2>1
  <2>3. row.access.generation < n
    <3>1. row.access.generation <= grants[row.access.grant].generation
          /\ row.access.grant \in Known /\ row.access.generation \in Nat
      BY <1>1, Types DEF IInv, GenerationsAreCounted, NamesAreKnown
    <3> QED BY <1>2, <2>1, <3>1
  <2>4. \A q \in Renewing : reader[q].pc = "rotate" => reader[q].token.generation < n
    <3>1. \A q \in Renewing : reader[q].token.generation \in Nat
      BY Types
    <3> QED BY <1>2, <3>1 DEF IInv, GenerationsAreCounted
  <2> QED BY <1>1, <1>3, <1>5, <1>4, <2>2, <2>3, <2>4 DEF IInv, NamesAreKnown,
             GenerationsAreCounted
<1>9. SpentTokensAreReplaced' /\ RowShowsItsGrant' /\ RowIsCurrent'
  BY <1>1, <1>3, <1>5, <1>4 DEF IInv, NamesAreKnown, SpentTokensAreReplaced, RowShowsItsGrant,
     RowIsCurrent, Lost
<1>10. DisconnectKnowsTheGrant' /\ reused' \subseteq stranded'
  <2>1. \A g \in Known : (Gone(g) => Gone(g)') /\ (Lost(g) <=> Lost(g)')
    BY <1>1, <1>4 DEF Gone, Lost, Lapsed
  <2>2. row.grant \in Known /\ disowned \subseteq Known
    BY <1>1 DEF IInv, NamesAreKnown
  <2> QED BY <1>1, <1>3, <1>4, <2>1, <2>2 DEF IInv, DisconnectKnowsTheGrant
<1> QED BY <1>6, <1>7, <1>8, <1>9, <1>10 DEF IInv

\* A disconnection that begins knows the grant of the row, and revokes it, then deletes
\* the row.
LEMMA StartsDisconnectInv == ASSUME IInv, StartsDisconnect PROVE IInv'
<1> USE DEF tokens
<1> DEFINE d == [pc |-> "revoke", id |-> row.id, kind |-> grants[row.grant].kind,
                 access |-> row.access, refresh |-> row.refresh, revoked |-> FALSE]
           taken == {row.grant} \intersect {reader[q].token.grant : q \in Renewing}
<1>1. /\ row # NoRow /\ disconnect' = d /\ overtaken' = overtaken \union taken
      /\ UNCHANGED <<row, grants, reader, expiries, faults, tokens, disowned, lapsed>>
  BY DEF StartsDisconnect
<1>2. /\ row \in Row /\ row.access \in Token /\ grants[row.grant].kind \in Kinds
      /\ row.refresh \in {None, row.access}
  <2>1. row.grant \in Known /\ row.refresh \in {None, row.access}
    BY <1>1 DEF IInv, TypeOK, NamesAreKnown
  <2> QED BY <1>1, <2>1, Types DEF Grant
<1>3. /\ d \in Disconnect /\ d.pc = "revoke" /\ d.id = row.id /\ d.access = row.access
      /\ d.kind = grants[row.grant].kind /\ d.refresh = row.refresh /\ ~d.revoked
  BY <1>2 DEF Disconnect, Row, TokenOrNone
<1> HIDE DEF d
<1>4. taken \subseteq Grants
  BY <1>2 DEF Row
<1>5. Renewing' = Renewing /\ Writing' = Writing /\ Known' = Known /\ overtaken \subseteq overtaken'
  BY <1>1 DEF Renewing, Writing, Known
<1>6. Writing \subseteq Renewing
  BY DEF Writing, Renewing
<1>7. TypeOK'
  BY <1>1, <1>3, <1>4 DEF IInv, TypeOK
<1>8. NamesAreKnown' /\ KindsAreKnown' /\ OneRenewal'
  BY <1>1, <1>2, <1>3, <1>5 DEF IInv, NamesAreKnown, KindsAreKnown, OneRenewal
<1>9. GenerationsAreCounted' /\ SpentTokensAreReplaced'
  BY <1>1, <1>5 DEF IInv, GenerationsAreCounted, SpentTokensAreReplaced
<1>10. RowShowsItsGrant' /\ RowIsCurrent'
  BY <1>1, <1>5 DEF IInv, RowShowsItsGrant, RowIsCurrent, Lost
<1>11. DisconnectKnowsTheGrant'
  <2>1. \/ Lost(row.grant)'
        \/ /\ row.access.grant = row.grant
           /\ row.access.generation = grants[row.grant].generation
    <3>1. CASE \E q \in Writing : reader[q].token.grant = row.grant
      BY <1>1, <1>6, <3>1 DEF Lost
    <3>2. CASE ~ \E q \in Writing : reader[q].token.grant = row.grant
      BY <1>1, <1>5, <3>2 DEF IInv, RowIsCurrent, RowShowsItsGrant, Lost
    <3> QED BY <3>1, <3>2
  <2>2. \A g \in disowned : Gone(g)'
    BY <1>1, <1>5 DEF IInv, DisconnectKnowsTheGrant, Gone, Lost, Lapsed
  <2> QED BY <1>1, <1>3, <2>1, <2>2 DEF DisconnectKnowsTheGrant
<1>12. reused' \subseteq stranded'
  BY <1>1 DEF IInv
<1> QED BY <1>7, <1>8, <1>9, <1>10, <1>11, <1>12 DEF IInv

\* A step of the revocation ends a grant or none: it keeps all but what it says of the
\* disconnection.
LEMMA RevokingFacts ==
  ASSUME IInv, NEW t \in Token, t.grant \in Known, Kills(t) \/ UNCHANGED grants
  PROVE  /\ grants' \in Seq(Grant) /\ Len(grants') = Len(grants) /\ Known' = Known
         /\ \A h \in Known : /\ grants'[h].kind = grants[h].kind
                             /\ grants'[h].generation = grants[h].generation
                             /\ ~grants[h].live => ~grants'[h].live
         /\ Kills(t) => ~grants'[t.grant].live
<1> DEFINE x == [grants[t.grant] EXCEPT !.live = FALSE]
<1>1. CASE Kills(t)
  <2>1. grants' = [grants EXCEPT ![t.grant] = x]
    BY <1>1 DEF Kills
  <2>2. /\ x \in Grant /\ x.kind = grants[t.grant].kind /\ ~x.live
        /\ x.generation = grants[t.grant].generation
    BY Types DEF Grant
  <2> HIDE DEF x
  <2>3. /\ grants' \in Seq(Grant) /\ Len(grants') = Len(grants) /\ Known' = Known
        /\ \A h \in Known : grants'[h] = IF h = t.grant THEN x ELSE grants[h]
    BY <2>1, <2>2, Types, OneGrantChanges
  <2> QED BY <2>2, <2>3
<1>2. CASE UNCHANGED grants /\ ~Kills(t)
  BY <1>2, Types DEF Known
<1> QED BY <1>1, <1>2

\* So it keeps all of the invariant that is not of the disconnection.
LEMMA RevokingKeeps ==
  ASSUME IInv, disconnect' \in Disconnect, faults' \in 0..MaxFaults,
         disconnect.pc # "idle", disconnect'.id = disconnect.id,
         disconnect'.kind = disconnect.kind, disconnect'.access = disconnect.access,
         disconnect'.refresh = disconnect.refresh,
         disconnect'.pc = "refresh" => disconnect'.kind = "oauth",
         Kills(disconnect.access) \/ UNCHANGED grants,
         lapsed' \subseteq Grants, lapsed \subseteq lapsed',
         UNCHANGED <<row, reader, expiries, tokens, overtaken, disowned>>,
         DisconnectKnowsTheGrant'
  PROVE  IInv'
<1> USE DEF tokens
<1>1. disconnect.access \in Token /\ disconnect.access.grant \in Known
  BY DEF IInv, NamesAreKnown
<1>2. /\ grants' \in Seq(Grant) /\ Len(grants') = Len(grants) /\ Known' = Known
      /\ \A h \in Known : /\ grants'[h].kind = grants[h].kind
                          /\ grants'[h].generation = grants[h].generation
  BY <1>1, RevokingFacts
<1>3. Renewing' = Renewing /\ Writing' = Writing
  BY DEF Renewing, Writing
<1>4. TypeOK'
  BY <1>2 DEF IInv, TypeOK
<1>5. NamesAreKnown' /\ KindsAreKnown' /\ OneRenewal'
  BY <1>1, <1>2, <1>3 DEF IInv, NamesAreKnown, KindsAreKnown, OneRenewal
<1>6. GenerationsAreCounted'
  BY <1>2, <1>3 DEF IInv, GenerationsAreCounted, NamesAreKnown
<1>7. SpentTokensAreReplaced' /\ RowShowsItsGrant'
  BY <1>3 DEF IInv, SpentTokensAreReplaced, RowShowsItsGrant
<1>8. RowIsCurrent'
  BY <1>2, <1>3 DEF IInv, RowIsCurrent, Lost, NamesAreKnown
<1>9. reused' \subseteq stranded'
  BY DEF IInv
<1> QED BY <1>4, <1>5, <1>6, <1>7, <1>8, <1>9 DEF IInv

\* What a disconnection knows stays known, and what is gone stays gone.
LEMMA RevokingLeaves ==
  ASSUME IInv, disconnect.pc \in {"revoke", "refresh"},
         Kills(disconnect.access) \/ UNCHANGED grants, lapsed \subseteq lapsed',
         UNCHANGED <<row, tokens, overtaken, disowned>>
  PROVE  /\ \A g \in disowned' : Gone(g)'
         /\ row.id = disconnect.id =>
              \/ Lost(row.grant) /\ Lost(row.grant)'
              \/ /\ disconnect.kind = grants[row.grant].kind
                 /\ disconnect.kind = grants'[row.grant].kind
                 /\ disconnect.access.grant = row.grant
                 /\ disconnect.access.generation = grants[row.grant].generation
                 /\ disconnect.access.generation = grants'[row.grant].generation
                 /\ ~grants[row.grant].live => ~grants'[row.grant].live
<1> USE DEF tokens
<1>1. /\ disconnect.access \in Token /\ disconnect.access.grant \in Known
      /\ disconnect.id \in Known
  BY DEF IInv, NamesAreKnown
<1>2. /\ \A h \in Known : /\ grants'[h].kind = grants[h].kind
                          /\ grants'[h].generation = grants[h].generation
                          /\ ~grants[h].live => ~grants'[h].live
  BY <1>1, RevokingFacts
<1>3. \A g \in Known : (Gone(g) => Gone(g)') /\ (Lost(g) => Lost(g)')
  BY <1>2 DEF Gone, Lost, Lapsed
<1>4. disowned \subseteq Known
  BY DEF IInv, NamesAreKnown
<1>5. row.id = disconnect.id => row.grant \in Known
  BY <1>1, ProviderCredentialsAssumption DEF IInv, NamesAreKnown, NoRow, Known
<1> QED BY <1>2, <1>3, <1>4, <1>5 DEF IInv, DisconnectKnowsTheGrant

\* With the access token the provider ends the grant, unless it may have forgotten that
\* token; then only a GitLab grant still has its refresh token to present.
LEMMA RevokesAccessInv == ASSUME IInv, RevokesAccess PROVE IInv'
<1> USE DEF tokens
<1> DEFINE a == disconnect.access
<1>1. /\ disconnect.pc = "revoke" /\ disconnect \in Disconnect /\ ~disconnect.revoked
      /\ faults' \in 0..MaxFaults
      /\ UNCHANGED <<row, reader, expiries, tokens, overtaken, disowned>>
  BY FaultCounted DEF RevokesAccess, Revoked, IInv, TypeOK, DisconnectKnowsTheGrant
<1>2. /\ a \in Token /\ a.grant \in Known /\ a.grant \in Grants
      /\ disconnect.refresh = None => disconnect.kind = "pat"
  BY <1>1, Types DEF IInv, NamesAreKnown, KindsAreKnown
<1>3. Kills(a) \/ UNCHANGED grants
  BY DEF RevokesAccess, EndsByAccess
<1>4. lapsed' \subseteq Grants /\ lapsed \subseteq lapsed'
  <2>1. lapsed' = lapsed \/ lapsed' = lapsed \union {a.grant}
    BY DEF RevokesAccess, Lapses
  <2> QED BY <1>2, <2>1 DEF IInv, TypeOK
<1>5. /\ disconnect' \in Disconnect /\ disconnect'.pc \in {"refresh", "delete"}
      /\ disconnect'.id = disconnect.id /\ disconnect'.kind = disconnect.kind
      /\ disconnect'.access = a /\ disconnect'.refresh = disconnect.refresh
      /\ disconnect'.pc = "refresh" => disconnect.kind = "oauth" /\ ~disconnect'.revoked
  BY <1>1 DEF RevokesAccess, Revoked, AfterAccess, Disconnect
<1>6. ASSUME disconnect'.pc = "delete", disconnect'.revoked
      PROVE  \/ disconnect.kind = "pat"
             \/ ~IsCurrent(a) /\ UNCHANGED grants
             \/ Kills(a)
             \/ disconnect.kind = "github_user" /\ a.grant \in lapsed'
  <2>1. disconnect.kind \in Kinds
    BY <1>1 DEF Disconnect
  <2>2. CASE /\ disconnect.kind # "pat" /\ Lapses(a) /\ EndsByAccess(a)
             /\ disconnect' = [disconnect EXCEPT !.pc = AfterAccess,
                                                 !.revoked = (AfterAccess = "delete")]
    <3>1. AfterAccess = "delete"
      BY <1>1, <1>6, <2>2 DEF Disconnect
    <3>2. disconnect.kind # "oauth"
      BY <1>2, <3>1 DEF AfterAccess
    <3> QED BY <2>1, <2>2, <3>2 DEF Kinds, OAuthKinds, EndsByAccess, Lapses
  <2>3. CASE disconnect' = [disconnect EXCEPT !.pc = "delete"]
    BY <1>1, <1>6, <2>3 DEF Disconnect
  <2> QED BY <2>2, <2>3 DEF RevokesAccess, Revoked
<1>7. /\ \A g \in disowned' : Gone(g)'
      /\ row.id = disconnect.id =>
           \/ Lost(row.grant) /\ Lost(row.grant)'
           \/ /\ disconnect.kind = grants[row.grant].kind
              /\ disconnect.kind = grants'[row.grant].kind
              /\ a.grant = row.grant
              /\ a.generation = grants[row.grant].generation
              /\ a.generation = grants'[row.grant].generation
              /\ ~grants[row.grant].live => ~grants'[row.grant].live
  BY <1>1, <1>3, <1>4, RevokingLeaves
<1>8. Kills(a) => ~grants'[a.grant].live
  BY <1>2, RevokingFacts
<1>9. ASSUME disconnect'.pc = "delete", disconnect'.revoked, row.id = disconnect.id
      PROVE  Gone(row.grant)'
  BY <1>1, <1>6, <1>7, <1>8, <1>9 DEF Gone, Lapsed, IsCurrent
<1>10. DisconnectKnowsTheGrant'
  BY <1>1, <1>5, <1>7, <1>9 DEF DisconnectKnowsTheGrant
<1> HIDE DEF a
<1> QED BY <1>1, <1>3, <1>4, <1>5, <1>10, RevokingKeeps DEF a

\* A refresh token does not run out: with it the grant ends.
LEMMA RevokesRefreshInv == ASSUME IInv, RevokesRefresh PROVE IInv'
<1> USE DEF tokens, history
<1> DEFINE a == disconnect.access
<1>1. /\ disconnect.pc = "refresh" /\ disconnect \in Disconnect /\ ~disconnect.revoked
      /\ faults' \in 0..MaxFaults
      /\ UNCHANGED <<row, reader, expiries, tokens, overtaken, disowned, lapsed>>
  BY FaultCounted DEF RevokesRefresh, Revoked, IInv, TypeOK, DisconnectKnowsTheGrant
<1>2. a \in Token /\ a.grant \in Known /\ disconnect.refresh = a
  BY <1>1 DEF IInv, NamesAreKnown, KindsAreKnown
<1>3. Kills(a) \/ UNCHANGED grants
  BY <1>2 DEF RevokesRefresh, EndsByRefresh
<1>4. /\ disconnect' \in Disconnect /\ disconnect'.pc = "delete"
      /\ disconnect'.id = disconnect.id /\ disconnect'.kind = disconnect.kind
      /\ disconnect'.access = a /\ disconnect'.refresh = disconnect.refresh
      /\ disconnect'.revoked => EndsByRefresh(a)
  BY <1>1, <1>2 DEF RevokesRefresh, Revoked, Disconnect
<1>5. /\ \A g \in disowned' : Gone(g)'
      /\ row.id = disconnect.id =>
           \/ Lost(row.grant) /\ Lost(row.grant)'
           \/ /\ a.grant = row.grant
              /\ a.generation = grants[row.grant].generation
              /\ ~grants[row.grant].live => ~grants'[row.grant].live
  BY <1>1, <1>3, RevokingLeaves
<1>6. Kills(a) => ~grants'[a.grant].live
  BY <1>2, <1>3, RevokingFacts
<1>7. ASSUME disconnect'.revoked, row.id = disconnect.id PROVE Gone(row.grant)'
  BY <1>1, <1>4, <1>5, <1>6, <1>7 DEF Gone, EndsByRefresh, IsCurrent
<1>8. DisconnectKnowsTheGrant'
  BY <1>1, <1>4, <1>5, <1>7 DEF DisconnectKnowsTheGrant
<1>9. lapsed' \subseteq Grants
  BY <1>1 DEF IInv, TypeOK
<1> HIDE DEF a
<1> QED BY <1>1, <1>3, <1>4, <1>8, <1>9, RevokingKeeps DEF a

\* The row goes; what it showed was revoked, if the reviewer is told so.
LEMMA DeletesRowInv == ASSUME IInv, DeletesRow PROVE IInv'
<1> USE DEF tokens
<1> DEFINE deletes == row.id = disconnect.id
<1>1. /\ disconnect.pc = "delete" /\ disconnect' = IdleDisconnect
      /\ row' = IF deletes THEN NoRow ELSE row
      /\ disowned' = IF deletes /\ disconnect.revoked THEN disowned \union {row.grant}
                     ELSE disowned
      /\ UNCHANGED <<grants, reader, expiries, faults, tokens, overtaken, lapsed>>
  BY DEF DeletesRow
<1>2. deletes => row # NoRow /\ row.grant \in Known /\ row \in Row
  BY <1>1, Types, ProviderCredentialsAssumption DEF IInv, NamesAreKnown, NoRow, Known
<1>3. row' = NoRow \/ row' = row
  BY <1>1
<1>4. Renewing' = Renewing /\ Writing' = Writing /\ Known' = Known
  BY <1>1 DEF Renewing, Writing, Known
<1>5. \A q \in Renewing : reader[q].id # NoRow.id
  BY ProviderCredentialsAssumption DEF IInv, NamesAreKnown, NoRow, Known
<1> HIDE DEF deletes
<1>6. IdleDisconnect \in Disconnect /\ IdleDisconnect.pc = "idle"
  BY DEF IdleDisconnect, Disconnect, TokenOrNone, Kinds
<1>7. disowned' \subseteq Known /\ disowned' \subseteq Grants
  <2>1. disowned \subseteq Known /\ Known \subseteq Grants
    BY Types DEF IInv, NamesAreKnown
  <2> QED BY <1>1, <1>2, <2>1
<1>8. TypeOK'
  BY <1>1, <1>3, <1>6, <1>7 DEF IInv, TypeOK
<1>9. NamesAreKnown' /\ KindsAreKnown' /\ OneRenewal'
  BY <1>1, <1>3, <1>4, <1>6, <1>7 DEF IInv, NamesAreKnown, KindsAreKnown, OneRenewal
<1>10. GenerationsAreCounted' /\ SpentTokensAreReplaced'
  BY <1>1, <1>3, <1>4 DEF IInv, GenerationsAreCounted, SpentTokensAreReplaced
<1>11. RowShowsItsGrant' /\ RowIsCurrent'
  BY <1>1, <1>3, <1>4, <1>5 DEF IInv, RowShowsItsGrant, RowIsCurrent, Lost
<1>12. DisconnectKnowsTheGrant'
  <2>1. \A g \in disowned' : Gone(g)
    BY <1>1 DEF IInv, DisconnectKnowsTheGrant, deletes
  <2> QED BY <1>1, <1>6, <2>1 DEF DisconnectKnowsTheGrant, Gone, Lost, Lapsed
<1>13. reused' \subseteq stranded'
  BY <1>1 DEF IInv
<1> QED BY <1>8, <1>9, <1>10, <1>11, <1>12, <1>13 DEF IInv

\* A disconnection that dies leaves what it has done.
LEMMA DisconnectDiesInv == ASSUME IInv, DisconnectDies PROVE IInv'
<1> USE DEF history, tokens
<1>1. /\ disconnect' = IdleDisconnect /\ faults' \in 0..MaxFaults
      /\ UNCHANGED <<row, grants, reader, expiries, history>>
  BY FaultCounted DEF DisconnectDies
<1>2. IdleDisconnect \in Disconnect /\ IdleDisconnect.pc = "idle"
  BY DEF IdleDisconnect, Disconnect, TokenOrNone, Kinds
<1>3. Renewing' = Renewing /\ Writing' = Writing /\ Known' = Known
  BY <1>1 DEF Renewing, Writing, Known
<1>4. TypeOK'
  BY <1>1, <1>2 DEF IInv, TypeOK
<1>5. NamesAreKnown' /\ KindsAreKnown' /\ OneRenewal' /\ GenerationsAreCounted'
      /\ SpentTokensAreReplaced'
  BY <1>1, <1>2, <1>3 DEF IInv, NamesAreKnown, KindsAreKnown, OneRenewal,
     GenerationsAreCounted, SpentTokensAreReplaced
<1>6. RowShowsItsGrant' /\ RowIsCurrent' /\ reused' \subseteq stranded'
  BY <1>1, <1>3 DEF IInv, RowShowsItsGrant, RowIsCurrent, Lost
<1>7. DisconnectKnowsTheGrant'
  BY <1>1, <1>2 DEF IInv, DisconnectKnowsTheGrant, Gone, Lost, Lapsed
<1> QED BY <1>4, <1>5, <1>6, <1>7 DEF IInv

-----------------------------------------------------------------------------
(* Theorems                                                                *)

\* Nobody has connected.
LEMMA InitInv == Init => IInv
<1> SUFFICES ASSUME Init PROVE IInv
  OBVIOUS
<1>1. /\ row = NoRow /\ grants = <<>> /\ Renewing = {} /\ Writing = {} /\ Known = {}
      /\ spent = {} /\ disowned = {} /\ reused = {} /\ disconnect.pc = "idle"
  BY DEF Init, Renewing, Writing, Known, IdleReader, IdleDisconnect
<1>2. TypeOK
  <2>1. grants \in Seq(Grant) /\ Len(grants) <= MaxGrants
    BY <1>1, ProviderCredentialsAssumption
  <2>2. IdleDisconnect \in Disconnect
    BY DEF IdleDisconnect, Disconnect, TokenOrNone, Kinds
  <2> QED BY <2>1, <2>2, IdleFacts, ProviderCredentialsAssumption DEF Init, TypeOK
<1> QED BY <1>1, <1>2 DEF IInv, NamesAreKnown, KindsAreKnown, OneRenewal, GenerationsAreCounted,
           SpentTokensAreReplaced, RowShowsItsGrant, RowIsCurrent, DisconnectKnowsTheGrant

\* Every step, and stuttering.
LEMMA NextInv == IInv /\ [Next]_vars => IInv'
<1> SUFFICES ASSUME IInv, [Next]_vars PROVE IInv'
  OBVIOUS
<1>1. ASSUME NEW q \in Readers, Renews(q) \/ LosesAnswer(q) \/ Dies(q) PROVE IInv'
  BY <1>1, ReadsExpiredInv, LocksInv, RotatesInv, IsRefusedInv, WritesInv, LosesAnswerInv,
     DiesInv DEF Renews
<1>2. ASSUME NEW kind \in Kinds, Connects(kind) PROVE IInv'
  BY <1>2, ConnectsInv
<1>3. CASE \/ Expires \/ StartsDisconnect \/ RevokesAccess \/ RevokesRefresh
           \/ DeletesRow \/ DisconnectDies
  BY <1>3, ExpiresInv, StartsDisconnectInv, RevokesAccessInv, RevokesRefreshInv, DeletesRowInv,
     DisconnectDiesInv
<1>4. CASE UNCHANGED vars
  <2>1. UNCHANGED <<row, grants, reader, disconnect, expiries, faults, spent, reused, stranded,
                    overtaken, disowned, lapsed>>
    BY <1>4 DEF vars
  <2>2. Renewing' = Renewing /\ Writing' = Writing /\ Known' = Known
    BY <2>1 DEF Renewing, Writing, Known
  <2>3. TypeOK'
    BY <2>1 DEF IInv, TypeOK
  <2>4. /\ NamesAreKnown' /\ KindsAreKnown' /\ OneRenewal' /\ GenerationsAreCounted'
        /\ SpentTokensAreReplaced'
    BY <2>1, <2>2 DEF IInv, NamesAreKnown, KindsAreKnown, OneRenewal, GenerationsAreCounted,
       SpentTokensAreReplaced
  <2>5. RowShowsItsGrant' /\ RowIsCurrent' /\ DisconnectKnowsTheGrant' /\ reused' \subseteq stranded'
    BY <2>1, <2>2 DEF IInv, RowShowsItsGrant, RowIsCurrent, Lost, DisconnectKnowsTheGrant, Gone,
       Lapsed
  <2> QED BY <2>3, <2>4, <2>5 DEF IInv
<1> QED BY <1>1, <1>2, <1>3, <1>4 DEF Next

\* The strengthened invariant: who holds a grant's tokens, and what the row shows.
THEOREM Inductive == Spec => []IInv
BY InitInv, NextInv, PTL DEF Spec

\* Every variable keeps its type; a grant is renewed at most once for each expiry, and
\* the row has either no refresh token or the one of its access token.
THEOREM TypeCorrect == Spec => []TypeOK
<1>1. IInv => TypeOK
  BY DEF IInv
<1> QED BY <1>1, Inductive, PTL

\* However many requests of refreshUserProviderCredential meet, a one-time refresh token
\* is presented twice only if the answer to the first was never stored.
THEOREM TokensAreUsedOnce == Spec => []OneTimeTokensAreUsedOnce
<1>1. IInv => OneTimeTokensAreUsedOnce
  BY DEF IInv, OneTimeTokensAreUsedOnce
<1> QED BY <1>1, Inductive, PTL

\* The row's tokens are those of the grant that saveUserProviderCredential stored last,
\* unless it was saved while the row was being renewed.
THEOREM RowShowsTheLatestGrant == Spec => []RowIsTheLatestGrant
<1>1. IInv => RowIsTheLatestGrant
  BY DEF IInv, RowShowsItsGrant, RowIsTheLatestGrant
<1> QED BY <1>1, Inductive, PTL

\* What a disconnection reports as revoked is dead at the provider, unless it was renewed
\* or replaced meanwhile, or its tokens had been lost, or it is a GitHub grant whose
\* access token had run out: of that one only the access token is presented.
THEOREM DisconnectRevokes == Spec => []DisconnectRevokesTheGrant
<1>1. IInv => DisconnectRevokesTheGrant
  BY DEF IInv, DisconnectKnowsTheGrant, Gone, Lost, Lapsed,
     DisconnectRevokesTheGrant
<1> QED BY <1>1, Inductive, PTL
=============================================================================
