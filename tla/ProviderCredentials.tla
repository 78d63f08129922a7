------------------------- MODULE ProviderCredentials -------------------------
(***************************************************************************)
(* A reviewer's own credential for one provider connection                   *)
(* (providers/user-credentials.ts): the row, the grant at the provider that   *)
(* its tokens belong to, the requests that renew an expired one-time refresh  *)
(* token, a reviewer who connects again, and a disconnection.                *)
(*                                                                         *)
(* A grant has a generation: renewing it at the provider ends the tokens of   *)
(* the generation before.  A GitHub connection gives grants of kind           *)
(* "github_user", a GitLab connection grants of kind "oauth".  A personal      *)
(* access token is a grant of kind "pat", which never expires and has nothing  *)
(* to revoke.                                                              *)
(* Left out: encryption (a secret is sealed for the kind of its grant), the   *)
(* audit trail, GitHub answers without a refresh token, local deployments,    *)
(* and deployments without the secrets of the OAuth client, which revoke      *)
(* nothing.                                                                *)
(***************************************************************************)
EXTENDS Naturals, Sequences

CONSTANTS
  Readers,     \* requests that need the token; a request may be made again
  None,        \* no row, no token
  MaxGrants,   \* bound: times the reviewer connects
  MaxExpiries, \* bound: times a token expires
  MaxFaults    \* bound: lost answers, refusals and deaths

Grants == 1..MaxGrants
Token == [grant: Grants, generation: 0..MaxExpiries]
TokenOrNone == Token \union {None}

ASSUME ProviderCredentialsAssumption ==
  /\ None \notin Readers \union Nat \union Token
  /\ MaxGrants \in Nat /\ MaxExpiries \in Nat /\ MaxFaults \in Nat

VARIABLES
  row,         \* the row of user_provider_credential
  grants,      \* the grants at the provider, oldest first
  reader,      \* the requests in progress
  disconnect,  \* deleteUserProviderCredential
  expiries, faults,  \* spent of their bounds
  spent,       \* history: refresh tokens the provider may have exchanged
  reused,      \* history: those that were presented again
  stranded,    \* history: refresh tokens whose successor was never stored
  overtaken,   \* history: grants saved or read while the row was being renewed
  disowned,    \* history: grants reported as revoked by a disconnection
  lapsed       \* history: grants whose access token had run out when a disconnection
               \* presented it

vars == <<row, grants, reader, disconnect, expiries, faults, spent, reused,
          stranded, overtaken, disowned, lapsed>>

\* USER_OAUTH_KINDS.
OAuthKinds == {"github_user", "oauth"}
Kinds == OAuthKinds \union {"pat"}

\* ended: the access token of this generation has run out.
Grant == [kind: Kinds, generation: 0..MaxExpiries, live: BOOLEAN, ended: BOOLEAN]

\* id: the grant with which the row was first inserted; grant: whose kind,
\* login and account the row shows.
Row == [id: Grants, grant: Grants, access: Token, refresh: TokenOrNone,
        expired: BOOLEAN]
NoRow == [id |-> None]

Reader == [pc: {"idle", "wait", "rotate", "write"}, id: Grants \union {None},
           token: TokenOrNone]   \* the refresh token that it presents, or got
\* kind, access, refresh: what it has read of the row.
Disconnect == [pc: {"idle", "revoke", "refresh", "delete"}, id: Grants \union {None},
               kind: Kinds, access: TokenOrNone, refresh: TokenOrNone, revoked: BOOLEAN]

TypeOK ==
  /\ row \in Row \union {NoRow}
  /\ grants \in Seq(Grant) /\ Len(grants) <= MaxGrants
  /\ reader \in [Readers -> Reader]
  /\ disconnect \in Disconnect
  /\ expiries \in 0..MaxExpiries /\ faults \in 0..MaxFaults
  /\ {spent, reused, stranded} \subseteq SUBSET Token
  /\ {overtaken, disowned, lapsed} \subseteq SUBSET Grants
  \* A refresh token belongs to the same generation as the access token.
  /\ row # NoRow => row.refresh \in {None, row.access}

IdleReader == [pc |-> "idle", id |-> None, token |-> None]
IdleDisconnect == [pc |-> "idle", id |-> None, kind |-> "pat", access |-> None,
                   refresh |-> None, revoked |-> FALSE]

Init ==
  /\ row = NoRow
  /\ grants = <<>>
  /\ reader = [q \in Readers |-> IdleReader]
  /\ disconnect = IdleDisconnect
  /\ expiries = 0 /\ faults = 0
  /\ spent = {} /\ reused = {} /\ stranded = {} /\ overtaken = {}
  /\ disowned = {} /\ lapsed = {}

Fault == faults < MaxFaults /\ faults' = faults + 1

Becomes(q, pc, id, token) ==
  reader' = [reader EXCEPT ![q] = [pc |-> pc, id |-> id, token |-> token]]
Ends(q) == reader' = [reader EXCEPT ![q] = IdleReader]

CredentialNeedsRefresh ==
  row # NoRow /\ grants[row.grant].kind \in OAuthKinds /\ row.expired

\* pg_advisory_xact_lock("user-oauth-refresh:<id>").
Renewing == {q \in Readers : reader[q].pc \in {"rotate", "write"}}
NoRefreshLock(id) == TRUE
RefreshLockIsFree(id) == \A q \in Renewing : reader[q].id # id

tokens == <<spent, reused, stranded>>
history == <<tokens, overtaken, disowned, lapsed>>

-----------------------------------------------------------------------------
(* Renewing the token.                                                     *)

\* userProviderToken finds an expired token; otherwise it uses what it read.
ReadsExpired(q) ==
  /\ reader[q].pc = "idle"
  /\ CredentialNeedsRefresh
  /\ Becomes(q, "wait", row.id, None)
  /\ UNCHANGED <<row, grants, disconnect, expiries, faults, history>>

\* refreshUserProviderCredential has its lock and reads the row again.
Locks(q) ==
  /\ reader[q].pc = "wait"
  /\ RefreshLockIsFree(reader[q].id)
  /\ IF row.id = reader[q].id /\ CredentialNeedsRefresh /\ row.refresh # None
       THEN Becomes(q, "rotate", row.id, row.refresh)
       ELSE Ends(q)
  /\ UNCHANGED <<row, grants, disconnect, expiries, faults, history>>

IsCurrent(t) == grants[t.grant].live /\ grants[t.grant].generation = t.generation
Successor(t) == [t EXCEPT !.generation = @ + 1]

Presents(t) == reused' = reused \union ({t} \intersect spent)
Spends(t) == Presents(t) /\ spent' = spent \union {t}
Renewed(t) ==
  grants' = [grants EXCEPT ![t.grant].generation = @ + 1, ![t.grant].ended = FALSE]

\* Whoever has read this row to disconnect it holds tokens that end now.
Overtakes(t) ==
  overtaken' = IF disconnect.pc # "idle" /\ disconnect.access.grant = t.grant
                 THEN overtaken \union {t.grant} ELSE overtaken

Rotates(q) ==
  LET t == reader[q].token
  IN  /\ reader[q].pc = "rotate"
      /\ IsCurrent(t)
      /\ Spends(t)
      /\ Renewed(t)
      /\ Overtakes(t)
      /\ Becomes(q, "write", reader[q].id, Successor(t))
      /\ UNCHANGED <<row, disconnect, expiries, faults, stranded, disowned, lapsed>>

\* The provider knows the token no more: the transaction is rolled back.
IsRefused(q) ==
  LET t == reader[q].token
  IN  /\ reader[q].pc = "rotate"
      /\ ~IsCurrent(t)
      /\ Presents(t)
      /\ Ends(q)
      /\ UNCHANGED <<row, grants, disconnect, expiries, faults, spent, stranded,
                     overtaken, disowned, lapsed>>

\* No answer: the provider may have renewed the grant all the same.
LosesAnswer(q) ==
  LET t == reader[q].token
  IN  /\ reader[q].pc = "rotate"
      /\ Fault
      /\ Spends(t)
      /\ \/ UNCHANGED grants
         \/ IsCurrent(t) /\ Renewed(t)
      /\ stranded' = stranded \union {t}
      /\ Ends(q)
      /\ UNCHANGED <<row, disconnect, expiries, overtaken, disowned, lapsed>>

\* The update finds the row by its id alone, whatever has been saved since.
AccessOnly(t) == [row EXCEPT !.access = t, !.expired = FALSE]
Stores(t) == [row EXCEPT !.access = t, !.refresh = t, !.expired = FALSE]

HasSomeRow(q) == row # NoRow
HasItsRow(q) == row.id = reader[q].id

Writes(q) ==
  LET t == reader[q].token
  IN  /\ reader[q].pc = "write"
      /\ row' = IF HasItsRow(q) THEN Stores(t) ELSE row
      /\ Ends(q)
      /\ UNCHANGED <<grants, disconnect, expiries, faults, history>>

\* The process dies, or the transaction cannot commit.
Dies(q) ==
  /\ reader[q].pc = "write"
  /\ Fault
  /\ stranded' = stranded \union
       {[reader[q].token EXCEPT !.generation = @ - 1]}
  /\ Ends(q)
  /\ UNCHANGED <<row, grants, disconnect, expiries, spent, reused, overtaken, disowned,
                 lapsed>>

-----------------------------------------------------------------------------
(* Connecting, expiring and disconnecting.                                 *)

\* saveUserProviderCredential: one row for the reviewer and the connection,
\* which keeps its id.  It does not take the lock of the refresh.
Connects(kind) ==
  LET g == Len(grants) + 1
      t == [grant |-> g, generation |-> 0]
  IN  /\ g \in Grants
      /\ kind = "pat" \/ \A h \in DOMAIN grants : grants[h].kind \in {kind, "pat"}
      /\ grants' = Append(grants, [kind |-> kind, generation |-> 0, live |-> TRUE,
                                   ended |-> FALSE])
      /\ row' = [id |-> IF row = NoRow THEN g ELSE row.id, grant |-> g, access |-> t,
                 refresh |-> IF kind \in OAuthKinds THEN t ELSE None, expired |-> FALSE]
      /\ overtaken' =
           IF row # NoRow /\ row.id \in {reader[q].id : q \in Renewing} \union {disconnect.id}
             THEN overtaken \union {g} ELSE overtaken
      /\ UNCHANGED <<reader, disconnect, expiries, faults, tokens, disowned, lapsed>>

\* The stored token runs out; the row shows it a minute earlier.
Expires ==
  /\ row # NoRow /\ grants[row.grant].kind \in OAuthKinds /\ ~row.expired
  /\ expiries < MaxExpiries
  /\ expiries' = expiries + 1
  /\ row' = [row EXCEPT !.expired = TRUE]
  /\ grants' = IF IsCurrent(row.access)
                 THEN [grants EXCEPT ![row.access.grant].ended = TRUE] ELSE grants
  /\ UNCHANGED <<reader, disconnect, faults, history>>

StartsDisconnect ==
  /\ disconnect.pc = "idle" /\ row # NoRow
  /\ disconnect' = [pc |-> "revoke", id |-> row.id, kind |-> grants[row.grant].kind,
                    access |-> row.access, refresh |-> row.refresh, revoked |-> FALSE]
  /\ overtaken' = overtaken \union
       ({row.grant} \intersect {reader[q].token.grant : q \in Renewing})
  /\ UNCHANGED <<row, grants, reader, expiries, faults, tokens, disowned, lapsed>>

Kills(t) == grants' = [grants EXCEPT ![t.grant].live = FALSE]

\* The provider ends the grant of a token it knows; a token it does not know is as good
\* as revoked, and it may have forgotten an access token that has run out.
EndsByAccess(t) ==
  \/ IsCurrent(t) /\ Kills(t)
  \/ (~IsCurrent(t) \/ grants[t.grant].ended) /\ UNCHANGED grants

NotPresented(t) == UNCHANGED grants
EndsByRefresh(t) == IF IsCurrent(t) THEN Kills(t) ELSE UNCHANGED grants

Lapses(t) ==
  lapsed' = IF IsCurrent(t) /\ grants[t.grant].ended
              THEN lapsed \union {t.grant} ELSE lapsed

Revoked(pc) ==
  /\ disconnect' = [disconnect EXCEPT !.pc = pc, !.revoked = (pc = "delete")]
  /\ UNCHANGED faults

\* Only GitLab is shown the refresh token too.
AfterAccess ==
  IF disconnect.kind = "oauth" /\ disconnect.refresh # None THEN "refresh" ELSE "delete"

\* revokeStoredUserCredential: an answer that is lost, and a failure, are only reported.
RevokesAccess ==
  /\ disconnect.pc = "revoke"
  /\ \/ disconnect.kind = "pat" /\ Revoked("delete") /\ UNCHANGED <<grants, lapsed>>
     \/ /\ disconnect.kind # "pat"
        /\ Lapses(disconnect.access)
        /\ \/ EndsByAccess(disconnect.access) /\ Revoked(AfterAccess)
           \/ /\ EndsByAccess(disconnect.access) \/ UNCHANGED grants
              /\ Fault /\ disconnect' = [disconnect EXCEPT !.pc = "delete"]
  /\ UNCHANGED <<row, reader, expiries, tokens, overtaken, disowned>>

RevokesRefresh ==
  /\ disconnect.pc = "refresh"
  /\ \/ EndsByRefresh(disconnect.refresh) /\ Revoked("delete")
     \/ /\ EndsByRefresh(disconnect.refresh) \/ UNCHANGED grants
        /\ Fault /\ disconnect' = [disconnect EXCEPT !.pc = "delete"]
  /\ UNCHANGED <<row, reader, expiries, history>>

\* The row is deleted by its id, whatever has been stored in it since.
DeletesRow ==
  /\ disconnect.pc = "delete"
  /\ row' = IF row.id = disconnect.id THEN NoRow ELSE row
  /\ disowned' = IF row.id = disconnect.id /\ disconnect.revoked
                   THEN disowned \union {row.grant} ELSE disowned
  /\ disconnect' = IdleDisconnect
  /\ UNCHANGED <<grants, reader, expiries, faults, tokens, overtaken, lapsed>>

DisconnectDies ==
  /\ disconnect.pc # "idle"
  /\ Fault
  /\ disconnect' = IdleDisconnect
  /\ UNCHANGED <<row, grants, reader, expiries, history>>

-----------------------------------------------------------------------------
Renews(q) ==
  ReadsExpired(q) \/ Locks(q) \/ Rotates(q) \/ IsRefused(q) \/ Writes(q)

Next ==
  \/ \E q \in Readers : Renews(q) \/ LosesAnswer(q) \/ Dies(q)
  \/ \E kind \in Kinds : Connects(kind)
  \/ Expires
  \/ StartsDisconnect \/ RevokesAccess \/ RevokesRefresh \/ DeletesRow \/ DisconnectDies

Spec == Init /\ [][Next]_vars

-----------------------------------------------------------------------------
(* Properties.                                                             *)

\* A refresh token works once: however many requests find the token expired,
\* it is presented a second time only when the first answer was never stored.
OneTimeTokensAreUsedOnce == reused \subseteq stranded

\* The tokens in the row belong to the grant whose kind, login and account it
\* shows, unless the reviewer connected again while the row was being renewed.
RowIsTheLatestGrant ==
  row # NoRow => row.access.grant = row.grant \/ row.grant \in overtaken

\* A grant whose disconnection was reported as revoked is dead at the provider, unless
\* it was renewed or replaced meanwhile, or its tokens had been lost.  A GitHub grant
\* may also live on when its access token had run out: the refresh token is not
\* presented, and a token that GitHub does not know counts as revoked.
DisconnectRevokesTheGrant ==
  \A g \in disowned :
    \/ ~grants[g].live \/ grants[g].kind = "pat"
    \/ g \in overtaken \/ \E t \in stranded : t.grant = g
    \/ grants[g].kind = "github_user" /\ g \in lapsed
=============================================================================
