--------------------------- MODULE RefreshTokens ---------------------------
(***************************************************************************)
(* The refresh-token registry: AuthService.refresh, revoke and the token   *)
(* half of every sign-in, over SqlRefreshTokenRepository.                  *)
(*                                                                         *)
(* Each connection of the pool serves one request at a time.  A request    *)
(* runs one or two READ COMMITTED transactions, one action per SQL         *)
(* statement.  Until it commits, what a transaction wrote is visible to    *)
(* nobody else: here it is kept in the request's own record (`new', and    *)
(* `held' for the rows it has updated and so locked), and the commit       *)
(* action moves it into the tables.  A statement sees the rows committed   *)
(* when it starts; an UPDATE that meets a row another transaction has      *)
(* updated waits for it, then tests its WHERE clause on the new version.   *)
(***************************************************************************)
EXTENDS Naturals, FiniteSets

CONSTANTS Conns,    \* the pool's connections, one request each
          Tokens,   \* refresh-token ids the generator may return
          Users,
          NoToken, NoUser,
          MaxExpired,    \* bound: tokens that expire while others live
          MaxSuspended   \* bound: users suspended at a time

ASSUME RegistryAssumption ==
  /\ NoToken \notin Tokens
  /\ NoUser \notin Users
  /\ MaxExpired \in Nat /\ MaxSuspended \in Nat

VARIABLES
  issued,       \* ids of the committed rows of refresh_tokens
  family,       \* column family_id
  owner,        \* column user_id
  replacedBy,   \* columns consumed_at and replaced_by_id, always set together
  revoked,      \* rows with revoked_at set
  expired,      \* rows with expires_at <= now
  suspended,    \* users whose status is not active
  req           \* what each connection is doing

rows == <<issued, family, owner, replacedBy, revoked>>
vars == <<issued, family, owner, replacedBy, revoked, expired, suspended, req>>

Kinds == {"none", "sign_in", "refresh", "revoke", "revoke_all"}
Steps == {"idle", "consume", "issue", "commit", "scan", "lock", "done"}
Answers == {"none", "tokens", "invalid", "revoked", "expired", "inactive",
            "reused", "signed_out", "deadlock"}

Request == [pc     : Steps,
            kind   : Kinds,
            tok    : Tokens \cup {NoToken},  \* the token presented
            user   : Users \cup {NoUser},    \* the account signing in or out
            new    : Tokens \cup {NoToken},  \* the id drawn for the new token
            held   : SUBSET Tokens,          \* rows updated and locked, not committed
            todo   : SUBSET Tokens,          \* rows the revoking UPDATE has yet to reach
            seen   : SUBSET Tokens,          \* rows in that UPDATE's snapshot
            answer : Answers]

NoRequest == [pc |-> "idle", kind |-> "none", tok |-> NoToken, user |-> NoUser,
              new |-> NoToken, held |-> {}, todo |-> {}, seen |-> {},
              answer |-> "none"]

Consumed == {t \in issued : replacedBy[t] # NoToken}
Live     == issued \ (Consumed \cup revoked)

LockedByOther(r, t) == \E s \in Conns \ {r} : t \in req[s].held
Fresh(n) == n \notin issued /\ \A s \in Conns : req[s].new # n

\* A request that has ended holds no lock; its answer is on its way.
Ended(q, a) == [q EXCEPT !.pc = "done", !.answer = a,
                         !.held = {}, !.todo = {}, !.new = NoToken]
Finish(r, a) == req' = [req EXCEPT ![r] = Ended(@, a)]

-----------------------------------------------------------------------------
(* A request arrives and runs its first statement.  The id of a token to   *)
(* come is drawn at once: the generator never repeats one, so when it is   *)
(* drawn makes no difference, and a request for which the model has no id  *)
(* left does not arrive.                                                   *)

\* The end of any sign-in: the account is known, _assert_active, and the INSERT
\* of _issue_pair with a family of its own.
SignIn(r, u, n) ==
  LET q == [NoRequest EXCEPT !.kind = "sign_in", !.user = u, !.new = n] IN
  /\ req[r].pc = "idle"
  /\ Fresh(n)
  /\ req' = [req EXCEPT ![r] = IF u \in suspended THEN Ended(q, "inactive")
                                                  ELSE [q EXCEPT !.pc = "commit"]]
  /\ UNCHANGED <<rows, expired, suspended>>

\* Mutant: an unknown secret is not refused.
PresentTokenUnchecked(r, t, n) ==
  /\ req[r].pc = "idle"
  /\ Fresh(n)
  /\ req' = [req EXCEPT ![r] = [NoRequest EXCEPT
               !.pc = "consume", !.kind = "refresh", !.tok = t, !.new = n,
               !.user = IF t \in issued THEN owner[t] ELSE NoUser]]
  /\ UNCHANGED <<rows, expired, suspended>>

\* POST /auth/refresh: find_by_hash, and the refusals that end the transaction.
PresentToken(r, t, n) ==
  LET q == [NoRequest EXCEPT !.kind = "refresh", !.tok = t, !.new = n] IN
  /\ req[r].pc = "idle"
  /\ Fresh(n)
  /\ req' = [req EXCEPT ![r] =
               CASE t \notin issued  -> Ended(q, "invalid")
                 [] t \in revoked    -> Ended(q, "revoked")
                 [] t \in expired \ revoked -> Ended(q, "expired")
                 [] t \in issued \ (revoked \cup expired)
                      -> [q EXCEPT !.pc = "consume", !.user = owner[t]]]
  /\ UNCHANGED <<rows, expired, suspended>>

\* POST /auth/revoke for one device.  Signing out with a token that is unknown
\* or somebody else's is not an error and does nothing.
SignOut(r, t, u) ==
  LET q == [NoRequest EXCEPT !.kind = "revoke", !.tok = t, !.user = u] IN
  /\ req[r].pc = "idle"
  /\ req' = [req EXCEPT ![r] = IF t \notin issued \/ owner[t] # u
                               THEN Ended(q, "signed_out")
                               ELSE [q EXCEPT !.pc = "scan"]]
  /\ UNCHANGED <<rows, expired, suspended>>

\* POST /auth/revoke everywhere, or a new admin password.
SignOutEverywhere(r, u) ==
  /\ req[r].pc = "idle"
  /\ req' = [req EXCEPT ![r] = [NoRequest EXCEPT !.pc = "scan",
                                                 !.kind = "revoke_all", !.user = u]]
  /\ UNCHANGED <<rows, expired, suspended>>

-----------------------------------------------------------------------------
(* Rotation.                                                               *)

\* Mutants: one half of the WHERE clause of consume() is missing.
SpendableTwice(t)  == t \notin revoked
SpendableRevoked(t) == t \notin Consumed

\* What the UPDATE of consume() finds once no other transaction holds the row.
Spendable(t) == t \notin Consumed /\ t \notin revoked

\* Mutant: the error is raised inside the transaction, which takes the
\* revocation with it.
ConsumeAndRaise(r) ==
  LET t == req[r].tok IN
  /\ req[r].pc = "consume"
  /\ ~LockedByOther(r, t)
  /\ IF Spendable(t)
     THEN req' = [req EXCEPT ![r].pc = "issue", ![r].held = {t}]
     ELSE Finish(r, "reused")
  /\ UNCHANGED <<rows, expired, suspended>>

\* consume(): one row updated means this request rotates the token.  No row
\* means it was spent: the transaction is left normally, holding nothing, and
\* a second one will revoke the family.
ConsumePresented(r) ==
  LET t == req[r].tok IN
  /\ req[r].pc = "consume"
  /\ ~LockedByOther(r, t)
  /\ IF Spendable(t)
     THEN req' = [req EXCEPT ![r].pc = "issue", ![r].held = {t}]
     ELSE req' = [req EXCEPT ![r].pc = "scan", ![r].new = NoToken]
  /\ UNCHANGED <<rows, expired, suspended>>

\* Mutant: the refusal of a suspended user leaves its transaction open.
IssuePairLeaksLock(r) ==
  /\ req[r].pc = "issue"
  /\ req[r].user \notin suspended
  /\ req' = [req EXCEPT ![r].pc = "commit"]
  /\ UNCHANGED <<rows, expired, suspended>>

\* Still in the transaction that consumed: users.get, _assert_active and the
\* INSERT of _issue_pair.  A raise rolls all of it back: the token presented is
\* not consumed after all.
IssuePair(r) ==
  /\ req[r].pc = "issue"
  /\ IF req[r].user \in suspended
     THEN Finish(r, "inactive")
     ELSE req' = [req EXCEPT ![r].pc = "commit"]
  /\ UNCHANGED <<rows, expired, suspended>>

\* The family of the token a request is about to store.
NewFamily(r) == IF req[r].kind = "refresh" THEN family[req[r].tok] ELSE req[r].new

\* Mutant: the successor is stored and its predecessor not marked.
CommitIssueOnly(r) ==
  LET n == req[r].new IN
  /\ req[r].pc = "commit"
  /\ issued' = issued \cup {n}
  /\ family' = [family EXCEPT ![n] = NewFamily(r)]
  /\ owner'  = [owner EXCEPT ![n] = req[r].user]
  /\ Finish(r, "tokens")
  /\ UNCHANGED <<replacedBy, revoked, expired, suspended>>

\* The commit of a sign-in or of a rotation: the new row and the pointer to it
\* from the row it replaces appear together.
CommitIssue(r) ==
  LET n == req[r].new IN
  /\ req[r].pc = "commit"
  /\ issued' = issued \cup {n}
  /\ family' = [family EXCEPT ![n] = NewFamily(r)]
  /\ owner'  = [owner EXCEPT ![n] = req[r].user]
  /\ replacedBy' = [t \in Tokens |-> IF t \in req[r].held THEN n ELSE replacedBy[t]]
  /\ Finish(r, "tokens")
  /\ UNCHANGED <<revoked, expired, suspended>>

-----------------------------------------------------------------------------
(* Revocation: a sign-out, a sign-out everywhere (a change of the admin    *)
(* password runs the same statement), and the second transaction of a      *)
(* refresh that found its token spent.                                     *)

\* The WHERE clause of revoke_all_for_user and of revoke_family.
Matches(q, t) == IF q.kind = "revoke_all" THEN owner[t] = q.user
                                          ELSE family[t] = family[q.tok]

\* The UPDATE starts: its snapshot holds the committed, unrevoked rows.
ScanRows(r) ==
  LET match == {t \in issued \ revoked : Matches(req[r], t)} IN
  /\ req[r].pc = "scan"
  /\ req' = [req EXCEPT ![r].pc = "lock", ![r].todo = match, ![r].seen = match]
  /\ UNCHANGED <<rows, expired, suspended>>

\* The UPDATE reaches one row of its snapshot, in the order of its plan: it
\* waits for a transaction that holds the row, then updates it unless that
\* transaction has revoked it.
LockRow(r, t) ==
  /\ req[r].pc = "lock"
  /\ t \in req[r].todo
  /\ ~LockedByOther(r, t)
  /\ req' = [req EXCEPT ![r].todo = @ \ {t},
                        ![r].held = IF t \in revoked THEN @ ELSE @ \cup {t}]
  /\ UNCHANGED <<rows, expired, suspended>>

CommitRevoke(r) ==
  /\ req[r].pc = "lock"
  /\ req[r].todo = {}
  /\ revoked' = revoked \cup req[r].held
  /\ Finish(r, IF req[r].kind = "refresh" THEN "reused" ELSE "signed_out")
  /\ UNCHANGED <<issued, family, owner, replacedBy, expired, suspended>>

-----------------------------------------------------------------------------
(* The database and the world around it.                                   *)

WaitsFor(r, s) == s # r /\ req[r].pc = "lock" /\ req[r].todo \cap req[s].held # {}

\* Two revoking UPDATEs that reach the same rows in different orders: the
\* server aborts one of them.
DeadlockAbort(r) ==
  /\ \E cycle \in SUBSET Conns :
       r \in cycle /\ \A s \in cycle : \E q \in cycle : WaitsFor(s, q)
  /\ Finish(r, "deadlock")
  /\ UNCHANGED <<rows, expired, suspended>>

\* The answer is delivered, or the connection, the process or a statement
\* timeout ends the request where it stands: whatever is not committed is
\* rolled back, and the caller may never learn what was.
Reply(r) ==
  /\ req[r].pc = "done"
  /\ req' = [req EXCEPT ![r] = NoRequest]
  /\ UNCHANGED <<rows, expired, suspended>>

Crash(r) ==
  /\ req[r].pc \notin {"idle", "done"}
  /\ req' = [req EXCEPT ![r] = NoRequest]
  /\ UNCHANGED <<rows, expired, suspended>>

Expire(t) ==
  /\ t \in issued \ expired /\ Cardinality(expired) < MaxExpired
  /\ expired' = expired \cup {t}
  /\ UNCHANGED <<rows, suspended, req>>

SetStatus(u) ==
  /\ \/ u \in suspended /\ suspended' = suspended \ {u}
     \/ /\ u \notin suspended /\ Cardinality(suspended) < MaxSuspended
        /\ suspended' = suspended \cup {u}
  /\ UNCHANGED <<rows, expired, req>>

-----------------------------------------------------------------------------

Init ==
  /\ issued = {} /\ revoked = {} /\ expired = {} /\ suspended = {}
  /\ family     = [t \in Tokens |-> NoToken]
  /\ owner      = [t \in Tokens |-> NoUser]
  /\ replacedBy = [t \in Tokens |-> NoToken]
  /\ req = [r \in Conns |-> NoRequest]

Arrive(r) ==
  \/ \E u \in Users, n \in Tokens : SignIn(r, u, n)
  \/ \E t \in issued \cup {NoToken}, n \in Tokens : PresentToken(r, t, n)
  \/ \E t \in issued \cup {NoToken}, u \in Users : SignOut(r, t, u)
  \/ \E u \in Users : SignOutEverywhere(r, u)

\* The statements of a request that never wait, and those that may.
Advance(r) == IssuePair(r) \/ CommitIssue(r) \/ ScanRows(r) \/ CommitRevoke(r)
                \/ DeadlockAbort(r)
Acquire(r) == ConsumePresented(r) \/ \E t \in Tokens : LockRow(r, t)

Next ==
  \/ \E r \in Conns : Arrive(r) \/ Advance(r) \/ Acquire(r) \/ Reply(r) \/ Crash(r)
  \/ \E t \in Tokens : Expire(t)
  \/ \E u \in Users : SetStatus(u)

\* A statement that can run does run; a row lock is granted in the order it
\* was asked for, so a wait is never passed over for ever.  Clients, clocks,
\* operators and crashes owe nothing.
Fairness == \A r \in Conns : WF_vars(Advance(r)) /\ SF_vars(Acquire(r))

Spec     == Init /\ [][Next]_vars
FairSpec == Spec /\ Fairness

-----------------------------------------------------------------------------
(* Properties.                                                             *)

\* Types: what is revoked or expired was issued first, and every column holds a
\* value of its own kind.
TypeOK ==
  /\ issued \subseteq Tokens /\ revoked \subseteq issued /\ expired \subseteq issued
  /\ suspended \subseteq Users
  /\ family \in [Tokens -> Tokens \cup {NoToken}]
  /\ owner  \in [Tokens -> Users \cup {NoUser}]
  /\ replacedBy \in [Tokens -> Tokens \cup {NoToken}]
  /\ req \in [Conns -> Request]

\* However many refreshes of a token race, and wherever they are cut off, a
\* family has one token that has not been traded in: a stolen token and its
\* successor are never both good.
OneHeadPerFamily ==
  \A s, t \in issued \ Consumed : family[s] = family[t] => s = t

\* A consumed token points at a successor that exists, in its own family and
\* of its own user, and at no other token's successor: a token buys one new
\* token, once.
RotationIsAChain ==
  /\ \A t \in Consumed : /\ replacedBy[t] \in issued \ {t}
                         /\ family[replacedBy[t]] = family[t]
                         /\ owner[replacedBy[t]] = owner[t]
  /\ \A s, t \in Consumed : replacedBy[s] = replacedBy[t] => s = t

\* The two together: a family is one chain, and only its end is good.
FamilyIsAChain == OneHeadPerFamily /\ RotationIsAChain

\* The answer "reused" is never given before the revocation it reports is
\* committed: all the rows the revoking statement saw are dead by then, and
\* so is the token presented.
ReuseAnswerIsDurable ==
  \A r \in Conns : req[r].answer = "reused" =>
    req[r].seen \subseteq revoked /\ req[r].tok \in revoked

\* A request revokes rows of one account only, and those of one device unless
\* it asked for all: somebody else's token signs nobody out.
MayRevoke(q, t) ==
  /\ q.kind \in {"refresh", "revoke", "revoke_all"}
  /\ q.user = owner[t]
  /\ q.kind # "revoke_all" => family[t] = family[q.tok]

RevocationStaysInScope ==
  [][\A t \in revoked' \ revoked : \E r \in Conns : req[r].pc = "lock" /\ MayRevoke(req[r], t)]_vars

\* A revoked token is never traded in afterwards, even by a refresh that read
\* it before it was revoked.
RevokedIsNeverRotated ==
  [][\A t \in revoked : replacedBy'[t] = replacedBy[t]]_vars

\* The two together: a revocation takes what it may, and takes it for good.
RevocationStands == RevocationStaysInScope /\ RevokedIsNeverRotated

\* Rotation, reuse detection and sign-out together do what the ledger says,
\* though each takes several transactions and any of them may be cut short.
Ledger == INSTANCE SessionLedger WITH used <- issued, live <- Live
ImplementsLedger == Ledger!Spec

\* Every request is answered, also one that waits for rows others hold.
EveryRequestEnds ==
  \A r \in Conns : req[r].pc # "idle" ~> req[r].pc \in {"idle", "done"}

\* What the service's documentation claims of reuse detection: when the
\* caller hears "reused", no token of the family is good any more.
ReuseKillsFamily ==
  \A r \in Conns : req[r].answer = "reused" =>
    \A t \in Live : family[t] # family[req[r].tok]

=============================================================================
