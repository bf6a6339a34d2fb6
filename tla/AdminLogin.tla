----------------------------- MODULE AdminLogin -----------------------------
(***************************************************************************)
(* The admin console's password: AuthService.admin_password_login and      *)
(* set_admin_password, the route that changes the password, the reset      *)
(* script, and the one-time-code sign-in of the same account.              *)
(*                                                                         *)
(* A sign-in is one transaction: count the recent failures, compare the    *)
(* password, record the attempt, issue tokens.  Changing the password      *)
(* through the console is such a sign-in and then a transaction of its     *)
(* own, which holds the account's row of users while it revokes.           *)
(***************************************************************************)
EXTENDS Naturals, FiniteSets

CONSTANTS Conns, NoConn,
          MaxFailed,     \* settings.admin_max_failed_logins
          MaxSignIns,    \* bound: sign-ins begun
          MaxVersion     \* bound: times the password is set

ASSUME AdminAssumption ==
  /\ NoConn \notin Conns /\ IsFiniteSet(Conns)
  /\ MaxFailed \in Nat \ {0} /\ MaxSignIns \in Nat /\ MaxVersion \in Nat

VARIABLES
  now,       \* the clock, as the number of sign-ins begun
  floor,     \* attempts before this one have left the lockout window
  log,       \* committed rows of admin_login_attempts
  version,   \* users.password_hash: which password is set
  active,    \* users.status
  rowLock,   \* the connection that has updated the admin's row of users
  live,      \* the account's unrevoked sessions
  req

vars == <<now, floor, log, version, active, rowLock, live, req>>

Passwords == 0 .. MaxVersion
Wrong     == MaxVersion + 1   \* a guess that never was the password
Stamps    == 0 .. MaxSignIns

Attempt == [at : Stamps, ok : BOOLEAN, compared : BOOLEAN]
Session == [by : {"password", "otp"}, at : Stamps, version : Passwords]

Request == [pc       : {"idle", "count", "compare", "refuse", "issue", "mark", "issue_otp",
                        "set", "revoke", "commit", "done"},
            kind     : {"none", "login", "change", "otp", "reset"},
            at       : Stamps,                  \* `now' of the service method
            since    : Stamps,                  \* window_start
            guess    : Passwords \cup {Wrong},
            compared : BOOLEAN,                 \* the password was looked at
            seen     : SUBSET Session,          \* rows the revocation updates
            answer   : {"none", "refused", "inactive", "signed_in", "changed"}]

NoRequest == [pc |-> "idle", kind |-> "none", at |-> 0, since |-> 0, guess |-> Wrong,
              compared |-> FALSE, seen |-> {}, answer |-> "none"]

\* The transactions that have updated the row of users.
Holding(q) == q.pc \in {"revoke", "commit", "issue_otp"}

Ended(q, a) == [q EXCEPT !.pc = "done", !.answer = a, !.seen = {}]
Finish(r, a) == req' = [req EXCEPT ![r] = Ended(@, a)]

-----------------------------------------------------------------------------
(* Signing in with the password.                                           *)

\* POST auth/login, and the first half of POST auth/password.
Login(r, kind, guess) ==
  /\ req[r].pc = "idle" /\ now < MaxSignIns
  /\ now' = now + 1
  /\ req' = [req EXCEPT ![r] = [NoRequest EXCEPT !.pc = "count", !.kind = kind,
               !.at = now + 1, !.since = floor, !.guess = guess]]
  /\ UNCHANGED <<floor, log, version, active, rowLock, live>>

\* Failures in the window and after the last success.
RecentFailures(since) ==
  {a \in log : ~a.ok /\ a.at >= since /\ \A b \in log : b.ok => b.at < a.at}

LockedOut(r) == Cardinality(RecentFailures(req[r].since)) >= MaxFailed

CheckLockout(r) ==
  /\ req[r].pc = "count"
  /\ req' = [req EXCEPT ![r].pc = IF LockedOut(r) THEN "refuse" ELSE "compare"]
  /\ UNCHANGED <<now, floor, log, version, active, rowLock, live>>

\* get_password_hash and verify.  The right password of a suspended account
\* raises in _complete_admin_login, and takes the recorded attempt with it.
ComparePassword(r) ==
  LET ok == req[r].guess = version IN
  /\ req[r].pc = "compare"
  /\ IF ok /\ ~active
     THEN Finish(r, "inactive")
     ELSE req' = [req EXCEPT ![r].compared = TRUE,
                             ![r].pc = IF ok THEN "issue" ELSE "refuse"]
  /\ UNCHANGED <<now, floor, log, version, active, rowLock, live>>

\* Mutant: the refusal is raised inside the transaction.
RefuseAndRaise(r) ==
  /\ req[r].pc = "refuse"
  /\ Finish(r, "refused")
  /\ UNCHANGED <<now, floor, log, version, active, rowLock, live>>

\* Locked out or wrong: the failure is recorded and committed, then refused.
Refuse(r) ==
  /\ req[r].pc = "refuse"
  /\ log' = log \cup {[at |-> req[r].at, ok |-> FALSE, compared |-> req[r].compared]}
  /\ Finish(r, "refused")
  /\ UNCHANGED <<now, floor, version, active, rowLock, live>>

\* The commit of the sign-in.  The route that changes the password goes on.
CommitLogin(r) ==
  /\ req[r].pc = "issue"
  /\ log' = log \cup {[at |-> req[r].at, ok |-> TRUE, compared |-> TRUE]}
  /\ live' = live \cup {[by |-> "password", at |-> req[r].at, version |-> req[r].guess]}
  /\ IF req[r].kind = "change"
     THEN req' = [req EXCEPT ![r].pc = "set"]
     ELSE Finish(r, "signed_in")
  /\ UNCHANGED <<now, floor, version, active, rowLock>>

-----------------------------------------------------------------------------
(* Setting the password.                                                   *)

\* The reset script has no current password to give.
Reset(r) ==
  /\ req[r].pc = "idle"
  /\ req' = [req EXCEPT ![r] = [NoRequest EXCEPT !.pc = "set", !.kind = "reset"]]
  /\ UNCHANGED <<now, floor, log, version, active, rowLock, live>>

\* set_password updates the row of users, once no other transaction holds it.
SetPassword(r) ==
  /\ req[r].pc = "set" /\ version < MaxVersion
  /\ rowLock = NoConn
  /\ rowLock' = r
  /\ req' = [req EXCEPT ![r].pc = "revoke"]
  /\ UNCHANGED <<now, floor, log, version, active, live>>

\* revoke_all_for_user: its snapshot holds the committed sessions.
RevokeAll(r) ==
  /\ req[r].pc = "revoke"
  /\ req' = [req EXCEPT ![r].pc = "commit", ![r].seen = live]
  /\ UNCHANGED <<now, floor, log, version, active, rowLock, live>>

CommitPassword(r) ==
  /\ req[r].pc = "commit"
  /\ version' = version + 1
  /\ live' = live \ req[r].seen
  /\ rowLock' = NoConn
  /\ Finish(r, "changed")
  /\ UNCHANGED <<now, floor, log, active>>

-----------------------------------------------------------------------------
(* The same account, signing in with a one-time code.                      *)

StartOtp(r) ==
  /\ req[r].pc = "idle" /\ now < MaxSignIns
  /\ now' = now + 1
  /\ req' = [req EXCEPT ![r] = [NoRequest EXCEPT !.pc = "mark", !.kind = "otp", !.at = now + 1]]
  /\ UNCHANGED <<floor, log, version, active, rowLock, live>>

\* Mutant: the row is not written when the address is already verified.
MarkVerifiedNoWrite(r) ==
  /\ req[r].pc = "mark"
  /\ req' = [req EXCEPT ![r].pc = "issue_otp", ![r].guess = version]
  /\ UNCHANGED <<now, floor, log, version, active, rowLock, live>>

\* mark_email_verified writes the row of users even when it changes nothing,
\* and so holds it to the end of the transaction.  `guess' notes the password
\* in force.  A suspended account is refused.
MarkVerified(r) ==
  /\ req[r].pc = "mark"
  /\ rowLock = NoConn
  /\ IF active
     THEN /\ rowLock' = r
          /\ req' = [req EXCEPT ![r].pc = "issue_otp", ![r].guess = version]
     ELSE /\ Finish(r, "inactive")
          /\ UNCHANGED rowLock
  /\ UNCHANGED <<now, floor, log, version, active, live>>

CommitOtp(r) ==
  /\ req[r].pc = "issue_otp"
  /\ live' = live \cup {[by |-> "otp", at |-> req[r].at, version |-> req[r].guess]}
  /\ rowLock' = IF rowLock = r THEN NoConn ELSE rowLock
  /\ Finish(r, "signed_in")
  /\ UNCHANGED <<now, floor, log, version, active>>

-----------------------------------------------------------------------------

Reply(r) ==
  /\ req[r].pc = "done"
  /\ req' = [req EXCEPT ![r] = NoRequest]
  /\ UNCHANGED <<now, floor, log, version, active, rowLock, live>>

\* The transaction in progress is rolled back; one that has committed stands.
Crash(r) ==
  /\ req[r].pc \notin {"idle", "done"}
  /\ req' = [req EXCEPT ![r] = NoRequest]
  /\ rowLock' = IF rowLock = r THEN NoConn ELSE rowLock
  /\ UNCHANGED <<now, floor, log, version, active, live>>

\* The lockout window moves on.
Slide ==
  /\ floor < now
  /\ floor' = floor + 1
  /\ UNCHANGED <<now, log, version, active, rowLock, live, req>>

SetStatus ==
  /\ active' = ~active
  /\ UNCHANGED <<now, floor, log, version, rowLock, live, req>>

-----------------------------------------------------------------------------

Init ==
  /\ now = 0 /\ floor = 0 /\ log = {} /\ version = 0 /\ active = TRUE
  /\ rowLock = NoConn /\ live = {}
  /\ req = [r \in Conns |-> NoRequest]

SigningIn(r) ==
  \/ \E kind \in {"login", "change"}, guess \in (0 .. version) \cup {Wrong} :
       Login(r, kind, guess)
  \/ CheckLockout(r) \/ ComparePassword(r) \/ Refuse(r) \/ CommitLogin(r)
  \/ StartOtp(r) \/ MarkVerified(r) \/ CommitOtp(r)
Changing(r) == Reset(r) \/ SetPassword(r) \/ RevokeAll(r) \/ CommitPassword(r)

Next ==
  \/ \E r \in Conns : SigningIn(r) \/ Changing(r) \/ Reply(r) \/ Crash(r)
  \/ Slide \/ SetStatus

Spec == Init /\ [][Next]_vars

-----------------------------------------------------------------------------
(* Properties.                                                             *)

\* Types: the row of users is held by exactly the transaction that has updated
\* it.
TypeOK ==
  /\ now \in Stamps /\ floor \in 0 .. now
  /\ log \subseteq Attempt
  /\ version \in Passwords /\ active \in BOOLEAN
  /\ rowLock \in Conns \cup {NoConn}
  /\ live \subseteq Session
  /\ req \in [Conns -> Request]
  /\ \A r \in Conns : Holding(req[r]) <=> rowLock = r

\* Counting and recording are separate statements, so parallel guesses do get
\* past the limit; but by no more than there are connections to make them on.
LockoutOverrunIsBounded ==
  Cardinality({a \in RecentFailures(floor) : a.compared}) <= MaxFailed + Cardinality(Conns) - 1

\* A refusal is never answered before it is on record, and it counts.
RefusalIsOnRecord ==
  \A r \in Conns : req[r].answer = "refused" => \E a \in log : a.at = req[r].at /\ ~a.ok

\* The two together: guesses count, and the limit holds up to the requests in
\* flight.
FailuresAreCounted == RefusalIsOnRecord /\ LockoutOverrunIsBounded

\* No session opened with a one-time code outlives a change of the password it
\* was opened under, even when the sign-in is in flight during the change: the
\* two meet at the row of users.
OtpSessionsRespectChange ==
  \A s \in live : s.by = "otp" => s.version = version

=============================================================================
