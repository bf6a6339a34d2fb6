----------------------------- MODULE OtpSignIn ------------------------------
(***************************************************************************)
(* One-time codes: AuthService.request_otp and verify_otp over             *)
(* SqlOtpChallengeRepository, for one e-mail address.                      *)
(*                                                                         *)
(* A request for a code is one transaction and a mail after its commit.  A *)
(* verification is one transaction that locks the newest live challenge,   *)
(* judges the guess and counts it, and on a match goes on to find or       *)
(* create the account.  No development bypass code is configured, as in    *)
(* production.                                                             *)
(***************************************************************************)
EXTENDS Naturals, FiniteSets

CONSTANTS Conns,        \* requests served at a time
          Codes,        \* challenges, each with a code of its own
          NoCode,       \* a guess that is nobody's code; no challenge
          MaxAttempts,  \* settings.otp_max_attempts
          MaxGuesses    \* bound: verifications

ASSUME OtpAssumption ==
  /\ NoCode \notin Codes /\ IsFiniteSet(Codes) /\ IsFiniteSet(Conns)
  /\ MaxAttempts \in Nat \ {0} /\ MaxGuesses \in Nat

VARIABLES
  born,       \* column created_at, as a rank; 0 for a challenge not yet drawn
  purpose,    \* column purpose
  rows,       \* committed rows of otp_challenges
  attempts,   \* column attempts
  consumed,   \* rows with consumed_at set
  expired,    \* rows with expires_at <= now
  cooled,     \* rows older than the resend cooldown
  account,    \* the user of this address
  guesses,
  signedIn,   \* history: sessions a code has bought
  told,       \* history: refusals answered on account of a challenge
  req         \* what each connection is doing

table == <<born, purpose, rows, attempts, consumed, expired, cooled>>
vars  == <<born, purpose, rows, attempts, consumed, expired, cooled, account,
           guesses, signedIn, told, req>>

Purposes == {"login", "signup"}
Verdicts == {"none", "missing", "exhausted", "expired", "mismatch", "matched"}

Request == [pc      : {"idle", "insert", "mail", "match", "count", "sign_in", "commit", "done"},
            code    : Codes \cup {NoCode},  \* the guess
            target  : Codes \cup {NoCode},  \* the challenge created, or locked
            seen    : SUBSET Codes,         \* live rows when the UPDATE started
            burned  : BOOLEAN,              \* the UPDATE set consumed_at
            verdict : Verdicts,
            create  : BOOLEAN]              \* get_by_email found nobody

NoRequest == [pc |-> "idle", code |-> NoCode, target |-> NoCode, seen |-> {},
              burned |-> FALSE, verdict |-> "none", create |-> FALSE]

Drawn   == {c \in Codes : born[c] > 0}
Live(p) == {c \in rows \ consumed : purpose[c] = p}

\* Mutant: ORDER BY created_at without DESC.
Oldest(S) == CHOOSE c \in S : \A d \in S : born[c] <= born[d]

Newest(S) == CHOOSE c \in S : \A d \in S : born[d] <= born[c]

\* A verification in progress has updated, and so locked, its target.
Locks(r) == req[r].pc \in {"count", "sign_in", "commit"}
LockedByOther(r, c) == \E s \in Conns \ {r} : Locks(s) /\ req[s].target = c

Finish(r) == req' = [req EXCEPT ![r].pc = "done"]

-----------------------------------------------------------------------------
(* request_otp.                                                            *)

\* latest_live and the cooldown: the newest unconsumed row of the purpose is
\* what counts, expired or not, delivered or not.
RequestCode(r, p, c) ==
  /\ req[r].pc = "idle" /\ c \notin Drawn
  /\ IF Live(p) # {} /\ Newest(Live(p)) \notin cooled
     THEN /\ Finish(r)
          /\ UNCHANGED <<born, purpose>>
     ELSE /\ born' = [born EXCEPT ![c] = Cardinality(Drawn) + 1]
          /\ purpose' = [purpose EXCEPT ![c] = p]
          /\ req' = [req EXCEPT ![r].pc = "insert", ![r].target = c]
  /\ UNCHANGED <<rows, attempts, consumed, expired, cooled, account, guesses, signedIn, told>>

\* The challenge and its OtpRequested event commit.
CommitCode(r) ==
  /\ req[r].pc = "insert"
  /\ rows' = rows \cup {req[r].target}
  /\ req' = [req EXCEPT ![r].pc = "mail"]
  /\ UNCHANGED <<born, purpose, attempts, consumed, expired, cooled, account,
                 guesses, signedIn, told>>

\* _deliver_otp: sent, refused or unreachable, the challenge stays.
Deliver(r) ==
  /\ req[r].pc = "mail"
  /\ Finish(r)
  /\ UNCHANGED <<table, account, guesses, signedIn, told>>

-----------------------------------------------------------------------------
(* verify_otp.                                                             *)

\* The UPDATE starts.  Whatever purpose the code was asked for, the one
\* verified is `login'.
VerifyCode(r, g) ==
  /\ req[r].pc = "idle" /\ guesses < MaxGuesses
  /\ guesses' = guesses + 1
  /\ req' = [req EXCEPT ![r].pc = "match", ![r].code = g, ![r].seen = Live("login")]
  /\ UNCHANGED <<table, account, signedIn, told>>

\* Mutant: the row is not looked at again once its lock is granted.
CandidatesStale(r) == req[r].seen

\* FOR UPDATE walks the snapshot from the newest row down, and passes over the
\* rows that have been consumed since.
Candidates(r) == req[r].seen \ consumed

\* What the statement makes of a guess: the CASE that sets consumed_at.
Burns(c, g) == g = c /\ c \notin expired /\ attempts[c] < MaxAttempts

\* What the code after it makes of the row returned.
Verdict(c, g) ==
  CASE attempts[c] + 1 > MaxAttempts -> "exhausted"
    [] attempts[c] + 1 <= MaxAttempts /\ c \in expired -> "expired"
    [] attempts[c] + 1 <= MaxAttempts /\ c \notin expired
         -> IF g = c THEN "matched" ELSE "mismatch"

\* Mutant: a statement that updated no row is not told apart.
MatchUnchecked(r) ==
  LET c == IF Candidates(r) = {} THEN NoCode ELSE Newest(Candidates(r)) IN
  /\ req[r].pc = "match"
  /\ ~LockedByOther(r, c)
  /\ req' = [req EXCEPT ![r].pc = "count", ![r].target = c, ![r].verdict = "mismatch"]
  /\ UNCHANGED <<table, account, guesses, signedIn, told>>

\* consume_if_matching, once the row's lock is granted.
MatchCode(r) ==
  /\ req[r].pc = "match"
  /\ IF Candidates(r) = {}
     THEN req' = [req EXCEPT ![r].pc = "done", ![r].verdict = "missing"]
     ELSE LET c == Newest(Candidates(r))
              v == Verdict(c, req[r].code) IN
          /\ ~LockedByOther(r, c)
          /\ req' = [req EXCEPT ![r].pc = IF v = "matched" THEN "sign_in" ELSE "count",
                                ![r].target = c, ![r].verdict = v,
                                ![r].burned = Burns(c, req[r].code)]
  /\ UNCHANGED <<table, account, guesses, signedIn, told>>

\* What the UPDATE did to its row appears when the transaction commits.
Apply(r) ==
  LET c == req[r].target IN
  /\ attempts' = [attempts EXCEPT ![c] = @ + 1]
  /\ consumed' = IF req[r].burned THEN consumed \cup {c} ELSE consumed

\* Mutant: the refusal is raised inside the transaction.
CountAndRaise(r) ==
  /\ req[r].pc = "count"
  /\ told' = [told EXCEPT ![req[r].target] = @ + 1]
  /\ Finish(r)
  /\ UNCHANGED <<table, account, guesses, signedIn>>

\* No match: the transaction is left normally, so that the attempt counts, and
\* only then is the refusal raised.
CountAttempt(r) ==
  /\ req[r].pc = "count"
  /\ Apply(r)
  /\ told' = [told EXCEPT ![req[r].target] = @ + 1]
  /\ Finish(r)
  /\ UNCHANGED <<born, purpose, rows, expired, cooled, account, guesses, signedIn>>

\* _complete_otp_sign_in up to _assert_active.  A suspended user raises, and
\* the code is not spent after all.
FindAccount(r) ==
  /\ req[r].pc = "sign_in"
  /\ IF account = "suspended"
     THEN Finish(r)
     ELSE req' = [req EXCEPT ![r].pc = "commit", ![r].create = (account = "absent")]
  /\ UNCHANGED <<table, account, guesses, signedIn, told>>

\* The commit, unless the account was created by somebody else meanwhile: then
\* the unique index on the address refused the INSERT.
CommitSignIn(r) ==
  /\ req[r].pc = "commit"
  /\ IF req[r].create /\ account # "absent"
     THEN UNCHANGED <<attempts, consumed, account, signedIn>>
     ELSE /\ Apply(r)
          /\ account' = IF req[r].create THEN "active" ELSE account
          /\ signedIn' = [signedIn EXCEPT ![req[r].target] = @ + 1]
  /\ Finish(r)
  /\ UNCHANGED <<born, purpose, rows, expired, cooled, guesses, told>>

-----------------------------------------------------------------------------
(* The world around.                                                       *)

Reply(r) ==
  /\ req[r].pc = "done"
  /\ req' = [req EXCEPT ![r] = NoRequest]
  /\ UNCHANGED <<table, account, guesses, signedIn, told>>

\* Whatever the request had not committed is rolled back.
Crash(r) ==
  /\ req[r].pc \notin {"idle", "done"}
  /\ req' = [req EXCEPT ![r] = NoRequest]
  /\ UNCHANGED <<table, account, guesses, signedIn, told>>

\* Time passes.  Older rows cool down first.
Cool(c) ==
  /\ c \in rows \ cooled /\ \A d \in rows \ cooled : born[c] <= born[d]
  /\ cooled' = cooled \cup {c}
  /\ UNCHANGED <<born, purpose, rows, attempts, consumed, expired, account,
                 guesses, signedIn, told, req>>

Expire(c) ==
  /\ c \in rows \ expired
  /\ expired' = expired \cup {c}
  /\ UNCHANGED <<born, purpose, rows, attempts, consumed, cooled, account,
                 guesses, signedIn, told, req>>

\* The account signs in by another route for the first time, is suspended or is
\* let in again.
ChangeAccount ==
  /\ account' = IF account = "active" THEN "suspended" ELSE "active"
  /\ UNCHANGED <<table, guesses, signedIn, told, req>>

-----------------------------------------------------------------------------

Init ==
  /\ born = [c \in Codes |-> 0]
  /\ purpose = [c \in Codes |-> "login"]
  /\ attempts = [c \in Codes |-> 0]
  /\ rows = {} /\ consumed = {} /\ expired = {} /\ cooled = {}
  /\ account = "absent" /\ guesses = 0
  /\ signedIn = [c \in Codes |-> 0]
  /\ told = [c \in Codes |-> 0]
  /\ req = [r \in Conns |-> NoRequest]

Requesting(r) == \/ \E p \in Purposes, c \in Codes : RequestCode(r, p, c)
                 \/ CommitCode(r) \/ Deliver(r)
Verifying(r)  == \/ \E g \in rows \cup {NoCode} : VerifyCode(r, g)
                 \/ MatchCode(r) \/ CountAttempt(r) \/ FindAccount(r) \/ CommitSignIn(r)

Next ==
  \/ \E r \in Conns : Requesting(r) \/ Verifying(r) \/ Reply(r) \/ Crash(r)
  \/ \E c \in Codes : Cool(c) \/ Expire(c)
  \/ ChangeAccount

Spec == Init /\ [][Next]_vars

-----------------------------------------------------------------------------
(* Properties.                                                             *)

\* Types: only stored challenges are consumed, and a verification that has
\* locked a row has locked one that is there.
TypeOK ==
  /\ born \in [Codes -> 0 .. Cardinality(Codes)]
  /\ purpose \in [Codes -> Purposes]
  /\ rows \subseteq Drawn
  /\ attempts \in [Codes -> 0 .. MaxGuesses]
  /\ consumed \subseteq rows /\ expired \subseteq rows /\ cooled \subseteq rows
  /\ account \in {"absent", "active", "suspended"}
  /\ guesses \in 0 .. MaxGuesses
  /\ signedIn \in [Codes -> Nat] /\ told \in [Codes -> Nat]
  /\ req \in [Conns -> Request]
  /\ \A r \in Conns : Locks(r) => req[r].target \in rows

\* A code buys one session, however many verifications of it race, and a code
\* whose session was rolled back is still good.
OneSignInPerCode ==
  \A c \in Codes : signedIn[c] = IF c \in consumed THEN 1 ELSE 0

\* Nobody is told that a guess failed without the guess having been counted:
\* parallel guesses, rollbacks and crashes give none away, and no guess beyond
\* the limit signs anybody in.
GuessesAreCounted ==
  /\ \A c \in Codes : told[c] + signedIn[c] <= attempts[c]
  /\ \A c \in consumed : attempts[c] <= MaxAttempts

\* A code is accepted only when every newer one that could be verified when
\* the verification started has been used.
NewestCodeOnly ==
  [][\A c \in consumed' \ consumed :
       \E r \in Conns : /\ req[r].target = c /\ req[r].pc = "commit"
                        /\ \A d \in req[r].seen : born[d] > born[c] => d \in consumed]_vars

=============================================================================
