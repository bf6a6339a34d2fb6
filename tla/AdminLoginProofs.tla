-------------------------- MODULE AdminLoginProofs --------------------------
(* Theorems about the admin's sign-in, for any number of connections,       *)
(* sign-ins and changes of the password.                                    *)
EXTENDS AdminLogin, FiniteSetTheorems, TLAPS

(***************************************************************************)
(* The inductive invariant.  A transaction that has updated the row of     *)
(* users is the only one: the password cannot change under a one-time-code *)
(* sign-in that holds the row, and none commits between the snapshot of a  *)
(* revocation and its commit.                                              *)
(***************************************************************************)

\* What a request may rely on, given the password, the sessions and the log.
SoundIn(q, v, sessions, attempts) ==
  /\ q.pc = "issue" => q.guess \in Passwords
  /\ q.pc = "issue_otp" => q.guess = v
  /\ q.pc \in {"revoke", "commit"} => v < MaxVersion
  /\ q.pc = "commit" => \A s \in sessions : s.by = "otp" => s \in q.seen
  /\ q.answer = "refused" => \E a \in attempts : a.at = q.at /\ ~a.ok

Sound(q)     == SoundIn(q, version, live, log)
SoundNext(q) == SoundIn(q, version', live', log')

IInv ==
  /\ TypeOK
  /\ OtpSessionsRespectChange
  /\ \A r \in Conns : Sound(req[r])

Tables == /\ now \in Stamps /\ floor \in 0 .. now
          /\ log \subseteq Attempt
          /\ version \in Passwords /\ active \in BOOLEAN
          /\ rowLock \in Conns \cup {NoConn}
          /\ live \subseteq Session

LEMMA Idle == NoRequest \in Request /\ ~Holding(NoRequest) /\ NoRequest.answer = "none"
              /\ NoRequest.pc = "idle"
  BY AdminAssumption DEF NoRequest, Request, Holding, Stamps, Wrong

\* A sign-in begins, and takes the next stamp.
LEMMA ClockStep ==
  ASSUME Tables, now < MaxSignIns, now' = now + 1,
         UNCHANGED <<floor, log, version, active, rowLock, live>>
  PROVE  Tables'
<1>1. now \in 0 .. MaxSignIns /\ floor \in 0 .. now /\ MaxSignIns \in Nat
  BY AdminAssumption DEF Tables, Stamps
<1>2. now' \in Stamps /\ floor' \in 0 .. now'
  BY <1>1 DEF Stamps
<1> QED
  BY <1>2 DEF Tables

LEMMA InitInv == Init => IInv
<1> SUFFICES ASSUME Init PROVE IInv
  OBVIOUS
<1> USE AdminAssumption DEF Init
<1>2. TypeOK
  BY Idle DEF TypeOK, Stamps, Passwords
<1>3. OtpSessionsRespectChange
  BY DEF OtpSessionsRespectChange
<1>4. \A r \in Conns : Sound(req[r])
  BY Idle DEF Sound, SoundNext, SoundIn
<1> QED
  BY <1>2, <1>3, <1>4 DEF IInv

(***************************************************************************)
(* A step of one request that leaves the password alone, and opens a       *)
(* one-time-code session only while it holds the row.                      *)
(***************************************************************************)
LEMMA RequestStep ==
  ASSUME IInv, NEW r \in Conns, NEW q \in Request,
         req' = [req EXCEPT ![r] = q],
         Tables',
         SoundNext(q),
         Holding(q) <=> rowLock' = r,
         \/ rowLock' = rowLock
         \/ rowLock = NoConn /\ rowLock' = r
         \/ rowLock = r /\ rowLock' = NoConn,
         log \subseteq log',
         version' = version,
         \A s \in live' \ live : s.by = "otp" => s.version = version /\ rowLock = r
  PROVE  IInv'
<1> USE AdminAssumption
<1>1. req \in [Conns -> Request] /\ \A s \in Conns : Holding(req[s]) <=> rowLock = s
  BY DEF IInv, TypeOK
<1>2. req' \in [Conns -> Request] /\ req'[r] = q
      /\ \A s \in Conns \ {r} : req'[s] = req[s]
  BY <1>1
<1>3. \A s \in Conns \ {r} : rowLock' = s <=> rowLock = s
  OBVIOUS
<1>4. TypeOK'
  <2>1. \A s \in Conns : Holding(req'[s]) <=> rowLock' = s
    BY <1>1, <1>2, <1>3
  <2> QED
    BY <1>2, <2>1 DEF TypeOK, Tables
<1>5. OtpSessionsRespectChange'
  BY DEF OtpSessionsRespectChange, IInv
<1>6. ASSUME NEW s \in Conns PROVE Sound(req[s])'
  <2>1. CASE s = r
    BY <2>1, <1>2 DEF Sound, SoundNext, SoundIn
  <2>2. CASE s # r
    <3>1. Sound(req[s]) /\ req'[s] = req[s]
      BY <2>2, <1>2 DEF IInv
    <3>2. req[s].pc = "commit" => rowLock # r
      BY <2>2, <1>1 DEF Holding
    <3>3. req[s].pc = "commit" => \A x \in live' : x.by = "otp" => x \in req[s].seen
      BY <3>1, <3>2 DEF Sound, SoundNext, SoundIn
    <3>4. req[s].answer = "refused" => \E a \in log' : a.at = req[s].at /\ ~a.ok
      BY <3>1 DEF Sound, SoundNext, SoundIn
    <3> QED
      BY <3>1, <3>3, <3>4 DEF Sound, SoundNext, SoundIn
  <2> QED
    BY <2>1, <2>2
<1> QED
  BY <1>4, <1>5, <1>6 DEF IInv

\* Most steps touch their own request only, and neither take nor release the row.
LEMMA QuietStep ==
  ASSUME IInv, NEW r \in Conns, NEW q \in Request,
         req' = [req EXCEPT ![r] = q],
         Sound(q), Holding(q) <=> Holding(req[r]),
         Tables',
         UNCHANGED <<log, version, rowLock, live>>
  PROVE  IInv'
<1>1. SoundNext(q)
  BY DEF Sound, SoundNext, SoundIn, SoundNext
<1>2. Holding(q) <=> rowLock' = r
  BY DEF IInv, TypeOK
<1> QED
  BY <1>1, <1>2, RequestStep

LEMMA LoginSteps ==
  ASSUME IInv, NEW r \in Conns,
         \/ \E kind \in {"login", "change"}, guess \in (0 .. version) \cup {Wrong} :
              Login(r, kind, guess)
         \/ CheckLockout(r) \/ ComparePassword(r) \/ StartOtp(r) \/ Reset(r) \/ Reply(r)
         \/ RevokeAll(r)
  PROVE  IInv'
<1> USE AdminAssumption
<1>1. req[r] \in Request /\ Sound(req[r]) /\ now \in Nat /\ Tables /\ version \in Passwords
      /\ req \in [Conns -> Request]
  BY DEF IInv, TypeOK, Tables, Stamps
<1>2. ASSUME NEW kind \in {"login", "change"}, NEW guess \in (0 .. version) \cup {Wrong},
             Login(r, kind, guess)
      PROVE  IInv'
  <2> DEFINE q == [NoRequest EXCEPT !.pc = "count", !.kind = kind,
                     !.at = now + 1, !.since = floor, !.guess = guess]
  <2>1. guess \in Passwords \cup {Wrong} /\ floor \in Stamps /\ now + 1 \in Stamps
    <3>1. guess \in Passwords \cup {Wrong}
      BY <1>1 DEF Passwords
    <3>2. now' = now + 1 /\ now < MaxSignIns /\ floor \in 0 .. now /\ now \in Nat
      BY <1>1, <1>2 DEF Tables, Login
    <3>3. floor \in Stamps /\ now + 1 \in Stamps
      BY <3>2 DEF Stamps
    <3> QED
      BY <3>1, <3>3
  <2>2. q \in Request /\ q.pc = "count" /\ q.answer = "none"
    BY <2>1 DEF NoRequest, Request
  <2>3. req' = [req EXCEPT ![r] = q] /\ req[r].pc = "idle"
        /\ UNCHANGED <<log, version, rowLock, live>>
    BY <1>2 DEF Login
  <2>4. Tables'
    BY <1>1, <1>2, ClockStep DEF Login
  <2> HIDE DEF q
  <2>5. Sound(q) /\ (Holding(q) <=> Holding(req[r]))
    BY <2>2, <2>3 DEF Sound, SoundNext, SoundIn, Holding
  <2> QED
    BY <2>2, <2>3, <2>4, <2>5, QuietStep
<1>3. CASE CheckLockout(r)
  <2> DEFINE q == [req[r] EXCEPT !.pc = IF LockedOut(r) THEN "refuse" ELSE "compare"]
  <2>1. q \in Request /\ q.pc \in {"refuse", "compare"} /\ q.answer = req[r].answer
        /\ q.at = req[r].at
    BY <1>1 DEF Request
  <2>2. req' = [req EXCEPT ![r] = q] /\ req[r].pc = "count"
        /\ UNCHANGED <<now, floor, log, version, active, rowLock, live>>
    BY <1>3 DEF CheckLockout
  <2> HIDE DEF q
  <2>3. Sound(q) /\ (Holding(q) <=> Holding(req[r])) /\ Tables'
    BY <1>1, <2>1, <2>2 DEF Sound, SoundNext, SoundIn, Holding, Tables
  <2> QED
    BY <2>1, <2>2, <2>3, QuietStep
<1>4. CASE ComparePassword(r)
  <2> DEFINE ok == req[r].guess = version
             q == IF ok /\ ~active THEN Ended(req[r], "inactive")
                  ELSE [req[r] EXCEPT !.compared = TRUE,
                                      !.pc = IF ok THEN "issue" ELSE "refuse"]
  <2>1. /\ q \in Request /\ q.pc \in {"done", "issue", "refuse"}
        /\ q.answer \in {"inactive", req[r].answer} /\ q.at = req[r].at
        /\ q.guess = req[r].guess
        /\ q.pc = "issue" => req[r].guess = version
    BY <1>1 DEF Request, Ended
  <2>2. req' = [req EXCEPT ![r] = q] /\ req[r].pc = "compare"
        /\ UNCHANGED <<now, floor, log, version, active, rowLock, live>>
    <3>1. CASE ok /\ ~active
      BY <1>4, <3>1 DEF ComparePassword, Finish
    <3>2. CASE ~(ok /\ ~active)
      BY <1>1, <1>4, <3>2 DEF ComparePassword
    <3> QED
      BY <3>1, <3>2
  <2> HIDE DEF q
  <2>3. Sound(q) /\ (Holding(q) <=> Holding(req[r])) /\ Tables'
    BY <1>1, <2>1, <2>2 DEF Sound, SoundNext, SoundIn, Holding, Tables
  <2> QED
    BY <2>1, <2>2, <2>3, QuietStep
<1>5. CASE StartOtp(r)
  <2> DEFINE q == [NoRequest EXCEPT !.pc = "mark", !.kind = "otp", !.at = now + 1]
  <2>1. now + 1 \in Stamps
    BY <1>1, <1>5 DEF Stamps, StartOtp
  <2>2. q \in Request /\ q.pc = "mark" /\ q.answer = "none"
    BY <2>1, Idle DEF NoRequest, Request
  <2>3. req' = [req EXCEPT ![r] = q] /\ req[r].pc = "idle"
        /\ UNCHANGED <<log, version, rowLock, live>>
    BY <1>5 DEF StartOtp
  <2>4. Tables'
    BY <1>1, <1>5, ClockStep DEF StartOtp
  <2> HIDE DEF q
  <2>5. Sound(q) /\ (Holding(q) <=> Holding(req[r]))
    BY <2>2, <2>3 DEF Sound, SoundNext, SoundIn, Holding
  <2> QED
    BY <2>2, <2>3, <2>4, <2>5, QuietStep
<1>6. CASE Reset(r) \/ Reply(r)
  <2>1. PICK q \in {NoRequest, [NoRequest EXCEPT !.pc = "set", !.kind = "reset"]} :
          req' = [req EXCEPT ![r] = q]
    BY <1>6 DEF Reset, Reply
  <2>2. q \in Request /\ q.pc \in {"idle", "set"} /\ q.answer = "none"
    BY Idle DEF NoRequest, Request
  <2>3. req[r].pc \in {"idle", "done"}
        /\ UNCHANGED <<now, floor, log, version, active, rowLock, live>>
    BY <1>6 DEF Reset, Reply
  <2>4. Sound(q) /\ (Holding(q) <=> Holding(req[r])) /\ Tables'
    BY <1>1, <2>2, <2>3 DEF Sound, SoundNext, SoundIn, Holding, Tables
  <2> QED
    BY <2>1, <2>2, <2>3, <2>4, QuietStep
<1>7. CASE RevokeAll(r)
  <2> DEFINE q == [req[r] EXCEPT !.pc = "commit", !.seen = live]
  <2>1. q \in Request /\ q.pc = "commit" /\ q.answer = req[r].answer /\ q.at = req[r].at
        /\ q.seen = live
    BY <1>1 DEF Request, Tables
  <2>2. req' = [req EXCEPT ![r] = q] /\ req[r].pc = "revoke"
        /\ UNCHANGED <<now, floor, log, version, active, rowLock, live>>
    BY <1>1, <1>7 DEF RevokeAll
  <2> HIDE DEF q
  <2>3. Sound(q) /\ (Holding(q) <=> Holding(req[r])) /\ Tables'
    BY <1>1, <2>1, <2>2 DEF Sound, SoundNext, SoundIn, Holding, Tables
  <2> QED
    BY <2>1, <2>2, <2>3, QuietStep
<1> QED
  BY <1>2, <1>3, <1>4, <1>5, <1>6, <1>7

(***************************************************************************)
(* The steps that write a table, or take or release the row of users.      *)
(***************************************************************************)

LEMMA RefuseStep == ASSUME IInv, NEW r \in Conns, Refuse(r) PROVE IInv'
<1> DEFINE q == Ended(req[r], "refused")
           a == [at |-> req[r].at, ok |-> FALSE, compared |-> req[r].compared]
<1>1. req[r] \in Request /\ req[r].pc = "refuse" /\ Tables
  BY DEF IInv, TypeOK, Tables, Refuse
<1>2. q \in Request /\ q.pc = "done" /\ q.at = req[r].at
  BY <1>1 DEF Request, Ended
<1>3. a \in Attempt /\ a.at = req[r].at /\ ~a.ok
  BY <1>1 DEF Request, Attempt
<1>4. /\ req' = [req EXCEPT ![r] = q] /\ log' = log \cup {a}
      /\ UNCHANGED <<now, floor, version, active, rowLock, live>>
  BY DEF Refuse, Finish
<1> HIDE DEF q, a
<1>5. Tables'
  BY <1>1, <1>3, <1>4 DEF Tables
<1>6. SoundNext(q)
  BY <1>2, <1>3, <1>4 DEF Sound, SoundNext, SoundIn
<1>7. Holding(q) <=> rowLock' = r
  BY <1>1, <1>2, <1>4 DEF Holding, IInv, TypeOK
<1> QED
  BY <1>2, <1>4, <1>5, <1>6, <1>7, RequestStep

LEMMA CommitLoginStep == ASSUME IInv, NEW r \in Conns, CommitLogin(r) PROVE IInv'
<1> DEFINE q == IF req[r].kind = "change" THEN [req[r] EXCEPT !.pc = "set"]
                                          ELSE Ended(req[r], "signed_in")
           a == [at |-> req[r].at, ok |-> TRUE, compared |-> TRUE]
           s == [by |-> "password", at |-> req[r].at, version |-> req[r].guess]
<1>1. req[r] \in Request /\ req[r].pc = "issue" /\ Tables /\ Sound(req[r])
      /\ req \in [Conns -> Request]
  BY DEF IInv, TypeOK, Tables, CommitLogin
<1>2. /\ q \in Request /\ q.pc \in {"set", "done"} /\ q.at = req[r].at
      /\ q.answer \in {"signed_in", req[r].answer}
  BY <1>1 DEF Request, Ended
<1>3. a \in Attempt /\ s \in Session /\ s.by = "password"
  BY <1>1 DEF Request, Attempt, Session, Sound, SoundNext, SoundIn
<1>4. req' = [req EXCEPT ![r] = q]
  <2>1. CASE req[r].kind = "change"
    BY <1>1, <2>1 DEF CommitLogin
  <2>2. CASE req[r].kind # "change"
    BY <2>2 DEF CommitLogin, Finish
  <2> QED
    BY <2>1, <2>2
<1>5. /\ log' = log \cup {a} /\ live' = live \cup {s}
      /\ UNCHANGED <<now, floor, version, active, rowLock>>
  BY DEF CommitLogin
<1> HIDE DEF q, a, s
<1>6. Tables'
  BY <1>1, <1>3, <1>5 DEF Tables
<1>7. SoundNext(q)
  BY <1>1, <1>2, <1>5 DEF Sound, SoundNext, SoundIn
<1>8. Holding(q) <=> rowLock' = r
  BY <1>1, <1>2, <1>5 DEF Holding, IInv, TypeOK
<1>9. \A x \in live' \ live : x.by # "otp"
  BY <1>3, <1>5
<1> QED
  BY <1>2, <1>4, <1>5, <1>6, <1>7, <1>8, <1>9, RequestStep

LEMMA SetPasswordStep == ASSUME IInv, NEW r \in Conns, SetPassword(r) PROVE IInv'
<1> DEFINE q == [req[r] EXCEPT !.pc = "revoke"]
<1>1. req[r] \in Request /\ Tables /\ Sound(req[r]) /\ req \in [Conns -> Request]
      /\ req[r].pc = "set"
  BY DEF IInv, TypeOK, Tables, SetPassword
<1>2. q \in Request /\ q.pc = "revoke" /\ q.answer = req[r].answer /\ q.at = req[r].at
  BY <1>1 DEF Request
<1>3. /\ req' = [req EXCEPT ![r] = q] /\ rowLock = NoConn /\ rowLock' = r
      /\ version < MaxVersion
      /\ UNCHANGED <<now, floor, log, version, active, live>>
  BY <1>1 DEF SetPassword
<1> HIDE DEF q
<1>4. Tables' /\ SoundNext(q) /\ Holding(q)
  BY <1>1, <1>2, <1>3 DEF Tables, Sound, SoundNext, SoundIn, Holding
<1> QED
  BY <1>2, <1>3, <1>4, RequestStep

LEMMA MarkVerifiedStep == ASSUME IInv, NEW r \in Conns, MarkVerified(r) PROVE IInv'
<1>1. req[r] \in Request /\ Tables /\ Sound(req[r]) /\ req \in [Conns -> Request]
      /\ req[r].pc = "mark" /\ rowLock = NoConn /\ NoConn # r
  BY AdminAssumption DEF IInv, TypeOK, Tables, MarkVerified
<1>2. CASE active
  <2> DEFINE q == [req[r] EXCEPT !.pc = "issue_otp", !.guess = version]
  <2>1. q \in Request /\ q.pc = "issue_otp" /\ q.guess = version
        /\ q.answer = req[r].answer /\ q.at = req[r].at
    BY <1>1 DEF Request, Tables
  <2>2. /\ req' = [req EXCEPT ![r] = q] /\ rowLock' = r
        /\ UNCHANGED <<now, floor, log, version, active, live>>
    BY <1>1, <1>2 DEF MarkVerified
  <2> HIDE DEF q
  <2>3. Tables' /\ SoundNext(q) /\ Holding(q)
    BY <1>1, <2>1, <2>2 DEF Tables, Sound, SoundNext, SoundIn, Holding
  <2> QED
    BY <1>1, <2>1, <2>2, <2>3, RequestStep
<1>3. CASE ~active
  <2> DEFINE q == Ended(req[r], "inactive")
  <2>1. q \in Request /\ q.pc = "done" /\ q.answer = "inactive"
    BY <1>1 DEF Request, Ended
  <2>2. /\ req' = [req EXCEPT ![r] = q]
        /\ UNCHANGED <<now, floor, log, version, active, rowLock, live>>
    BY <1>3 DEF MarkVerified, Finish
  <2> HIDE DEF q
  <2>3. Tables' /\ Sound(q) /\ (Holding(q) <=> Holding(req[r]))
    BY <1>1, <2>1, <2>2 DEF Tables, Sound, SoundNext, SoundIn, Holding
  <2> QED
    BY <2>1, <2>2, <2>3, QuietStep
<1> QED
  BY <1>2, <1>3

LEMMA CommitOtpStep == ASSUME IInv, NEW r \in Conns, CommitOtp(r) PROVE IInv'
<1> DEFINE q == Ended(req[r], "signed_in")
           s == [by |-> "otp", at |-> req[r].at, version |-> req[r].guess]
<1>1. req[r] \in Request /\ Tables /\ Sound(req[r]) /\ req[r].pc = "issue_otp"
      /\ rowLock = r
  BY DEF IInv, TypeOK, Tables, CommitOtp, Holding
<1>2. q \in Request /\ q.pc = "done" /\ q.answer = "signed_in"
  BY <1>1 DEF Request, Ended
<1>3. s \in Session /\ s.version = version
  BY <1>1 DEF Request, Session, Sound, SoundNext, SoundIn, Tables
<1>4. /\ req' = [req EXCEPT ![r] = q] /\ live' = live \cup {s} /\ rowLock' = NoConn
      /\ UNCHANGED <<now, floor, log, version, active>>
  BY <1>1 DEF CommitOtp, Finish
<1> HIDE DEF q, s
<1>5. Tables' /\ SoundNext(q) /\ ~Holding(q) /\ rowLock' # r
  BY <1>1, <1>2, <1>3, <1>4, AdminAssumption DEF Tables, Sound, SoundNext, SoundIn, Holding
<1>6. \A x \in live' \ live : x.version = version
  BY <1>3, <1>4
<1> QED
  BY <1>1, <1>2, <1>4, <1>5, <1>6, RequestStep

LEMMA CrashStep == ASSUME IInv, NEW r \in Conns, Crash(r) PROVE IInv'
<1>1. Tables /\ (Holding(req[r]) <=> rowLock = r) /\ r # NoConn
  BY AdminAssumption DEF IInv, TypeOK, Tables
<1>2. /\ req' = [req EXCEPT ![r] = NoRequest]
      /\ rowLock' = IF rowLock = r THEN NoConn ELSE rowLock
      /\ UNCHANGED <<now, floor, log, version, active, live>>
  BY DEF Crash
<1>3. Tables' /\ SoundNext(NoRequest) /\ rowLock' # r
  BY <1>1, <1>2, Idle DEF Tables, Sound, SoundNext, SoundIn
<1> QED
  BY <1>1, <1>2, <1>3, Idle, RequestStep

\* The only step that changes the password.  It holds the row, so nobody else
\* does, and what it revokes is every one-time-code session there is.
LEMMA CommitPasswordStep == ASSUME IInv, NEW r \in Conns, CommitPassword(r) PROVE IInv'
<1> DEFINE q == Ended(req[r], "changed")
<1>1. /\ req[r] \in Request /\ Tables /\ Sound(req[r]) /\ req[r].pc = "commit"
      /\ rowLock = r /\ req \in [Conns -> Request]
      /\ \A s \in Conns : Holding(req[s]) <=> rowLock = s
  BY DEF IInv, TypeOK, Tables, CommitPassword, Holding
<1>2. q \in Request /\ q.pc = "done" /\ q.answer = "changed"
  BY <1>1 DEF Request, Ended
<1>3. /\ req' = [req EXCEPT ![r] = q] /\ live' = live \ req[r].seen
      /\ version' = version + 1 /\ rowLock' = NoConn
      /\ UNCHANGED <<now, floor, log, active>>
  BY DEF CommitPassword, Finish
<1> HIDE DEF q
<1>4. \A s \in live' : s.by # "otp"
  BY <1>1, <1>3 DEF Sound, SoundNext, SoundIn
<1>5. version < MaxVersion /\ version \in Nat /\ MaxVersion \in Nat
  BY <1>1, AdminAssumption DEF Sound, SoundNext, SoundIn, Tables, Passwords
<1>6. Tables'
  BY <1>1, <1>3, <1>5 DEF Tables, Passwords
<1>7. \A s \in Conns \ {r} : req'[s] = req[s] /\ ~Holding(req[s])
  BY <1>1, <1>3
<1>8. req' \in [Conns -> Request] /\ req'[r] = q
  BY <1>1, <1>2, <1>3
<1>9. TypeOK'
  <2>1. \A s \in Conns : Holding(req'[s]) <=> rowLock' = s
    BY <1>2, <1>3, <1>7, <1>8, AdminAssumption DEF Holding
  <2> QED
    BY <1>6, <1>8, <2>1 DEF TypeOK, Tables
<1>10. OtpSessionsRespectChange'
  BY <1>4 DEF OtpSessionsRespectChange
<1>11. \A s \in Conns : Sound(req[s])'
  <2> SUFFICES ASSUME NEW s \in Conns PROVE Sound(req[s])'
    OBVIOUS
  <2>1. CASE s = r
    BY <2>1, <1>2, <1>8 DEF Sound, SoundNext, SoundIn
  <2>2. CASE s # r
    BY <2>2, <1>3, <1>7 DEF Sound, SoundNext, SoundIn, Holding, IInv
  <2> QED
    BY <2>1, <2>2
<1> QED
  BY <1>9, <1>10, <1>11 DEF IInv

LEMMA NextInv == IInv /\ [Next]_vars => IInv'
<1> SUFFICES ASSUME IInv, [Next]_vars PROVE IInv'
  OBVIOUS
<1>1. ASSUME NEW r \in Conns, SigningIn(r) PROVE IInv'
  BY <1>1, LoginSteps, RefuseStep, CommitLoginStep, MarkVerifiedStep, CommitOtpStep
     DEF SigningIn
<1>2. ASSUME NEW r \in Conns, Changing(r) PROVE IInv'
  BY <1>2, LoginSteps, SetPasswordStep, CommitPasswordStep DEF Changing
<1>3. ASSUME NEW r \in Conns, Reply(r) \/ Crash(r) PROVE IInv'
  BY <1>3, LoginSteps, CrashStep
<1>4. CASE Slide \/ SetStatus \/ UNCHANGED vars
  <2>1. Tables
    BY DEF IInv, TypeOK, Tables
  <2>2. Tables' /\ UNCHANGED <<log, version, rowLock, live, req>>
    <3>1. CASE Slide
      <4>1. now \in Nat /\ floor \in 0 .. now /\ now' = now /\ floor' = floor + 1
            /\ floor < now
        BY <2>1, <3>1 DEF Slide, Tables, Stamps
      <4>2. floor' \in 0 .. now'
        BY <4>1
      <4> QED
        BY <2>1, <3>1, <4>2 DEF Slide, Tables
    <3>2. CASE SetStatus
      BY <2>1, <3>2 DEF SetStatus, Tables
    <3>3. CASE UNCHANGED vars
      BY <2>1, <3>3 DEF vars, Tables
    <3> QED
      BY <1>4, <3>1, <3>2, <3>3
  <2>3. TypeOK'
    BY <2>2 DEF IInv, TypeOK, Tables, Holding
  <2> QED
    BY <2>2, <2>3 DEF IInv, OtpSessionsRespectChange, Sound, SoundIn
<1> QED
  BY <1>1, <1>2, <1>3, <1>4 DEF Next

LEMMA Invariance == Spec => []IInv
  BY InitInv, NextInv, PTL DEF Spec

(***************************************************************************)
(* The lockout.  A guess that has passed the count and is not on record    *)
(* yet is in flight.  One goes up only when fewer than MaxFailed failures  *)
(* are on record, so recorded and in-flight guesses together stay below    *)
(* MaxFailed + Cardinality(Conns).                                         *)
(***************************************************************************)

InFlight(q) == q.pc = "compare" \/ (q.pc = "refuse" /\ q.compared)
Flights     == {r \in Conns : InFlight(req[r])}
Guesses     == {a \in RecentFailures(floor) : a.compared}

\* A request that is about to count looks at a window that holds the current one.
Windows == \A r \in Conns : req[r].pc = "count" => req[r].since <= floor /\ ~req[r].compared

\* F is what is on record, I what is in flight.
Room(F, I) == Cardinality(F) + Cardinality(I) <= MaxFailed - 1 + Cardinality(Conns)

LockInv == IsFiniteSet(log) /\ Windows /\ Room(Guesses, Flights)

LEMMA FiniteParts ==
  ASSUME IsFiniteSet(log)
  PROVE  /\ IsFiniteSet(Guesses) /\ IsFiniteSet(Flights) /\ IsFiniteSet(Conns)
         /\ Cardinality(Guesses) \in Nat /\ Cardinality(Flights) \in Nat
         /\ Cardinality(Conns) \in Nat /\ Cardinality(Flights) <= Cardinality(Conns)
<1>1. Guesses \in SUBSET log /\ Flights \in SUBSET Conns
  BY DEF Guesses, RecentFailures, Flights
<1>2. IsFiniteSet(Conns)
  BY AdminAssumption DEF AdminAssumption
<1>3. IsFiniteSet(Guesses) /\ IsFiniteSet(Flights) /\ Cardinality(Flights) <= Cardinality(Conns)
  BY <1>1, <1>2, FS_Subset
<1> QED
  BY <1>2, <1>3, FS_CardinalityType

\* A step that adds to neither set leaves room.
LEMMA RoomStays ==
  ASSUME LockInv, NEW F \in SUBSET Guesses, NEW I \in SUBSET Flights
  PROVE  Room(F, I)
<1>1. IsFiniteSet(Guesses) /\ IsFiniteSet(Flights) /\ Cardinality(Guesses) \in Nat
      /\ Cardinality(Flights) \in Nat /\ Cardinality(Conns) \in Nat
  BY FiniteParts DEF LockInv
<1>2. Cardinality(F) <= Cardinality(Guesses) /\ Cardinality(I) <= Cardinality(Flights)
      /\ IsFiniteSet(F) /\ IsFiniteSet(I)
  BY <1>1, FS_Subset
<1>3. Cardinality(F) \in Nat /\ Cardinality(I) \in Nat
  BY <1>2, FS_CardinalityType
<1>4. MaxFailed \in Nat
  BY AdminAssumption DEF AdminAssumption
<1> QED
  BY <1>1, <1>2, <1>3, <1>4 DEF LockInv, Room

\* The window only moves forward and the log only grows, so that a failure
\* that counts now, and is not new, has counted before.
LEMMA GuessesShrink ==
  ASSUME IInv, floor' \in Nat, floor <= floor', log \subseteq log',
         \A a \in log' \ log : a.ok \/ ~a.compared
  PROVE  Guesses' \subseteq Guesses
<1>1. floor \in Nat /\ \A a \in log : a.at \in Nat
  BY AdminAssumption DEF AdminAssumption, IInv, TypeOK, Attempt, Stamps
<1> QED
  BY <1>1 DEF Guesses, RecentFailures

LEMMA InitLock == Init => LockInv
<1> SUFFICES ASSUME Init PROVE LockInv
  OBVIOUS
<1>1. Guesses = {} /\ Flights = {}
  BY DEF Init, Guesses, RecentFailures, Flights, InFlight, NoRequest
<1>2. IsFiniteSet(log) /\ Cardinality(Guesses) = 0 /\ Cardinality(Flights) = 0
  BY <1>1, FS_EmptySet DEF Init
<1>3. Cardinality(Conns) \in Nat /\ MaxFailed \in Nat \ {0}
  BY <1>2, FiniteParts, AdminAssumption DEF AdminAssumption
<1>4. Windows
  BY DEF Init, Windows, NoRequest
<1> QED
  BY <1>2, <1>3, <1>4 DEF LockInv, Room

\* A request is let through: it saw fewer failures than the limit, and the
\* window it looked at holds the current one.
LEMMA CheckLockoutLock ==
  ASSUME IInv, LockInv, NEW r \in Conns, CheckLockout(r)
  PROVE  LockInv'
<1>1. /\ req \in [Conns -> Request] /\ req[r].pc = "count" /\ req[r].since <= floor
      /\ ~req[r].compared /\ UNCHANGED <<log, floor>>
      /\ \A s \in Conns \ {r} : req'[s] = req[s]
      /\ req'[r] = [req[r] EXCEPT !.pc = IF LockedOut(r) THEN "refuse" ELSE "compare"]
  BY DEF CheckLockout, IInv, TypeOK, LockInv, Windows
<1>2. Windows' /\ IsFiniteSet(log') /\ Guesses' = Guesses
  BY <1>1 DEF LockInv, Windows, Request, Guesses, RecentFailures
<1>3. CASE LockedOut(r)
  <2>1. Flights' \in SUBSET Flights
    BY <1>1, <1>3 DEF Flights, InFlight, Request
  <2>2. Room(Guesses', Flights')
    BY <1>2, <2>1, RoomStays
  <2> QED
    BY <1>2, <2>2 DEF LockInv, Room
<1>4. CASE ~LockedOut(r)
  <2> DEFINE seen == RecentFailures(req[r].since)
  <2>1. Guesses \in SUBSET seen /\ seen \in SUBSET log
    <3>1. floor \in Nat /\ req[r].since \in Nat /\ \A a \in log : a.at \in Nat
      BY <1>1, AdminAssumption DEF AdminAssumption, IInv, TypeOK, Attempt, Stamps, Request
    <3> QED
      BY <1>1, <3>1 DEF Guesses, RecentFailures
  <2>2. /\ IsFiniteSet(seen) /\ Cardinality(Guesses) <= Cardinality(seen)
        /\ Cardinality(seen) \in Nat
    BY <2>1, FS_Subset, FS_CardinalityType DEF LockInv
  <2>3. ~(Cardinality(seen) >= MaxFailed) /\ MaxFailed \in Nat
    BY <1>4, AdminAssumption DEF LockedOut, AdminAssumption
  <2> HIDE DEF seen
  <2>4. Cardinality(Guesses) <= MaxFailed - 1
    BY <2>2, <2>3, FiniteParts DEF LockInv
  <2>5. /\ Cardinality(Flights') <= Cardinality(Conns) /\ Cardinality(Flights') \in Nat
        /\ Cardinality(Conns) \in Nat
    <3>1. Flights' \in SUBSET Conns /\ IsFiniteSet(Conns)
      BY AdminAssumption DEF Flights, AdminAssumption
    <3> QED
      BY <3>1, FS_Subset, FS_CardinalityType
  <2>6. Room(Guesses, Flights')
    BY <2>3, <2>4, <2>5, FiniteParts DEF Room, LockInv
  <2> QED
    BY <1>2, <2>6 DEF LockInv, Room
<1> QED
  BY <1>3, <1>4

\* A guess is recorded: it moves from one side of the sum to the other.
LEMMA RefuseLock ==
  ASSUME IInv, LockInv, NEW r \in Conns, Refuse(r)
  PROVE  LockInv'
<1> DEFINE a == [at |-> req[r].at, ok |-> FALSE, compared |-> req[r].compared]
<1>1. /\ req \in [Conns -> Request] /\ req[r].pc = "refuse" /\ req[r].compared \in BOOLEAN
      /\ log' = log \cup {a} /\ floor' = floor /\ floor \in Nat
      /\ \A s \in Conns \ {r} : req'[s] = req[s]
      /\ req'[r].pc = "done"
  BY AdminAssumption
     DEF Refuse, Finish, Ended, IInv, TypeOK, Request, Stamps, AdminAssumption
<1>2. Windows' /\ IsFiniteSet(log')
  BY <1>1, FS_AddElement DEF LockInv, Windows
<1>3. CASE ~req[r].compared
  <2>1. Flights' \in SUBSET Flights
    BY <1>1 DEF Flights, InFlight
  <2>2. Guesses' \in SUBSET Guesses
    BY <1>1, <1>3, GuessesShrink
  <2>3. Room(Guesses', Flights')
    BY <2>1, <2>2, RoomStays
  <2> QED
    BY <1>2, <2>3 DEF LockInv, Room
<1>4. CASE req[r].compared
  <2>1. r \in Flights /\ Flights' = Flights \ {r}
    BY <1>1, <1>4 DEF Flights, InFlight
  <2>2. Guesses' \in SUBSET (Guesses \cup {a})
    BY <1>1 DEF Guesses, RecentFailures
  <2>3. IsFiniteSet(Guesses \cup {a}) /\ Cardinality(Guesses \cup {a}) <= Cardinality(Guesses) + 1
    <3>1. IsFiniteSet(Guesses) /\ Cardinality(Guesses) \in Nat
      BY FiniteParts DEF LockInv
    <3> HIDE DEF a
    <3> QED
      BY <3>1, FS_AddElement
  <2>4. /\ Cardinality(Guesses') <= Cardinality(Guesses \cup {a})
        /\ Cardinality(Guesses') \in Nat /\ Cardinality(Guesses \cup {a}) \in Nat
    BY <2>2, <2>3, FS_Subset, FS_CardinalityType
  <2>5. Cardinality(Flights') = Cardinality(Flights) - 1
    BY <2>1, FiniteParts, FS_RemoveElement DEF LockInv
  <2> HIDE DEF a
  <2>6. Room(Guesses', Flights')
    BY <2>3, <2>4, <2>5, FiniteParts, AdminAssumption DEF Room, LockInv, AdminAssumption
  <2> QED
    BY <1>2, <2>6 DEF LockInv, Room
<1> QED
  BY <1>3, <1>4

\* The other steps start, end or move on a request that is not in flight, and
\* record successes only.
LEMMA OtherStep ==
  ASSUME IInv, LockInv, NEW r \in Conns, NEW q,
         req' = [req EXCEPT ![r] = q], floor' = floor,
         log' = log \/ \E a : a.ok /\ log' = log \cup {a},
         InFlight(q) => InFlight(req[r]),
         q.pc = "count" => q.since = floor /\ ~q.compared
  PROVE  LockInv'
<1>1. floor \in Nat /\ req \in [Conns -> Request]
  BY AdminAssumption DEF IInv, TypeOK, Stamps, AdminAssumption
<1>2. req'[r] = q /\ \A s \in Conns \ {r} : req'[s] = req[s]
  BY <1>1
<1>3. IsFiniteSet(log')
  BY FS_AddElement DEF LockInv
<1>4. Guesses' \in SUBSET Guesses
  BY <1>1, GuessesShrink
<1>5. Flights' \in SUBSET Flights
  BY <1>2 DEF Flights
<1>6. Windows'
  BY <1>1, <1>2 DEF LockInv, Windows
<1>7. Room(Guesses', Flights')
  BY <1>4, <1>5, RoomStays
<1> QED
  BY <1>3, <1>6, <1>7 DEF LockInv, Room

LEMMA OtherLock ==
  ASSUME IInv, LockInv, NEW r \in Conns,
         \/ \E kind \in {"login", "change"}, guess \in (0 .. version) \cup {Wrong} :
              Login(r, kind, guess)
         \/ ComparePassword(r) \/ CommitLogin(r) \/ StartOtp(r) \/ MarkVerified(r)
         \/ CommitOtp(r) \/ Changing(r) \/ Reply(r) \/ Crash(r)
  PROVE  LockInv'
<1>1. req[r] \in Request
  BY DEF IInv, TypeOK
<1>2. ASSUME NEW kind \in {"login", "change"}, NEW guess \in (0 .. version) \cup {Wrong},
             Login(r, kind, guess)
      PROVE  LockInv'
  <2> DEFINE q == [NoRequest EXCEPT !.pc = "count", !.kind = kind,
                     !.at = now + 1, !.since = floor, !.guess = guess]
  <2>1. q.pc = "count" /\ q.since = floor /\ ~q.compared
    BY DEF NoRequest
  <2>2. req' = [req EXCEPT ![r] = q] /\ UNCHANGED <<log, floor>>
    BY <1>2 DEF Login
  <2> HIDE DEF q
  <2> QED
    BY <2>1, <2>2, OtherStep DEF InFlight
<1>3. CASE ComparePassword(r)
  <2> DEFINE ok == req[r].guess = version
             q == IF ok /\ ~active THEN Ended(req[r], "inactive")
                  ELSE [req[r] EXCEPT !.compared = TRUE,
                                      !.pc = IF ok THEN "issue" ELSE "refuse"]
  <2>1. q.pc # "count" /\ req[r].pc = "compare"
    BY <1>1, <1>3 DEF Request, Ended, ComparePassword
  <2>2. req' = [req EXCEPT ![r] = q] /\ UNCHANGED <<log, floor>>
    <3>1. CASE ok /\ ~active
      BY <1>3, <3>1 DEF ComparePassword, Finish
    <3>2. CASE ~(ok /\ ~active)
      <4>1. req' = [req EXCEPT ![r].compared = TRUE,
                               ![r].pc = IF ok THEN "issue" ELSE "refuse"]
            /\ UNCHANGED <<log, floor>>
        BY <1>3, <3>2 DEF ComparePassword
      <4>2. req \in [Conns -> Request]
        BY DEF IInv, TypeOK
      <4> QED
        BY <1>1, <3>2, <4>1, <4>2
    <3> QED
      BY <3>1, <3>2
  <2> HIDE DEF q
  <2> QED
    BY <2>1, <2>2, OtherStep DEF InFlight
<1>4. CASE CommitLogin(r)
  <2> DEFINE q == IF req[r].kind = "change" THEN [req[r] EXCEPT !.pc = "set"]
                                            ELSE Ended(req[r], "signed_in")
             a == [at |-> req[r].at, ok |-> TRUE, compared |-> TRUE]
  <2>1. q.pc \in {"set", "done"} /\ a.ok
    BY <1>1 DEF Request, Ended
  <2>2. req' = [req EXCEPT ![r] = q]
    <3>1. CASE req[r].kind = "change"
      BY <1>4, <3>1 DEF CommitLogin, IInv, TypeOK
    <3>2. CASE req[r].kind # "change"
      BY <1>4, <3>2 DEF CommitLogin, Finish
    <3> QED
      BY <3>1, <3>2
  <2>3. log' = log \cup {a} /\ floor' = floor
    BY <1>4 DEF CommitLogin
  <2> HIDE DEF q, a
  <2> QED
    BY <2>1, <2>2, <2>3, OtherStep DEF InFlight
<1>5. CASE StartOtp(r) \/ Reset(r) \/ Reply(r) \/ Crash(r)
  <2>1. PICK q \in {NoRequest, [NoRequest EXCEPT !.pc = "set", !.kind = "reset"],
                    [NoRequest EXCEPT !.pc = "mark", !.kind = "otp", !.at = now + 1]} :
          req' = [req EXCEPT ![r] = q]
    BY <1>5 DEF StartOtp, Reset, Reply, Crash
  <2>2. q.pc \in {"idle", "set", "mark"}
    <3>1. /\ NoRequest.pc = "idle"
          /\ [NoRequest EXCEPT !.pc = "set", !.kind = "reset"].pc = "set"
          /\ [NoRequest EXCEPT !.pc = "mark", !.kind = "otp", !.at = now + 1].pc = "mark"
      BY DEF NoRequest
    <3> QED
      BY <2>1, <3>1
  <2>3. UNCHANGED <<log, floor>>
    BY <1>5 DEF StartOtp, Reset, Reply, Crash
  <2> QED
    BY <2>1, <2>2, <2>3, OtherStep DEF InFlight
<1>6. CASE MarkVerified(r) \/ SetPassword(r) \/ RevokeAll(r)
  <2>1. PICK q \in {[req[r] EXCEPT !.pc = "issue_otp", !.guess = version],
                    [req[r] EXCEPT !.pc = "revoke"],
                    [req[r] EXCEPT !.pc = "commit", !.seen = live],
                    Ended(req[r], "inactive")} :
          req' = [req EXCEPT ![r] = q]
    <3>1. req \in [Conns -> Request]
      BY DEF IInv, TypeOK
    <3>2. CASE MarkVerified(r) /\ active
      BY <3>1, <3>2 DEF MarkVerified
    <3>3. CASE MarkVerified(r) /\ ~active
      BY <3>3 DEF MarkVerified, Finish
    <3>4. CASE SetPassword(r)
      BY <3>1, <3>4 DEF SetPassword
    <3>5. CASE RevokeAll(r)
      BY <3>1, <3>5 DEF RevokeAll
    <3> QED
      BY <1>6, <3>2, <3>3, <3>4, <3>5
  <2>2. q.pc \in {"issue_otp", "revoke", "commit", "done"}
    BY <1>1 DEF Request, Ended
  <2>3. UNCHANGED <<log, floor>>
    BY <1>6 DEF MarkVerified, SetPassword, RevokeAll
  <2> QED
    <3>1. ~InFlight(q) /\ q.pc # "count"
      BY <2>2 DEF InFlight
    <3> QED
      BY <2>1, <2>3, <3>1, OtherStep
<1>7. CASE CommitOtp(r) \/ CommitPassword(r)
  <2>1. PICK a \in {"signed_in", "changed"} : req' = [req EXCEPT ![r] = Ended(req[r], a)]
    BY <1>7 DEF CommitOtp, CommitPassword, Finish
  <2>2. Ended(req[r], a).pc = "done"
    BY <1>1 DEF Request, Ended
  <2>3. UNCHANGED <<log, floor>>
    BY <1>7 DEF CommitOtp, CommitPassword
  <2> QED
    BY <2>1, <2>2, <2>3, OtherStep DEF InFlight
<1> QED
  BY <1>2, <1>3, <1>4, <1>5, <1>6, <1>7 DEF Changing

LEMMA NextLock == IInv /\ LockInv /\ [Next]_vars => LockInv'
<1> SUFFICES ASSUME IInv, LockInv, [Next]_vars PROVE LockInv'
  OBVIOUS
<1>1. ASSUME NEW r \in Conns, SigningIn(r) \/ Changing(r) \/ Reply(r) \/ Crash(r)
      PROVE  LockInv'
  BY <1>1, CheckLockoutLock, RefuseLock, OtherLock DEF SigningIn
<1>2. CASE Slide \/ SetStatus \/ UNCHANGED vars
  <2>1. floor \in Nat /\ floor' \in Nat /\ floor <= floor' /\ UNCHANGED <<log, req>>
        /\ \A r \in Conns : req[r].since \in Nat
    BY <1>2, AdminAssumption
       DEF Slide, SetStatus, vars, IInv, TypeOK, Stamps, Request, AdminAssumption
  <2>2. Guesses' \in SUBSET Guesses
    BY <2>1, GuessesShrink
  <2>3. Flights' \in SUBSET Flights
    BY <2>1 DEF Flights
  <2>4. Windows' /\ IsFiniteSet(log')
    BY <2>1 DEF LockInv, Windows
  <2>5. Room(Guesses', Flights')
    BY <2>2, <2>3, RoomStays
  <2> QED
    BY <2>4, <2>5 DEF LockInv, Room
<1> QED
  BY <1>1, <1>2 DEF Next

LEMMA LockInvariance == Spec => []LockInv
  BY InitLock, NextLock, Invariance, PTL DEF Spec

(***************************************************************************)
(* The theorems.                                                           *)
(***************************************************************************)

\* Every table and request keeps its type, and the row of users one holder.
THEOREM TypeCorrect == Spec => []TypeOK
<1>1. IInv => TypeOK
  BY DEF IInv
<1> QED
  BY <1>1, Invariance, PTL

\* No session opened with a one-time code outlives a change of the password.
THEOREM OtpRespectsChange == Spec => []OtpSessionsRespectChange
<1>1. IInv => OtpSessionsRespectChange
  BY DEF IInv
<1> QED
  BY <1>1, Invariance, PTL

\* A refused sign-in is on record before it is answered, and parallel guesses
\* get past the limit by no more than there are connections to make them on.
THEOREM Lockout == Spec => []FailuresAreCounted
<1>1. IInv => RefusalIsOnRecord
  BY DEF IInv, Sound, SoundIn, RefusalIsOnRecord
<1>2. LockInv => LockoutOverrunIsBounded
  <2> SUFFICES ASSUME LockInv PROVE LockoutOverrunIsBounded
    OBVIOUS
  <2>1. Cardinality(Guesses) <= MaxFailed + Cardinality(Conns) - 1
    BY FiniteParts, AdminAssumption DEF LockInv, Room, AdminAssumption
  <2> QED
    BY <2>1 DEF LockoutOverrunIsBounded, Guesses
<1> QED
  BY <1>1, <1>2, Invariance, LockInvariance, PTL DEF FailuresAreCounted

=============================================================================
