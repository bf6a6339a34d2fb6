------------------------ MODULE RefreshTokensProofs ------------------------
(***************************************************************************)
(* The safety of the refresh registry, for any number of connections,      *)
(* tokens and users.                                                       *)
(*                                                                         *)
(* The invariants the runs check are not inductive: that a family keeps    *)
(* one head rests on a rotation holding the lock of a token still live,    *)
(* and that on locks being exclusive and ids being fresh.  IInv adds what  *)
(* each request may hold at each of its steps (Sound), and what two        *)
(* requests may not share (Apart).                                         *)
(***************************************************************************)
EXTENDS RefreshTokens, TLAPS

\* What a request may hold, given where it is.
Sound(q) ==
  /\ q.pc \in {"idle", "consume", "scan", "done"} => q.held = {}
  /\ q.pc \in {"consume", "issue", "commit"} => q.new \in Tokens \ issued
  /\ q.pc \in {"consume", "issue"} => q.kind = "refresh"
  /\ q.pc = "commit" => q.kind \in {"refresh", "sign_in"} /\ q.user \in Users
  /\ q.pc \in {"scan", "lock"} => q.kind \in {"refresh", "revoke", "revoke_all"}
  /\ q.pc \in {"scan", "lock"} => q.user \in Users
  /\ q.pc \notin {"idle", "done"} /\ q.kind \in {"refresh", "revoke"} =>
       q.tok \in issued /\ q.user = owner[q.tok]
  /\ q.pc \in {"issue", "commit"} =>
       /\ q.held = IF q.kind = "refresh" THEN {q.tok} ELSE {}
       /\ q.held \subseteq Live
  /\ q.pc = "lock" =>
       /\ q.held \cap revoked = {}
       /\ \A t \in q.held \cup q.todo : t \in issued /\ Matches(q, t)
       /\ q.seen \subseteq q.held \cup q.todo \cup revoked
       /\ q.kind = "refresh" => q.tok \in q.seen \cup revoked
  /\ q.answer = "reused" => q.seen \subseteq revoked /\ q.tok \in revoked
  /\ q.pc # "done" => q.answer = "none"

\* Two requests never lock the same row nor draw the same id.
Apart(q, p) ==
  /\ q.held \cap p.held = {}
  /\ q.new # NoToken => q.new # p.new

Families ==
  /\ \A t \in issued : /\ family[t] \in issued
                       /\ owner[t] \in Users
                       /\ owner[family[t]] = owner[t]
  /\ \A t \in Tokens \ issued : replacedBy[t] = NoToken

IInv ==
  /\ TypeOK
  /\ Families
  /\ OneHeadPerFamily
  /\ RotationIsAChain
  /\ \A r \in Conns : Sound(req[r])
  /\ \A r, s \in Conns : r # s => Apart(req[r], req[s])

-----------------------------------------------------------------------------
(* Facts about records.                                                    *)

LEMMA NoRequestFacts ==
  /\ NoRequest \in Request
  /\ Sound(NoRequest)
  /\ NoRequest.held = {} /\ NoRequest.new = NoToken /\ NoRequest.kind = "none"
  /\ NoRequest.pc = "idle" /\ NoRequest.answer = "none"
  BY DEF NoRequest, Request, Steps, Kinds, Answers, Sound

LEMMA EndedFacts ==
  ASSUME NEW q \in Request, NEW a \in Answers,
         a = "reused" => q.seen \subseteq revoked /\ q.tok \in revoked
  PROVE  /\ Ended(q, a) \in Request
         /\ Sound(Ended(q, a))
         /\ Ended(q, a).held = {} /\ Ended(q, a).new = NoToken
  <1>1. Ended(q, a) \in Request
    BY DEF Ended, Request, Steps, Answers
  <1>2. /\ Ended(q, a).pc = "done" /\ Ended(q, a).answer = a
        /\ Ended(q, a).held = {} /\ Ended(q, a).new = NoToken
        /\ Ended(q, a).seen = q.seen /\ Ended(q, a).tok = q.tok
    BY DEF Ended, Request
  <1> QED BY <1>1, <1>2 DEF Sound

\* A request that holds no lock and no id is apart from every other.
LEMMA EmptyApart ==
  ASSUME NEW q \in Request, q.held = {}, q.new = NoToken
  PROVE  \A p \in Request : Apart(q, p) /\ Apart(p, q)
  BY DEF Apart

LEMMA InitIInv == Init => IInv
<1> SUFFICES ASSUME Init PROVE IInv
  OBVIOUS
<1>1. TypeOK
  BY NoRequestFacts DEF Init, TypeOK
<1>2. Families /\ OneHeadPerFamily /\ RotationIsAChain
  BY DEF Init, Families, OneHeadPerFamily, RotationIsAChain, Consumed
<1>3. \A r \in Conns : Sound(req[r])
  BY NoRequestFacts DEF Init
<1>4. \A r, s \in Conns : r # s => Apart(req[r], req[s])
  BY NoRequestFacts DEF Init, Apart
<1> QED BY <1>1, <1>2, <1>3, <1>4 DEF IInv

-----------------------------------------------------------------------------
(* A step that touches no table: only one request's record changes.        *)

LEMMA LocalStep ==
  ASSUME IInv, UNCHANGED rows,
         expired' \subseteq issued, suspended' \subseteq Users,
         NEW r \in Conns, NEW q \in Request,
         Sound(q), \A s \in Conns \ {r} : Apart(q, req[s]),
         req' = [req EXCEPT ![r] = q]
  PROVE  IInv'
<1>1. TypeOK'
  BY DEF IInv, TypeOK, rows
<1>2. Families' /\ OneHeadPerFamily' /\ RotationIsAChain'
  BY DEF IInv, rows, Families, OneHeadPerFamily, RotationIsAChain, Consumed
<1>3. \A s \in Conns : req'[s] = IF s = r THEN q ELSE req[s]
  BY DEF IInv, TypeOK
<1>4. \A p \in Request : Sound(p) => Sound(p)'
  BY DEF Sound, Live, Consumed, Matches, rows
<1>5. \A s \in Conns : Sound(req[s])'
  <2> TAKE s \in Conns
  <2>1. req'[s] \in Request /\ Sound(req'[s])
    BY <1>3 DEF IInv, TypeOK
  <2> QED BY <2>1, <1>4 DEF Sound, Live, Consumed, Matches, rows
<1>6. \A s, p \in Conns : s # p => Apart(req[s], req[p])'
  BY <1>3 DEF IInv, Apart
<1> QED BY <1>1, <1>2, <1>5, <1>6 DEF IInv

LEMMA FinishStep ==
  ASSUME IInv, UNCHANGED rows,
         expired' \subseteq issued, suspended' \subseteq Users,
         NEW r \in Conns, NEW q \in Request, NEW a \in Answers,
         a = "reused" => q.seen \subseteq revoked /\ q.tok \in revoked,
         req' = [req EXCEPT ![r] = Ended(q, a)]
  PROVE  IInv'
<1> DEFINE p == Ended(q, a)
<1>1. p \in Request /\ Sound(p) /\ p.held = {} /\ p.new = NoToken
  BY EndedFacts
<1>2. req' = [req EXCEPT ![r] = p]
  OBVIOUS
<1> HIDE DEF p
<1>3. \A s \in Conns : Apart(p, req[s])
  BY <1>1, EmptyApart DEF IInv, TypeOK
<1> QED BY <1>1, <1>2, <1>3, LocalStep

LEMMA ArriveKeeps ==
  ASSUME IInv, NEW r \in Conns, Arrive(r)
  PROVE  IInv'
<1>t. UNCHANGED rows /\ expired' \subseteq issued /\ suspended' \subseteq Users
  BY DEF Arrive, SignIn, PresentToken, SignOut, SignOutEverywhere, IInv, TypeOK
<1>f. \A n \in Tokens : Fresh(n) => n \notin issued /\ \A s \in Conns : req[s].new # n
  BY DEF Fresh
<1>1. ASSUME NEW u \in Users, NEW n \in Tokens, SignIn(r, u, n)
      PROVE  IInv'
  <2> DEFINE q == [NoRequest EXCEPT !.kind = "sign_in", !.user = u, !.new = n]
             p == [q EXCEPT !.pc = "commit"]
  <2>1. /\ q \in Request /\ p \in Request
        /\ p.pc = "commit" /\ p.kind = "sign_in" /\ p.user = u /\ p.new = n
        /\ p.held = {} /\ p.answer = "none"
    BY NoRequestFacts DEF Request, Steps, Kinds, Answers, NoRequest
  <2>2. Sound(p) /\ \A s \in Conns : Apart(p, req[s])
    BY <1>1, <1>f, <2>1 DEF SignIn, Sound, Apart, Live
  <2>3. CASE u \in suspended
    <3>1. req' = [req EXCEPT ![r] = Ended(q, "inactive")]
      BY <1>1, <2>3 DEF SignIn
    <3> HIDE DEF q
    <3> QED BY <1>t, <2>1, <3>1, FinishStep DEF Answers
  <2>4. CASE u \notin suspended
    <3>1. req' = [req EXCEPT ![r] = p]
      BY <1>1, <2>4 DEF SignIn
    <3> HIDE DEF p
    <3> QED BY <1>t, <2>1, <2>2, <3>1, LocalStep
  <2> QED BY <2>3, <2>4
<1>2. ASSUME NEW t \in issued \cup {NoToken}, NEW n \in Tokens, PresentToken(r, t, n)
      PROVE  IInv'
  <2> DEFINE q == [NoRequest EXCEPT !.kind = "refresh", !.tok = t, !.new = n]
             p == [q EXCEPT !.pc = "consume", !.user = owner[t]]
  <2>1. q \in Request
    BY NoRequestFacts DEF Request, Kinds, IInv, TypeOK
  <2>2. ASSUME NEW a \in {"invalid", "revoked", "expired"},
               req' = [req EXCEPT ![r] = Ended(q, a)]
        PROVE  IInv'
    <3>1. req' = [req EXCEPT ![r] = Ended(q, a)]
      BY <2>2
    <3> HIDE DEF q
    <3> QED BY <1>t, <2>1, <3>1, FinishStep DEF Answers
  <2>3. ASSUME t \in issued, req' = [req EXCEPT ![r] = p]
        PROVE  IInv'
    <3>1. /\ p \in Request
          /\ p.pc = "consume" /\ p.kind = "refresh" /\ p.tok = t /\ p.new = n
          /\ p.user = owner[t] /\ p.held = {} /\ p.answer = "none"
      BY <2>3, NoRequestFacts DEF Request, Steps, Kinds, NoRequest, IInv, TypeOK
    <3>2. Sound(p) /\ \A s \in Conns : Apart(p, req[s])
      BY <1>2, <1>f, <2>3, <3>1 DEF PresentToken, Sound, Apart
    <3>3. req' = [req EXCEPT ![r] = p]
      BY <2>3
    <3> HIDE DEF p
    <3> QED BY <1>t, <3>1, <3>2, <3>3, LocalStep
  <2>4. \/ \E a \in {"invalid", "revoked", "expired"} : req' = [req EXCEPT ![r] = Ended(q, a)]
        \/ t \in issued /\ req' = [req EXCEPT ![r] = p]
    <3>1. CASE t \notin issued
      BY <1>2, <3>1 DEF PresentToken, IInv, TypeOK
    <3>2. CASE t \in issued /\ t \in revoked
      BY <1>2, <3>2 DEF PresentToken
    <3>3. CASE t \in issued /\ t \notin revoked /\ t \in expired
      BY <1>2, <3>3 DEF PresentToken
    <3>4. CASE t \in issued /\ t \notin revoked /\ t \notin expired
      BY <1>2, <3>4 DEF PresentToken
    <3> QED BY <3>1, <3>2, <3>3, <3>4
  <2> QED BY <2>2, <2>3, <2>4
<1>3. ASSUME NEW t \in issued \cup {NoToken}, NEW u \in Users, SignOut(r, t, u)
      PROVE  IInv'
  <2> DEFINE q == [NoRequest EXCEPT !.kind = "revoke", !.tok = t, !.user = u]
             p == [q EXCEPT !.pc = "scan"]
  <2>1. /\ q \in Request /\ p \in Request
        /\ p.pc = "scan" /\ p.kind = "revoke" /\ p.tok = t /\ p.user = u
        /\ p.held = {} /\ p.new = NoToken /\ p.answer = "none"
    BY NoRequestFacts DEF Request, Steps, Kinds, NoRequest, IInv, TypeOK
  <2>2. CASE t \notin issued \/ owner[t] # u
    <3>1. req' = [req EXCEPT ![r] = Ended(q, "signed_out")]
      BY <1>3, <2>2 DEF SignOut
    <3> HIDE DEF q
    <3> QED BY <1>t, <2>1, <3>1, FinishStep DEF Answers
  <2>3. CASE t \in issued /\ owner[t] = u
    <3>1. req' = [req EXCEPT ![r] = p]
      BY <1>3, <2>3 DEF SignOut
    <3>2. Sound(p)
      BY <2>1, <2>3 DEF Sound
    <3> HIDE DEF p
    <3> QED BY <1>t, <2>1, <3>1, <3>2, EmptyApart, LocalStep DEF IInv, TypeOK
  <2> QED BY <2>2, <2>3
<1>4. ASSUME NEW u \in Users, SignOutEverywhere(r, u)
      PROVE  IInv'
  <2> DEFINE p == [NoRequest EXCEPT !.pc = "scan", !.kind = "revoke_all", !.user = u]
  <2>1. /\ p \in Request
        /\ p.pc = "scan" /\ p.kind = "revoke_all" /\ p.user = u
        /\ p.held = {} /\ p.new = NoToken /\ p.answer = "none"
    BY NoRequestFacts DEF Request, Steps, Kinds, NoRequest
  <2>2. req' = [req EXCEPT ![r] = p] /\ Sound(p)
    BY <1>4, <2>1 DEF SignOutEverywhere, Sound
  <2> HIDE DEF p
  <2> QED BY <1>t, <2>1, <2>2, EmptyApart, LocalStep DEF IInv, TypeOK
<1> QED BY <1>1, <1>2, <1>3, <1>4 DEF Arrive

LEMMA ConsumeKeeps ==
  ASSUME IInv, NEW r \in Conns, ConsumePresented(r)
  PROVE  IInv'
<1> DEFINE t == req[r].tok
           p == [req[r] EXCEPT !.pc = "issue", !.held = {t}]
           q == [req[r] EXCEPT !.pc = "scan", !.new = NoToken]
<1>0. /\ req[r] \in Request /\ Sound(req[r]) /\ req[r].pc = "consume"
      /\ \A s \in Conns \ {r} : t \notin req[s].held
  BY DEF ConsumePresented, LockedByOther, IInv, TypeOK
<1>1. UNCHANGED rows /\ expired' \subseteq issued /\ suspended' \subseteq Users
  BY DEF ConsumePresented, IInv, TypeOK
<1>2. t \in issued /\ req[r].kind = "refresh" /\ req[r].user = owner[t]
  BY <1>0 DEF Sound
<1>3. CASE Spendable(t)
  <2>1. /\ p \in Request
        /\ p.pc = "issue" /\ p.kind = "refresh" /\ p.tok = t /\ p.user = owner[t]
        /\ p.new = req[r].new /\ p.held = {t} /\ p.answer = req[r].answer
        /\ p.seen = req[r].seen
    BY <1>0, <1>2 DEF Request, Steps, IInv, TypeOK
  <2>2. Sound(p)
    BY <1>0, <1>2, <1>3, <2>1 DEF Sound, Live, Spendable
  <2>3. \A s \in Conns \ {r} : Apart(p, req[s])
    BY <1>0, <2>1 DEF IInv, Apart
  <2>4. req' = [req EXCEPT ![r] = p]
    BY <1>3 DEF ConsumePresented
  <2> HIDE DEF p
  <2> QED BY <1>1, <2>1, <2>2, <2>3, <2>4, LocalStep
<1>4. CASE ~Spendable(t)
  <2>1. /\ q \in Request
        /\ q.pc = "scan" /\ q.kind = "refresh" /\ q.tok = t /\ q.user = owner[t]
        /\ q.new = NoToken /\ q.held = {} /\ q.answer = "none"
    BY <1>0, <1>2 DEF Request, Steps, Sound
  <2>2. Sound(q)
    BY <1>2, <2>1 DEF Sound, IInv, Families
  <2>3. req' = [req EXCEPT ![r] = q]
    BY <1>4 DEF ConsumePresented
  <2> HIDE DEF q
  <2> QED BY <1>1, <2>1, <2>2, <2>3, EmptyApart, LocalStep DEF IInv, TypeOK
<1> QED BY <1>3, <1>4

LEMMA IssueKeeps ==
  ASSUME IInv, NEW r \in Conns, IssuePair(r)
  PROVE  IInv'
<1> DEFINE p == [req[r] EXCEPT !.pc = "commit"]
<1>0. req[r] \in Request /\ Sound(req[r]) /\ req[r].pc = "issue"
  BY DEF IssuePair, IInv, TypeOK
<1>1. UNCHANGED rows /\ expired' \subseteq issued /\ suspended' \subseteq Users
  BY DEF IssuePair, IInv, TypeOK
<1>2. CASE req[r].user \in suspended
  <2>1. req' = [req EXCEPT ![r] = Ended(req[r], "inactive")]
    BY <1>2 DEF IssuePair, Finish
  <2> QED BY <1>0, <1>1, <2>1, FinishStep DEF Answers
<1>3. CASE req[r].user \notin suspended
  <2>1. /\ p \in Request
        /\ p.pc = "commit" /\ p.kind = req[r].kind /\ p.tok = req[r].tok
        /\ p.user = req[r].user /\ p.new = req[r].new /\ p.held = req[r].held
        /\ p.answer = req[r].answer /\ p.seen = req[r].seen
    BY <1>0 DEF Request, Steps
  <2>2. Sound(p)
    BY <1>0, <2>1 DEF Sound, IInv, Families
  <2>3. \A s \in Conns \ {r} : Apart(p, req[s])
    BY <2>1 DEF IInv, Apart
  <2>4. req' = [req EXCEPT ![r] = p]
    BY <1>3 DEF IssuePair
  <2> HIDE DEF p
  <2> QED BY <1>1, <2>1, <2>2, <2>3, <2>4, LocalStep
<1> QED BY <1>2, <1>3

LEMMA ScanKeeps ==
  ASSUME IInv, NEW r \in Conns, ScanRows(r)
  PROVE  IInv'
<1> DEFINE match == {t \in issued \ revoked : Matches(req[r], t)}
           p == [req[r] EXCEPT !.pc = "lock", !.todo = match, !.seen = match]
<1>0. req[r] \in Request /\ Sound(req[r]) /\ req[r].pc = "scan"
  BY DEF ScanRows, IInv, TypeOK
<1>1. UNCHANGED rows /\ expired' \subseteq issued /\ suspended' \subseteq Users
  BY DEF ScanRows, IInv, TypeOK
<1>2. match \subseteq issued /\ match \cap revoked = {}
      /\ \A t \in issued \ revoked : Matches(req[r], t) => t \in match
  OBVIOUS
<1>3. \A t \in match : Matches(req[r], t)
  OBVIOUS
<1>4. match \in SUBSET Tokens
  BY <1>2 DEF IInv, TypeOK
<1> HIDE DEF match
<1>5. /\ p \in Request
      /\ p.pc = "lock" /\ p.kind = req[r].kind /\ p.tok = req[r].tok
      /\ p.user = req[r].user /\ p.new = req[r].new /\ p.held = req[r].held
      /\ p.answer = req[r].answer /\ p.seen = match /\ p.todo = match
  BY <1>0, <1>4 DEF Request, Steps
<1>6. req' = [req EXCEPT ![r] = p]
  BY DEF ScanRows, match
<1> HIDE DEF p
<1>7. Sound(p)
  BY <1>0, <1>2, <1>3, <1>5 DEF Sound, Matches
<1>8. \A s \in Conns \ {r} : Apart(p, req[s])
  BY <1>5 DEF IInv, Apart
<1> QED BY <1>1, <1>5, <1>6, <1>7, <1>8, LocalStep

LEMMA LockKeeps ==
  ASSUME IInv, NEW r \in Conns, NEW t \in Tokens, LockRow(r, t)
  PROVE  IInv'
<1> DEFINE todo == req[r].todo \ {t}
           held == IF t \in revoked THEN req[r].held ELSE req[r].held \cup {t}
           p == [req[r] EXCEPT !.todo = todo, !.held = held]
<1>0. /\ req[r] \in Request /\ Sound(req[r]) /\ req[r].pc = "lock" /\ t \in req[r].todo
      /\ \A s \in Conns \ {r} : t \notin req[s].held
  BY DEF LockRow, LockedByOther, IInv, TypeOK
<1>1. UNCHANGED rows /\ expired' \subseteq issued /\ suspended' \subseteq Users
  BY DEF LockRow, IInv, TypeOK
<1>2. /\ p \in Request
      /\ p.pc = "lock" /\ p.kind = req[r].kind /\ p.tok = req[r].tok
      /\ p.user = req[r].user /\ p.new = req[r].new /\ p.answer = req[r].answer
      /\ p.seen = req[r].seen /\ p.todo = todo /\ p.held = held
  BY <1>0 DEF Request
<1>3. req' = [req EXCEPT ![r] = p]
  BY <1>0 DEF LockRow
<1> HIDE DEF p
<1>4. Sound(p)
  BY <1>0, <1>2 DEF Sound, Matches
<1>5. \A s \in Conns \ {r} : Apart(p, req[s])
  BY <1>0, <1>2 DEF IInv, Apart
<1> QED BY <1>1, <1>2, <1>3, <1>4, <1>5, LocalStep

LEMMA DeadlockKeeps ==
  ASSUME IInv, NEW r \in Conns, DeadlockAbort(r)
  PROVE  IInv'
<1>1. UNCHANGED rows /\ expired' \subseteq issued /\ suspended' \subseteq Users
  BY DEF DeadlockAbort, IInv, TypeOK
<1>2. req' = [req EXCEPT ![r] = Ended(req[r], "deadlock")] /\ req[r] \in Request
  BY DEF DeadlockAbort, Finish, IInv, TypeOK
<1> QED BY <1>1, <1>2, FinishStep DEF Answers

LEMMA EndKeeps ==
  ASSUME IInv, NEW r \in Conns, Reply(r) \/ Crash(r)
  PROVE  IInv'
<1>1. UNCHANGED rows /\ expired' \subseteq issued /\ suspended' \subseteq Users
  BY DEF Reply, Crash, IInv, TypeOK
<1>2. req' = [req EXCEPT ![r] = NoRequest]
  BY DEF Reply, Crash
<1>3. \A s \in Conns \ {r} : Apart(NoRequest, req[s])
  BY NoRequestFacts, EmptyApart DEF IInv, TypeOK
<1> QED BY <1>1, <1>2, <1>3, NoRequestFacts, LocalStep

LEMMA WorldKeeps ==
  ASSUME IInv, \/ \E t \in Tokens : Expire(t)
               \/ \E u \in Users : SetStatus(u)
  PROVE  IInv'
<1>1. UNCHANGED <<rows, req>> /\ TypeOK'
  BY DEF Expire, SetStatus, IInv, TypeOK, rows
<1>2. \A r \in Conns : Sound(req[r])'
  BY <1>1 DEF IInv, Sound, Live, Consumed, Matches, rows
<1> QED BY <1>1, <1>2 DEF IInv, Families, OneHeadPerFamily, RotationIsAChain,
                          Consumed, Apart, rows

-----------------------------------------------------------------------------
(* The two steps that change the tables.                                   *)

LEMMA CommitIssueKeeps ==
  ASSUME IInv, NEW r \in Conns, CommitIssue(r)
  PROVE  IInv'
<1> DEFINE n == req[r].new
           H == req[r].held
<1>0. /\ req[r] \in Request /\ Sound(req[r]) /\ req[r].pc = "commit"
      /\ n \in Tokens \ issued /\ req[r].user \in Users
      /\ H \subseteq Live /\ H \subseteq Tokens
      /\ H = IF req[r].kind = "refresh" THEN {req[r].tok} ELSE {}
  BY DEF CommitIssue, Sound, IInv, TypeOK, Live
<1>1. /\ issued' = issued \cup {n}
      /\ family' = [family EXCEPT ![n] = NewFamily(r)]
      /\ owner' = [owner EXCEPT ![n] = req[r].user]
      /\ replacedBy' = [t \in Tokens |-> IF t \in H THEN n ELSE replacedBy[t]]
      /\ UNCHANGED <<revoked, expired, suspended>>
      /\ req' = [req EXCEPT ![r] = Ended(req[r], "tokens")]
  BY DEF CommitIssue, Finish
<1>2. NewFamily(r) \in issued \cup {n}
      /\ (req[r].kind = "refresh" => req[r].tok \in issued
                                     /\ NewFamily(r) = family[req[r].tok]
                                     /\ req[r].user = owner[req[r].tok])
      /\ (req[r].kind # "refresh" => NewFamily(r) = n)
  BY <1>0 DEF NewFamily, Sound, IInv, Families
<1>3. Ended(req[r], "tokens") \in Request
  BY <1>0, EndedFacts DEF Answers
<1>r. /\ req' \in [Conns -> Request]
      /\ \A s \in Conns \ {r} : req'[s] = req[s]
      /\ req'[r].held = {} /\ req'[r].new = NoToken /\ req'[r].pc = "done"
      /\ req'[r].answer = "tokens"
  <2>1. req' \in [Conns -> Request] /\ req'[r] = Ended(req[r], "tokens")
        /\ \A s \in Conns \ {r} : req'[s] = req[s]
    BY <1>1, <1>3 DEF IInv, TypeOK
  <2> QED BY <1>0, <2>1 DEF Ended, Request
<1>t. /\ \A t \in issued : family'[t] = family[t] /\ owner'[t] = owner[t]
      /\ family'[n] = NewFamily(r) /\ owner'[n] = req[r].user
      /\ \A t \in Tokens : replacedBy'[t] = IF t \in H THEN n ELSE replacedBy[t]
  BY <1>0, <1>1 DEF IInv, TypeOK
<1>4. TypeOK'
  BY <1>0, <1>1, <1>2, <1>r DEF IInv, TypeOK
<1>c. Consumed' = Consumed \cup H /\ n \notin H /\ H \cap Consumed = {}
  <2>1. n # NoToken /\ n \notin H /\ H \subseteq issued
    BY <1>0, RegistryAssumption DEF Live
  <2>2. replacedBy[n] = NoToken
    BY <1>0 DEF IInv, Families
  <2> QED BY <1>0, <1>1, <1>t, <2>1, <2>2 DEF Consumed, Live, IInv, TypeOK
<1>5. Families'
  <2>1. ASSUME NEW t \in issued'
        PROVE  family'[t] \in issued' /\ owner'[t] \in Users /\ owner'[family'[t]] = owner'[t]
    <3>1. CASE t \in issued
      BY <3>1, <1>1, <1>t DEF IInv, Families
    <3>2. CASE t = n /\ req[r].kind = "refresh"
      BY <3>2, <1>0, <1>1, <1>2, <1>t DEF IInv, Families
    <3>3. CASE t = n /\ req[r].kind # "refresh"
      BY <3>3, <1>0, <1>1, <1>2, <1>t
    <3> QED BY <2>1, <3>1, <3>2, <3>3, <1>1
  <2>2. \A t \in Tokens \ issued' : replacedBy'[t] = NoToken
    BY <1>0, <1>1, <1>t DEF IInv, Families, Live
  <2> QED BY <2>1, <2>2 DEF Families
<1>6. OneHeadPerFamily'
  <2> SUFFICES ASSUME NEW s \in issued' \ Consumed', NEW t \in issued' \ Consumed',
                      family'[s] = family'[t]
               PROVE  s = t
    BY DEF OneHeadPerFamily
  <2>1. CASE s \in issued /\ t \in issued
    BY <2>1, <1>c, <1>t DEF IInv, OneHeadPerFamily
  <2>2. ASSUME NEW x \in issued, x \notin Consumed', family[x] = NewFamily(r)
        PROVE  FALSE
    <3>1. CASE req[r].kind = "refresh"
      <4>1. req[r].tok \in issued \ Consumed /\ req[r].tok \in Consumed'
        BY <3>1, <1>0, <1>c DEF Live
      <4>2. x \in issued \ Consumed
        BY <2>2, <1>c
      <4> QED BY <2>2, <3>1, <4>1, <4>2, <1>2 DEF IInv, OneHeadPerFamily
    <3>2. CASE req[r].kind # "refresh"
      BY <2>2, <3>2, <1>0, <1>2 DEF IInv, Families
    <3> QED BY <3>1, <3>2
  <2> QED BY <2>1, <2>2, <1>1, <1>t
<1>7. RotationIsAChain'
  <2>1. ASSUME NEW t \in Consumed'
        PROVE  /\ replacedBy'[t] \in issued' \ {t}
               /\ family'[replacedBy'[t]] = family'[t]
               /\ owner'[replacedBy'[t]] = owner'[t]
    <3>1. CASE t \in H
      BY <3>1, <1>0, <1>1, <1>2, <1>c, <1>t DEF IInv, TypeOK
    <3>2. CASE t \notin H
      <4>1. t \in Consumed /\ t \in Tokens /\ t \in issued
        BY <3>2, <1>c DEF Consumed, IInv, TypeOK
      <4> QED BY <3>2, <4>1, <1>1, <1>t DEF IInv, RotationIsAChain
    <3> QED BY <3>1, <3>2
  <2>2. ASSUME NEW s \in Consumed', NEW t \in Consumed', replacedBy'[s] = replacedBy'[t]
        PROVE  s = t
    <3>1. \A x \in Consumed' : /\ x \in Tokens
                               /\ x \in H => replacedBy'[x] = n
                               /\ x \notin H => x \in Consumed /\ replacedBy'[x] = replacedBy[x]
                                                /\ replacedBy[x] # n
      BY <1>0, <1>c, <1>t DEF IInv, TypeOK, RotationIsAChain, Consumed
    <3> QED BY <2>2, <3>1, <1>0 DEF IInv, RotationIsAChain
  <2> QED BY <2>1, <2>2 DEF RotationIsAChain
<1>8. ASSUME NEW s \in Conns PROVE Sound(req[s])'
  <2>1. CASE s = r
    BY <2>1, <1>r DEF Sound
  <2>2. CASE s # r
    <3>1. req'[s] = req[s] /\ Sound(req[s]) /\ req[s] \in Request /\ Apart(req[s], req[r])
      BY <2>2, <1>r DEF IInv, TypeOK
    <3>2. req[s].pc \in {"consume", "issue", "commit"} => req[s].new \in Tokens \ issued'
      BY <3>1, <1>1, RegistryAssumption DEF Sound, Apart
    <3>3. req[s].held \subseteq Live => req[s].held \subseteq Live'
      BY <3>1, <1>1, <1>c DEF Live, Apart
    <3>4. \A t \in issued : req[s].pc = "lock" /\ Matches(req[s], t) => Matches(req[s], t)'
      BY <3>1, <1>r, <1>t, <2>2 DEF Matches, Sound
    <3> QED BY <3>1, <3>2, <3>3, <3>4, <1>1, <1>t DEF Sound, Matches
  <2> QED BY <2>1, <2>2
<1>9. \A s, p \in Conns : s # p => Apart(req[s], req[p])'
  BY <1>r DEF IInv, Apart
<1> QED BY <1>4, <1>5, <1>6, <1>7, <1>8, <1>9 DEF IInv

LEMMA CommitRevokeKeeps ==
  ASSUME IInv, NEW r \in Conns, CommitRevoke(r)
  PROVE  IInv'
<1> DEFINE a == IF req[r].kind = "refresh" THEN "reused" ELSE "signed_out"
           e == Ended(req[r], a)
<1>0. /\ req[r] \in Request /\ Sound(req[r]) /\ req[r].pc = "lock" /\ req[r].todo = {}
      /\ revoked' = revoked \cup req[r].held
      /\ UNCHANGED <<issued, family, owner, replacedBy, expired, suspended>>
      /\ req' = [req EXCEPT ![r] = e]
  BY DEF CommitRevoke, Finish, IInv, TypeOK
<1>1. req[r].held \subseteq issued
  BY <1>0 DEF Sound
<1>2. /\ e \in Request /\ e.held = {} /\ e.new = NoToken /\ e.pc = "done" /\ e.answer = a
      /\ e.seen = req[r].seen /\ e.tok = req[r].tok
  BY <1>0 DEF Ended, Request, Steps, Answers
<1> HIDE DEF e
<1>r. /\ req' \in [Conns -> Request] /\ req'[r] = e
      /\ \A s \in Conns \ {r} : req'[s] = req[s]
  BY <1>0, <1>2 DEF IInv, TypeOK
<1>3. TypeOK'
  BY <1>0, <1>1, <1>r DEF IInv, TypeOK
<1>4. Families' /\ OneHeadPerFamily' /\ RotationIsAChain'
  BY <1>0 DEF IInv, Families, OneHeadPerFamily, RotationIsAChain, Consumed
<1>5. ASSUME NEW s \in Conns PROVE Sound(req[s])'
  <2>1. CASE s = r
    BY <2>1, <1>0, <1>2, <1>r DEF Sound
  <2>2. CASE s # r
    <3>1. req'[s] = req[s] /\ Sound(req[s]) /\ Apart(req[s], req[r])
      BY <2>2, <1>r DEF IInv
    <3>2. req[s].held \subseteq Live => req[s].held \subseteq Live'
      BY <3>1, <1>0 DEF Live, Consumed, Apart
    <3> QED BY <3>1, <3>2, <1>0 DEF Sound, Matches, Apart
  <2> QED BY <2>1, <2>2
<1>6. \A s, p \in Conns : s # p => Apart(req[s], req[p])'
  BY <1>2, <1>r DEF IInv, Apart
<1> QED BY <1>3, <1>4, <1>5, <1>6 DEF IInv

LEMMA NextKeeps == IInv /\ [Next]_vars => IInv'
<1> SUFFICES ASSUME IInv, [Next]_vars PROVE IInv'
  OBVIOUS
<1>1. ASSUME NEW r \in Conns, Advance(r) PROVE IInv'
  BY <1>1, IssueKeeps, CommitIssueKeeps, ScanKeeps, CommitRevokeKeeps, DeadlockKeeps
     DEF Advance
<1>2. ASSUME NEW r \in Conns, Acquire(r) PROVE IInv'
  BY <1>2, ConsumeKeeps, LockKeeps DEF Acquire
<1>3. CASE UNCHANGED vars
  <2>1. UNCHANGED <<rows, expired, suspended, req>>
    BY <1>3 DEF vars, rows
  <2>2. \A r \in Conns : Sound(req[r])'
    BY <2>1 DEF IInv, Sound, Live, Consumed, Matches, rows
  <2> QED BY <2>1, <2>2 DEF IInv, TypeOK, Families, OneHeadPerFamily, RotationIsAChain,
                            Consumed, Apart, rows
<1> QED BY <1>1, <1>2, <1>3, ArriveKeeps, EndKeeps, WorldKeeps DEF Next

-----------------------------------------------------------------------------

\* Only two actions write the tables.
LEMMA TableWriters ==
  ASSUME Next
  PROVE  UNCHANGED rows \/ \E r \in Conns : CommitIssue(r) \/ CommitRevoke(r)
<1>1. ASSUME NEW r \in Conns, Arrive(r) PROVE UNCHANGED rows
  BY <1>1 DEF Arrive, SignIn, PresentToken, SignOut, SignOutEverywhere
<1>2. ASSUME NEW r \in Conns, Advance(r)
      PROVE  UNCHANGED rows \/ CommitIssue(r) \/ CommitRevoke(r)
  BY <1>2 DEF Advance, IssuePair, ScanRows, DeadlockAbort
<1>3. ASSUME NEW r \in Conns, Acquire(r) PROVE UNCHANGED rows
  BY <1>3 DEF Acquire, ConsumePresented, LockRow
<1>4. ASSUME NEW r \in Conns, Reply(r) \/ Crash(r) PROVE UNCHANGED rows
  BY <1>4 DEF Reply, Crash
<1>5. ASSUME \/ \E t \in Tokens : Expire(t)
             \/ \E u \in Users : SetStatus(u)
      PROVE  UNCHANGED rows
  BY <1>5 DEF Expire, SetStatus
<1> QED BY <1>1, <1>2, <1>3, <1>4, <1>5 DEF Next

\* The inductive invariant holds in every reachable state.
LEMMA Invariance == Spec => []IInv
  BY InitIInv, NextKeeps, PTL DEF Spec

\* Every variable keeps its type, whatever the number of connections.
THEOREM TypeCorrect == Spec => []TypeOK
<1>1. IInv => TypeOK
  BY DEF IInv
<1> QED BY <1>1, Invariance, PTL

\* A consumed token points at one successor of its own family and user, which
\* no other token points at; so the tokens of a family are one chain, of which
\* the last is the only one that is good.
THEOREM Chain == Spec => []FamilyIsAChain
<1>1. IInv => FamilyIsAChain
  BY DEF IInv, FamilyIsAChain
<1> QED BY <1>1, Invariance, PTL

\* "reused" is answered only once the revocation it reports is committed.
THEOREM DurableAnswer == Spec => []ReuseAnswerIsDurable
<1>1. IInv => ReuseAnswerIsDurable
  BY DEF IInv, Sound, ReuseAnswerIsDurable
<1> QED BY <1>1, Invariance, PTL

\* No refresh trades in a token after it is revoked.
THEOREM RevokedStaysSpent == Spec => RevokedIsNeverRotated
<1>1. IInv /\ [Next]_vars => [\A t \in revoked : replacedBy'[t] = replacedBy[t]]_vars
  <2> SUFFICES ASSUME IInv, Next, NEW t \in revoked
               PROVE  replacedBy'[t] = replacedBy[t]
    OBVIOUS
  <2>1. ASSUME NEW r \in Conns, CommitIssue(r)
        PROVE  replacedBy'[t] = replacedBy[t]
    <3>1. req[r].held \cap revoked = {}
      BY <2>1 DEF CommitIssue, IInv, Sound, Live
    <3> QED BY <2>1, <3>1 DEF CommitIssue, IInv, TypeOK
  <2>2. ASSUME NEW r \in Conns, CommitRevoke(r)
        PROVE  replacedBy'[t] = replacedBy[t]
    BY <2>2 DEF CommitRevoke
  <2>3. CASE UNCHANGED rows
    BY <2>3 DEF rows
  <2> QED BY <2>1, <2>2, <2>3, TableWriters
<1> QED BY <1>1, Invariance, PTL DEF Spec, RevokedIsNeverRotated

\* What a revoking request has locked is its own user's, and of the presented
\* token's family unless it signs out everywhere.
LEMMA HeldInScope ==
  ASSUME IInv, NEW r \in Conns, req[r].pc = "lock", NEW t \in req[r].held
  PROVE  MayRevoke(req[r], t) /\ t \in issued
<1>1. /\ Sound(req[r]) /\ t \in issued /\ Matches(req[r], t)
      /\ req[r].kind \in {"refresh", "revoke", "revoke_all"}
  BY DEF IInv, Sound
<1>2. CASE req[r].kind = "revoke_all"
  BY <1>1, <1>2 DEF Matches, MayRevoke
<1>3. CASE req[r].kind # "revoke_all"
  <2>1. /\ family[t] = family[req[r].tok] /\ req[r].tok \in issued
        /\ req[r].user = owner[req[r].tok]
    BY <1>1, <1>3 DEF Matches, Sound
  <2>2. owner[t] = owner[req[r].tok]
    BY <1>1, <2>1 DEF IInv, Families
  <2> QED BY <1>1, <2>1, <2>2 DEF MayRevoke
<1> QED BY <1>1, <1>2, <1>3

\* Nobody's token is revoked but by a request of its own user (or by the reuse
\* of a token of its family), and one device's sign-out leaves the others alone.
THEOREM Scope == Spec => RevocationStaysInScope
<1> DEFINE A == \A t \in revoked' \ revoked :
                  \E r \in Conns : req[r].pc = "lock" /\ MayRevoke(req[r], t)
<1>1. IInv /\ [Next]_vars => [A]_vars
  <2> SUFFICES ASSUME IInv, Next, NEW t \in revoked' \ revoked
               PROVE  \E r \in Conns : req[r].pc = "lock" /\ MayRevoke(req[r], t)
    OBVIOUS
  <2>1. \E r \in Conns : CommitRevoke(r)
    BY TableWriters DEF CommitIssue, rows
  <2>2. PICK r \in Conns : CommitRevoke(r)
    BY <2>1
  <2>3. req[r].pc = "lock" /\ t \in req[r].held
    BY <2>2 DEF CommitRevoke
  <2> QED BY <2>3, HeldInScope
<1> QED BY <1>1, Invariance, PTL DEF Spec, RevocationStaysInScope

\* The two together: a revocation takes what it may, and takes it for good.
THEOREM Stands == Spec => RevocationStands
  BY RevokedStaysSpent, Scope DEF RevocationStands

-----------------------------------------------------------------------------
(* The registry implements the ledger.                                     *)

LEMMA InitRefines == Init => Ledger!Init
  BY DEF Init, Ledger!Init, Live, Consumed

LEMMA IssueRefines ==
  ASSUME IInv, NEW r \in Conns, CommitIssue(r)
  PROVE  Ledger!Next
<1> DEFINE n == req[r].new
           t == req[r].tok
<1>0. /\ Sound(req[r]) /\ req[r].pc = "commit" /\ n \in Tokens \ issued
      /\ req[r].user \in Users /\ replacedBy[n] = NoToken /\ n # NoToken
      /\ n \notin revoked
  <2>1. Sound(req[r]) /\ req[r].pc = "commit"
    BY DEF CommitIssue, IInv
  <2>2. n \in Tokens \ issued /\ req[r].user \in Users
    BY <2>1 DEF Sound
  <2> QED BY <2>1, <2>2, RegistryAssumption DEF IInv, Families, TypeOK
<1>1. CASE req[r].kind = "refresh"
  <2>1. /\ req[r].held = {t} /\ t \in Live /\ t \in Tokens /\ t # n
        /\ req[r].user = owner[t] /\ NewFamily(r) = family[t]
    BY <1>0, <1>1 DEF Sound, Live, NewFamily, IInv, TypeOK
  <2>2. /\ issued' = issued \cup {n} /\ revoked' = revoked
        /\ \A x \in Tokens : replacedBy'[x] = IF x = t THEN n ELSE replacedBy[x]
    BY <2>1 DEF CommitIssue, IInv, TypeOK
  <2>3. Live' = (Live \ {t}) \cup {n}
    BY <1>0, <2>1, <2>2 DEF Live, Consumed, IInv, TypeOK
  <2>4. Ledger!Rotate(t, n)
    BY <1>0, <2>1, <2>2, <2>3 DEF Ledger!Rotate, CommitIssue
  <2> QED BY <1>0, <2>1, <2>4 DEF Ledger!Next
<1>2. CASE req[r].kind # "refresh"
  <2>1. req[r].held = {} /\ NewFamily(r) = n
    BY <1>0, <1>2 DEF Sound, NewFamily
  <2>2. /\ issued' = issued \cup {n} /\ revoked' = revoked
        /\ \A x \in Tokens : replacedBy'[x] = replacedBy[x]
    BY <2>1 DEF CommitIssue, IInv, TypeOK
  <2>3. Live' = Live \cup {n}
    BY <1>0, <2>2 DEF Live, Consumed, IInv, TypeOK
  <2>4. Ledger!Open(n, req[r].user)
    BY <1>0, <2>1, <2>2, <2>3 DEF Ledger!Open, CommitIssue
  <2> QED BY <1>0, <2>4 DEF Ledger!Next
<1> QED BY <1>1, <1>2

LEMMA RevokeRefines ==
  ASSUME IInv, NEW r \in Conns, CommitRevoke(r)
  PROVE  Ledger!Next
<1> DEFINE S == req[r].held \cap Live
<1>1. req[r].pc = "lock" /\ req[r].user \in Users
  BY DEF CommitRevoke, IInv, Sound
<1>2. \A t \in S : owner[t] = req[r].user
  BY <1>1, HeldInScope DEF MayRevoke
<1>3. Live' = Live \ S /\ S \subseteq Live /\ S \in SUBSET Tokens
  BY DEF CommitRevoke, Live, Consumed, IInv, TypeOK
<1>4. Ledger!Kill(req[r].user, S)
  BY <1>2, <1>3 DEF Ledger!Kill, CommitRevoke
<1> QED BY <1>1, <1>3, <1>4 DEF Ledger!Next

\* Every behaviour of the registry is one of the ledger: tokens go live one at
\* a time, a rotation is a single exchange, and a dead token stays dead.
THEOREM Refinement == Spec => ImplementsLedger
<1>1. IInv /\ [Next]_vars => [Ledger!Next]_(Ledger!ledgerVars)
  <2> SUFFICES ASSUME IInv, [Next]_vars
               PROVE  Ledger!Next \/ UNCHANGED <<issued, Live, family, owner>>
    BY DEF Ledger!ledgerVars
  <2>1. ASSUME UNCHANGED rows
        PROVE  UNCHANGED <<issued, Live, family, owner>>
    BY <2>1 DEF rows, Live, Consumed
  <2>2. CASE Next
    BY <2>1, <2>2, TableWriters, IssueRefines, RevokeRefines
  <2>3. CASE UNCHANGED vars
    BY <2>1, <2>3 DEF vars, rows
  <2> QED BY <2>2, <2>3
<1> QED BY <1>1, InitRefines, Invariance, PTL DEF Spec, ImplementsLedger, Ledger!Spec

=============================================================================
