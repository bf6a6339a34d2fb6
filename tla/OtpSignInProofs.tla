-------------------------- MODULE OtpSignInProofs ---------------------------
(***************************************************************************)
(* Proofs about OtpSignIn.  A verification that holds the lock of a        *)
(* challenge has it to itself: the challenge is stored, unused, and no     *)
(* other verification holds it.  So its counter stands still between the   *)
(* judgement of a guess and the commit that counts it, and what was judged *)
(* a match is spent by nobody else.                                        *)
(***************************************************************************)
EXTENDS OtpSignIn, FiniteSetTheorems, WellFoundedInduction, TLAPS

\* Verifications that have been started and may still count their attempt.
Flying   == {"match", "count", "sign_in", "commit"}
InFlight == {r \in Conns : req[r].pc \in Flying}

\* Every attempt counted is a guess that was made, and none is counted twice.
Budget == \A c \in Codes : attempts[c] + Cardinality(InFlight) <= guesses

\* What a request has found still holds.
Current(r) ==
  LET q == req[r] IN
  /\ q.seen \subseteq rows
  /\ q.pc = "insert" => q.target \in Drawn
  /\ Locks(r) =>
       /\ q.target \in rows \ consumed
       /\ q.burned <=> q.pc # "count"
       /\ q.burned => attempts[q.target] < MaxAttempts
       /\ \A d \in q.seen : born[d] > born[q.target] => d \in consumed

\* FOR UPDATE: a challenge is held by one verification at a time.
Exclusive ==
  \A r, s \in Conns : Locks(r) /\ Locks(s) /\ req[r].target = req[s].target => r = s

IInv ==
  /\ TypeOK /\ Budget /\ Exclusive /\ OneSignInPerCode /\ GuessesAreCounted
  /\ \A r \in Conns : Current(r)

-----------------------------------------------------------------------------
(* The newest of some challenges.                                          *)

\* A set of numbers that is not empty has a least one.
LEMMA LeastNat ==
  ASSUME NEW T, T \subseteq Nat, T # {}
  PROVE  \E x \in T : \A y \in T : x <= y
<1> DEFINE R == OpToRel(<, Nat)
<1>1. IsWellFoundedOn(R, Nat)
  BY NatLessThanWellFounded
<1>2. \A x, y \in Nat : <<y, x>> \in R <=> y < x
  BY DEF OpToRel
<1> HIDE DEF R
<1>3. PICK x \in T : \A y \in T : <<y, x>> \notin R
  BY <1>1, WFMin
<1>4. x \in Nat /\ \A y \in T : y \in Nat /\ ~(y < x)
  BY <1>2, <1>3
<1> QED BY <1>4

\* ORDER BY created_at DESC: the first row is one of them, and none is newer.
LEMMA NewestExists ==
  ASSUME TypeOK, NEW S, S \subseteq Codes, S # {}
  PROVE  Newest(S) \in S /\ \A d \in S : born[d] <= born[Newest(S)]
<1>1. Cardinality(Codes) \in Nat
  BY OtpAssumption, FS_CardinalityType DEF OtpAssumption
<1>2. \A d \in S : born[d] \in Nat /\ born[d] <= Cardinality(Codes)
  BY <1>1 DEF TypeOK
<1> DEFINE Bounds == {n \in Nat : \A d \in S : born[d] <= n}
<1>3. PICK n \in Bounds : \A m \in Bounds : n <= m
  <2>1. Cardinality(Codes) \in Bounds
    BY <1>1, <1>2
  <2> QED BY <2>1, LeastNat
<1>4. \E c \in S : born[c] = n
  <2> SUFFICES ASSUME \A c \in S : born[c] # n PROVE FALSE
    OBVIOUS
  <2>1. n \in Nat /\ \A d \in S : born[d] < n
    BY <1>2, <1>3
  <2>2. n - 1 \in Nat /\ \A d \in S : born[d] <= n - 1
    BY <1>2, <2>1
  <2> QED BY <1>3, <2>1, <2>2
<1>5. \E c \in S : \A d \in S : born[d] <= born[c]
  BY <1>3, <1>4
<1> QED BY <1>5 DEF Newest

-----------------------------------------------------------------------------
(* Steps of one request.                                                   *)

\* How a step of one request changes the number of those in flight.
LEMMA FlightStep ==
  ASSUME TypeOK, NEW r \in Conns, NEW q \in Request, req' = [req EXCEPT ![r] = q]
  PROVE  /\ Cardinality(InFlight) \in Nat /\ Cardinality(InFlight') \in Nat
         /\ Cardinality(InFlight') <= Cardinality(InFlight) + 1
         /\ q.pc \in Flying /\ req[r].pc \in Flying
              => Cardinality(InFlight') <= Cardinality(InFlight)
         /\ q.pc \notin Flying => Cardinality(InFlight') <= Cardinality(InFlight)
         /\ q.pc \notin Flying /\ req[r].pc \in Flying
              => Cardinality(InFlight') + 1 <= Cardinality(InFlight)
<1>1. \A s \in Conns : req'[s] = IF s = r THEN q ELSE req[s]
  BY DEF TypeOK
<1>2. InFlight' = IF q.pc \in Flying THEN InFlight \cup {r} ELSE InFlight \ {r}
  BY <1>1 DEF InFlight
<1>3. IsFiniteSet(InFlight)
  BY OtpAssumption, FS_Subset DEF OtpAssumption, InFlight
<1>4. r \in InFlight <=> req[r].pc \in Flying
  BY DEF InFlight
<1>5. Cardinality(InFlight) \in Nat
  BY <1>3, FS_CardinalityType
<1>6. /\ Cardinality(InFlight \cup {r}) =
           IF r \in InFlight THEN Cardinality(InFlight) ELSE Cardinality(InFlight) + 1
      /\ Cardinality(InFlight \ {r}) =
           IF r \in InFlight THEN Cardinality(InFlight) - 1 ELSE Cardinality(InFlight)
  <2>1. Cardinality(InFlight \cup {r}) =
          IF r \in InFlight THEN Cardinality(InFlight) ELSE Cardinality(InFlight) + 1
    BY <1>3, FS_AddElement
  <2>2. Cardinality(InFlight \ {r}) =
          IF r \in InFlight THEN Cardinality(InFlight) - 1 ELSE Cardinality(InFlight)
    BY <1>3, FS_RemoveElement
  <2> QED BY <2>1, <2>2
<1>7. Cardinality(InFlight \ {r}) \in Nat
  BY <1>3, FS_RemoveElement, FS_CardinalityType
<1> QED BY <1>2, <1>4, <1>5, <1>6, <1>7

\* A step that leaves the table and the counts alone, and takes no lock that
\* somebody has.
LEMMA QuietStep ==
  ASSUME IInv, NEW r \in Conns, NEW q \in Request, req' = [req EXCEPT ![r] = q],
         UNCHANGED <<table, account, guesses, signedIn, told>>,
         q.pc \in Flying => req[r].pc \in Flying,
         Current(r)',
         Locks(r)' => ~LockedByOther(r, q.target)
  PROVE  IInv'
<1>1. \A s \in Conns : req'[s] = IF s = r THEN q ELSE req[s]
  BY DEF IInv, TypeOK
<1>2. \A s \in Conns \ {r} : (Locks(s)' <=> Locks(s)) /\ (Current(s)' <=> Current(s))
  BY <1>1 DEF Locks, Current, Drawn, table
<1>3. TypeOK'
  <2>1. Locks(r)' => q.target \in rows
    BY <1>1 DEF Current, Locks, table
  <2>2. Drawn' = Drawn
    BY DEF Drawn, table
  <2> QED BY <1>1, <1>2, <2>1, <2>2 DEF IInv, TypeOK, table
<1>4. Budget'
  <2>1. Cardinality(InFlight') <= Cardinality(InFlight)
    BY FlightStep DEF IInv
  <2>2. Cardinality(InFlight) \in Nat /\ Cardinality(InFlight') \in Nat
    BY FlightStep DEF IInv
  <2> QED BY <2>1, <2>2 DEF IInv, Budget, TypeOK, table
<1>5. Exclusive'
  BY <1>1, <1>2 DEF IInv, Exclusive, LockedByOther, Locks
<1>6. OneSignInPerCode' /\ GuessesAreCounted'
  BY DEF IInv, OneSignInPerCode, GuessesAreCounted, table
<1> QED BY <1>2, <1>3, <1>4, <1>5, <1>6 DEF IInv

\* The transaction of a verification ends, with or without its attempt.
LEMMA EndStep ==
  ASSUME IInv, NEW r \in Conns, req' = [req EXCEPT ![r].pc = "done"],
         UNCHANGED <<table, account, guesses, signedIn, told>>
  PROVE  IInv'
<1> DEFINE q == [req[r] EXCEPT !.pc = "done"]
<1>1. q \in Request /\ req' = [req EXCEPT ![r] = q] /\ q.pc = "done"
  BY DEF IInv, TypeOK, Request
<1>2. Current(r)' /\ ~Locks(r)'
  BY <1>1 DEF IInv, TypeOK, Current, Locks, Drawn, table, Request
<1> HIDE DEF q
<1> QED BY <1>1, <1>2, QuietStep DEF Flying

-----------------------------------------------------------------------------
(* Requests for a code.                                                    *)

LEMMA InitOK == Init => IInv
<1> SUFFICES ASSUME Init PROVE IInv
  OBVIOUS
<1>1. Cardinality(Codes) \in Nat /\ IsFiniteSet({}) /\ Cardinality({}) = 0
  BY OtpAssumption, FS_CardinalityType, FS_EmptySet DEF OtpAssumption
<1>2. NoRequest \in Request
  BY DEF NoRequest, Request, Verdicts
<1>3. TypeOK
  BY <1>1, <1>2, OtpAssumption DEF Init, TypeOK, Purposes, Drawn, Locks, NoRequest,
     OtpAssumption
<1>4. Budget
  <2>1. InFlight = {}
    BY DEF Init, InFlight, Flying, NoRequest
  <2> QED BY <1>1, <2>1 DEF Budget, Init
<1>5. Exclusive /\ \A r \in Conns : Current(r)
  BY DEF Init, Exclusive, Current, Locks, NoRequest
<1>6. OneSignInPerCode /\ GuessesAreCounted
  BY DEF Init, OneSignInPerCode, GuessesAreCounted
<1> QED BY <1>3, <1>4, <1>5, <1>6 DEF IInv

\* A challenge that is about to be inserted is newer than all that are drawn.
LEMMA DrawOK ==
  ASSUME IInv, NEW r \in Conns, NEW p \in Purposes, NEW c \in Codes \ Drawn,
         req[r].pc = "idle",
         born' = [born EXCEPT ![c] = Cardinality(Drawn) + 1],
         purpose' = [purpose EXCEPT ![c] = p],
         req' = [req EXCEPT ![r].pc = "insert", ![r].target = c],
         UNCHANGED <<rows, attempts, consumed, expired, cooled, account, guesses, signedIn, told>>
  PROVE  IInv'
<1> DEFINE q == [req[r] EXCEPT !.pc = "insert", !.target = c]
<1>1. q \in Request /\ req' = [req EXCEPT ![r] = q] /\ q.pc = "insert" /\ q.target = c
      /\ q.seen = req[r].seen
  BY DEF IInv, TypeOK, Request
<1> HIDE DEF q
<1>2. \A s \in Conns : req'[s] = IF s = r THEN q ELSE req[s]
  BY <1>1 DEF IInv, TypeOK
<1>3. Cardinality(Drawn) + 1 \in 1 .. Cardinality(Codes)
  <2>1. Drawn \in SUBSET Codes /\ Drawn # Codes
    BY DEF Drawn
  <2>2. IsFiniteSet(Codes) /\ IsFiniteSet(Drawn) /\ Cardinality(Drawn) <= Cardinality(Codes)
        /\ Cardinality(Drawn) # Cardinality(Codes)
    BY <2>1, OtpAssumption, FS_Subset DEF OtpAssumption
  <2>3. Cardinality(Codes) \in Nat /\ Cardinality(Drawn) \in Nat
    BY <2>2, FS_CardinalityType
  <2> QED BY <2>2, <2>3
<1>4. c \in Drawn' /\ Drawn \subseteq Drawn' /\ \A d \in Drawn : born'[d] = born[d]
  BY <1>3 DEF IInv, TypeOK, Drawn
<1>5. \A s \in Conns : /\ Locks(s)' <=> Locks(s)
                       /\ Locks(s) => s # r
  BY <1>1, <1>2 DEF Locks
<1>6. TypeOK'
  <2>1. born' \in [Codes -> 0 .. Cardinality(Codes)] /\ purpose' \in [Codes -> Purposes]
    <3>1. Cardinality(Drawn) + 1 \in 0 .. Cardinality(Codes)
      BY <1>3
    <3> QED BY <3>1 DEF IInv, TypeOK
  <2>2. rows' \subseteq Drawn'
    BY <1>4 DEF IInv, TypeOK
  <2> QED BY <1>1, <1>2, <1>5, <2>1, <2>2 DEF IInv, TypeOK
<1>7. Budget'
  <2>1. Cardinality(InFlight') <= Cardinality(InFlight)
        /\ Cardinality(InFlight) \in Nat /\ Cardinality(InFlight') \in Nat
    BY <1>1, FlightStep DEF IInv, Flying
  <2> QED BY <2>1 DEF IInv, Budget, TypeOK
<1>8. Exclusive'
  BY <1>2, <1>5 DEF IInv, Exclusive
<1>9. ASSUME NEW s \in Conns PROVE Current(s)'
  <2>1. rows \subseteq Drawn
    BY DEF IInv, TypeOK
  <2>2. Current(s)
    BY DEF IInv
  <2>3. CASE s = r
    BY <1>1, <1>2, <1>4, <1>5, <2>2, <2>3 DEF Current
  <2>4. CASE s # r
    BY <1>2, <1>4, <1>5, <2>1, <2>2, <2>4 DEF Current
  <2> QED BY <2>3, <2>4
<1> QED BY <1>6, <1>7, <1>8, <1>9 DEF IInv, OneSignInPerCode, GuessesAreCounted

LEMMA RequestCodeOK ==
  ASSUME IInv, NEW r \in Conns, NEW p \in Purposes, NEW c \in Codes, RequestCode(r, p, c)
  PROVE  IInv'
<1>1. CASE Live(p) # {} /\ Newest(Live(p)) \notin cooled
  BY <1>1, EndStep DEF RequestCode, Finish, table
<1>2. CASE ~(Live(p) # {} /\ Newest(Live(p)) \notin cooled)
  BY <1>2, DrawOK DEF RequestCode
<1> QED BY <1>1, <1>2

LEMMA CommitCodeOK ==
  ASSUME IInv, NEW r \in Conns, CommitCode(r)
  PROVE  IInv'
<1> DEFINE q == [req[r] EXCEPT !.pc = "mail"]
<1>1. q \in Request /\ req' = [req EXCEPT ![r] = q] /\ q.pc = "mail" /\ q.seen = req[r].seen
  BY DEF IInv, TypeOK, Request, CommitCode
<1> HIDE DEF q
<1>2. \A s \in Conns : req'[s] = IF s = r THEN q ELSE req[s]
  BY <1>1 DEF IInv, TypeOK
<1>3. \A s \in Conns : (Locks(s)' <=> Locks(s)) /\ (Locks(s) => s # r)
  BY <1>1, <1>2 DEF Locks, CommitCode
<1>4. rows \subseteq rows' /\ rows' \subseteq Drawn
  BY DEF IInv, TypeOK, Current, CommitCode
<1>5. TypeOK'
  <2>1. Drawn' = Drawn
    BY DEF Drawn, CommitCode
  <2> QED BY <1>1, <1>2, <1>3, <1>4, <2>1 DEF IInv, TypeOK, CommitCode
<1>6. Budget'
  <2>1. Cardinality(InFlight') <= Cardinality(InFlight)
        /\ Cardinality(InFlight) \in Nat /\ Cardinality(InFlight') \in Nat
    BY <1>1, FlightStep DEF IInv, Flying
  <2> QED BY <2>1 DEF IInv, Budget, TypeOK, CommitCode
<1>7. Exclusive'
  BY <1>2, <1>3 DEF IInv, Exclusive
<1>8. \A s \in Conns : Current(s)'
  BY <1>1, <1>2, <1>3, <1>4 DEF IInv, Current, Drawn, CommitCode
<1>9. OneSignInPerCode' /\ GuessesAreCounted'
  BY DEF IInv, OneSignInPerCode, GuessesAreCounted, CommitCode
<1> QED BY <1>5, <1>6, <1>7, <1>8, <1>9 DEF IInv

-----------------------------------------------------------------------------
(* Verifications.                                                          *)

LEMMA VerifyCodeOK ==
  ASSUME IInv, NEW r \in Conns, NEW g \in rows \cup {NoCode}, VerifyCode(r, g)
  PROVE  IInv'
<1> DEFINE q == [req[r] EXCEPT !.pc = "match", !.code = g, !.seen = Live("login")]
<1>1. /\ q \in Request /\ req' = [req EXCEPT ![r] = q]
      /\ q.pc = "match" /\ q.seen \subseteq rows
  BY DEF IInv, TypeOK, Request, VerifyCode, Live, Drawn
<1> HIDE DEF q
<1>2. \A s \in Conns : req'[s] = IF s = r THEN q ELSE req[s]
  BY <1>1 DEF IInv, TypeOK
<1>3. \A s \in Conns : (Locks(s)' <=> Locks(s)) /\ (Locks(s) => s # r)
  BY <1>1, <1>2 DEF Locks, VerifyCode
<1>4. guesses' = guesses + 1 /\ guesses' \in 0 .. MaxGuesses /\ guesses \in Nat
  BY OtpAssumption DEF IInv, TypeOK, VerifyCode, OtpAssumption
<1>5. TypeOK'
  <2>1. Drawn' = Drawn
    BY DEF Drawn, VerifyCode, table
  <2> QED BY <1>1, <1>2, <1>3, <1>4, <2>1 DEF IInv, TypeOK, VerifyCode, table
<1>6. Budget'
  <2>1. Cardinality(InFlight') <= Cardinality(InFlight) + 1
        /\ Cardinality(InFlight) \in Nat /\ Cardinality(InFlight') \in Nat
    BY <1>1, FlightStep DEF IInv, Flying
  <2> QED BY <1>4, <2>1 DEF IInv, Budget, TypeOK, VerifyCode, table
<1>7. Exclusive'
  BY <1>2, <1>3 DEF IInv, Exclusive
<1>8. \A s \in Conns : Current(s)'
  BY <1>1, <1>2, <1>3 DEF IInv, Current, Drawn, VerifyCode, table
<1>9. OneSignInPerCode' /\ GuessesAreCounted'
  BY DEF IInv, OneSignInPerCode, GuessesAreCounted, VerifyCode, table
<1> QED BY <1>5, <1>6, <1>7, <1>8, <1>9 DEF IInv

\* What the UPDATE makes of a guess and what the code makes of the row that it
\* returns agree: a match is what it consumed.
LEMMA BurnsIsMatched ==
  ASSUME TypeOK, NEW c \in Codes, NEW g
  PROVE  /\ Verdict(c, g) \in Verdicts
         /\ Burns(c, g) <=> Verdict(c, g) = "matched"
<1>1. attempts[c] \in Nat /\ MaxAttempts \in Nat
  BY OtpAssumption DEF TypeOK, OtpAssumption
<1>2. attempts[c] < MaxAttempts <=> attempts[c] + 1 <= MaxAttempts
  BY <1>1
<1>3. attempts[c] + 1 > MaxAttempts <=> ~(attempts[c] + 1 <= MaxAttempts)
  BY <1>1
<1>4. CASE attempts[c] + 1 > MaxAttempts
  BY <1>2, <1>3, <1>4 DEF Verdict, Burns, Verdicts
<1>5. CASE attempts[c] + 1 <= MaxAttempts /\ c \in expired
  BY <1>2, <1>3, <1>5 DEF Verdict, Burns, Verdicts
<1>6. CASE attempts[c] + 1 <= MaxAttempts /\ c \notin expired
  BY <1>2, <1>3, <1>6 DEF Verdict, Burns, Verdicts
<1> QED BY <1>3, <1>4, <1>5, <1>6

LEMMA MatchCodeOK ==
  ASSUME IInv, NEW r \in Conns, MatchCode(r)
  PROVE  IInv'
<1>0. req[r] \in Request /\ req[r].pc = "match" /\ req[r].seen \subseteq rows
  BY DEF IInv, TypeOK, MatchCode, Current
<1>1. CASE Candidates(r) = {}
  <2> DEFINE q == [req[r] EXCEPT !.pc = "done", !.verdict = "missing"]
  <2>1. q \in Request /\ req' = [req EXCEPT ![r] = q] /\ q.pc = "done" /\ q.seen = req[r].seen
    BY <1>0, <1>1 DEF MatchCode, Request, Verdicts
  <2> HIDE DEF q
  <2>2. req'[r] = q
    BY <2>1 DEF IInv, TypeOK
  <2>3. Current(r)' /\ ~Locks(r)'
    BY <1>0, <2>1, <2>2 DEF Current, Locks, MatchCode, table
  <2> QED BY <2>1, <2>3, QuietStep DEF MatchCode, Flying
<1>2. CASE Candidates(r) # {}
  <2> DEFINE c == Newest(Candidates(r))
             v == Verdict(c, req[r].code)
             q == [req[r] EXCEPT !.pc = IF v = "matched" THEN "sign_in" ELSE "count",
                                 !.target = c, !.verdict = v, !.burned = Burns(c, req[r].code)]
  <2>1. c \in Candidates(r) /\ \A d \in Candidates(r) : born[d] <= born[c]
    <3>1. Candidates(r) \subseteq Codes
      BY <1>0 DEF Candidates, IInv, TypeOK, Drawn
    <3> QED BY <1>2, <3>1, NewestExists DEF IInv
  <2>2. c \in rows \ consumed /\ c \in Codes /\ c \in req[r].seen
    BY <1>0, <2>1 DEF Candidates, IInv, TypeOK, Drawn
  <2>3. v \in Verdicts /\ (Burns(c, req[r].code) <=> v = "matched")
    BY <2>2, BurnsIsMatched DEF IInv
  <2>4. ~LockedByOther(r, c) /\ req' = [req EXCEPT ![r] = q]
    BY <1>0, <1>2 DEF MatchCode, IInv, TypeOK
  <2>5. v = "matched" => attempts[c] < MaxAttempts
    BY <2>3 DEF Burns
  <2> HIDE DEF c, v
  <2>6. /\ q \in Request /\ q.seen = req[r].seen /\ q.target = c
        /\ q.pc \in {"sign_in", "count"} /\ (q.burned <=> q.pc # "count")
        /\ q.burned => attempts[c] < MaxAttempts
    <3>1. Burns(c, req[r].code) \in BOOLEAN
      BY DEF Burns
    <3> QED BY <1>0, <2>2, <2>3, <2>5, <3>1 DEF Request
  <2> HIDE DEF q
  <2>7. req'[r] = q /\ UNCHANGED <<table, account, guesses, signedIn, told>>
    BY <2>4 DEF IInv, TypeOK, MatchCode
  <2>8. \A d \in q.seen : born[d] > born[c] => d \in consumed
    <3>1. \A d \in q.seen :
            d \in consumed \/ (born[d] \in Nat /\ born[c] \in Nat /\ born[d] <= born[c])
      BY <1>0, <2>1, <2>2, <2>6 DEF Candidates, IInv, TypeOK, Drawn
    <3> QED BY <3>1
  <2>9. Current(r)'
    BY <1>0, <2>2, <2>6, <2>7, <2>8 DEF Current, Locks, table
  <2> QED BY <1>0, <2>4, <2>6, <2>7, <2>9, QuietStep DEF Flying
<1> QED BY <1>1, <1>2

\* The commit of a verification that holds its challenge: the attempt counts,
\* and a matching one has spent the challenge.
LEMMA ApplyStep ==
  ASSUME IInv, NEW r \in Conns, Locks(r), Apply(r), req' = [req EXCEPT ![r].pc = "done"],
         UNCHANGED <<born, purpose, rows, expired, cooled, guesses>>,
         account' \in {"absent", "active", "suspended"},
         \/ /\ req[r].burned /\ told' = told
            /\ signedIn' = [signedIn EXCEPT ![req[r].target] = @ + 1]
         \/ /\ ~req[r].burned /\ signedIn' = signedIn
            /\ told' = [told EXCEPT ![req[r].target] = @ + 1]
  PROVE  IInv'
<1> DEFINE c == req[r].target
           q == [req[r] EXCEPT !.pc = "done"]
<1>1. /\ q \in Request /\ req' = [req EXCEPT ![r] = q] /\ q.pc = "done" /\ q.seen = req[r].seen
      /\ q.burned = req[r].burned /\ q.target = c
  BY DEF IInv, TypeOK, Request
<1>2. /\ c \in rows \ consumed /\ c \in Codes
      /\ req[r].burned => attempts[c] < MaxAttempts
  BY DEF IInv, TypeOK, Current, Drawn
<1>3. /\ attempts' = [attempts EXCEPT ![c] = @ + 1]
      /\ consumed' = IF req[r].burned THEN consumed \cup {c} ELSE consumed
      /\ told' = IF req[r].burned THEN told ELSE [told EXCEPT ![c] = @ + 1]
      /\ signedIn' = IF req[r].burned THEN [signedIn EXCEPT ![c] = @ + 1] ELSE signedIn
  BY DEF Apply
<1>4. \A s \in Conns \ {r} : Locks(s) => req[s].target # c
  BY DEF IInv, Exclusive
<1> HIDE DEF c, q
<1>5. \A s \in Conns : req'[s] = IF s = r THEN q ELSE req[s]
  BY <1>1 DEF IInv, TypeOK
<1>6. ~Locks(r)' /\ \A s \in Conns \ {r} : Locks(s)' <=> Locks(s)
  BY <1>1, <1>5 DEF Locks
<1>7. MaxAttempts \in Nat /\ MaxGuesses \in Nat
  BY OtpAssumption DEF OtpAssumption
<1>8. \A d \in Codes : /\ attempts[d] \in Nat /\ told[d] \in Nat /\ signedIn[d] \in Nat
                       /\ attempts'[d] = IF d = c THEN attempts[d] + 1 ELSE attempts[d]
  BY <1>2, <1>3, <1>7 DEF IInv, TypeOK
<1>9. Budget'
  <2>1. Cardinality(InFlight') + 1 <= Cardinality(InFlight)
        /\ Cardinality(InFlight) \in Nat /\ Cardinality(InFlight') \in Nat
    BY <1>1, FlightStep DEF IInv, Flying, Locks
  <2>2. \A d \in Codes : attempts[d] + Cardinality(InFlight) <= guesses
    BY DEF IInv, Budget
  <2>3. guesses' = guesses /\ guesses \in Nat
    BY <1>7 DEF IInv, TypeOK
  <2>4. \A d \in Codes : attempts'[d] + Cardinality(InFlight') <= guesses'
    BY <1>8, <2>1, <2>2, <2>3
  <2> QED BY <2>4 DEF Budget
<1>10. TypeOK'
  <2>1. attempts' \in [Codes -> 0 .. MaxGuesses]
    <3>1. \A d \in Codes : attempts'[d] \in Nat /\ attempts'[d] <= guesses
      <4>1. Cardinality(InFlight') \in Nat
        BY <1>1, FlightStep DEF IInv
      <4> QED BY <1>7, <1>8, <1>9, <4>1 DEF Budget, IInv, TypeOK
    <3>2. guesses \in Nat /\ guesses <= MaxGuesses
      BY <1>7 DEF IInv, TypeOK
    <3>3. \A d \in Codes : attempts'[d] \in 0 .. MaxGuesses
      BY <1>7, <3>1, <3>2
    <3>4. attempts' = [d \in Codes |-> attempts'[d]]
      BY <1>3 DEF IInv, TypeOK
    <3> QED BY <3>3, <3>4
  <2>2. consumed' \subseteq rows'
    BY <1>2, <1>3 DEF IInv, TypeOK
  <2>3. signedIn' \in [Codes -> Nat] /\ told' \in [Codes -> Nat]
    BY <1>2, <1>3, <1>8 DEF IInv, TypeOK
  <2>4. Drawn' = Drawn
    BY DEF Drawn
  <2> QED BY <1>1, <1>5, <1>6, <2>1, <2>2, <2>3, <2>4 DEF IInv, TypeOK
<1>11. Exclusive'
  BY <1>5, <1>6 DEF IInv, Exclusive
<1>12. OneSignInPerCode'
  BY <1>2, <1>3 DEF IInv, TypeOK, OneSignInPerCode
<1>13. GuessesAreCounted'
  <2>1. \A d \in Codes : told'[d] + signedIn'[d] <= attempts'[d]
    <3>1. \A d \in Codes : told'[d] + signedIn'[d] =
                             IF d = c THEN told[d] + signedIn[d] + 1 ELSE told[d] + signedIn[d]
      BY <1>2, <1>3, <1>8 DEF IInv, TypeOK
    <3> QED BY <1>8, <3>1 DEF IInv, GuessesAreCounted
  <2>2. \A d \in consumed' : attempts'[d] <= MaxAttempts
    <3> SUFFICES ASSUME NEW d \in consumed' PROVE attempts'[d] <= MaxAttempts
      OBVIOUS
    <3>1. CASE d = c
      BY <1>2, <1>3, <1>7, <1>8, <3>1
    <3>2. CASE d # c
      BY <1>3, <1>8, <3>2 DEF IInv, TypeOK, Drawn, GuessesAreCounted
    <3> QED BY <3>1, <3>2
  <2> QED BY <2>1, <2>2 DEF GuessesAreCounted
<1>14. ASSUME NEW s \in Conns PROVE Current(s)'
  <2>1. Current(s) /\ Drawn' = Drawn
    BY DEF IInv, Drawn
  <2>2. CASE s = r
    BY <1>1, <1>5, <1>6, <2>1, <2>2 DEF Current
  <2>3. CASE s # r
    <3>1. Locks(s) => req[s].target \in Codes /\ req[s].target \notin consumed'
      BY <1>3, <1>4, <2>1, <2>3 DEF Current, IInv, TypeOK, Drawn
    <3>2. Locks(s) => attempts'[req[s].target] = attempts[req[s].target]
      BY <1>4, <1>8, <2>3, <3>1
    <3>3. req'[s] = req[s] /\ (Locks(s)' <=> Locks(s)) /\ consumed \subseteq consumed'
      BY <1>3, <1>5, <1>6, <2>3
    <3>4. Locks(s)' => /\ req'[s].target \in rows' \ consumed'
                       /\ attempts'[req'[s].target] = attempts[req[s].target]
      BY <2>1, <3>1, <3>2, <3>3 DEF Current
    <3>5. ASSUME Locks(s)'
          PROVE  /\ req'[s].burned <=> req'[s].pc # "count"
                 /\ req'[s].burned => attempts'[req'[s].target] < MaxAttempts
                 /\ \A d \in req'[s].seen : born[d] > born[req'[s].target] => d \in consumed'
      <4>1. Locks(s) /\ req'[s] = req[s]
        BY <3>3, <3>5
      <4>2. /\ req[s].burned <=> req[s].pc # "count"
            /\ req[s].burned => attempts[req[s].target] < MaxAttempts
            /\ \A d \in req[s].seen : born[d] > born[req[s].target] => d \in consumed
        BY <2>1, <4>1 DEF Current
      <4>3. req'[s].burned <=> req'[s].pc # "count"
        BY <4>1, <4>2
      <4>4. req'[s].burned => attempts'[req'[s].target] < MaxAttempts
        BY <3>4, <3>5, <4>1, <4>2
      <4>5. \A d \in req'[s].seen : born[d] > born[req'[s].target] => d \in consumed'
        BY <3>3, <4>1, <4>2
      <4> QED BY <4>3, <4>4, <4>5
    <3>6. req'[s].seen \subseteq rows' /\ (req'[s].pc = "insert" => req'[s].target \in Drawn')
      BY <2>1, <3>3 DEF Current
    <3> QED BY <3>4, <3>5, <3>6 DEF Current
  <2> QED BY <2>2, <2>3
<1> QED BY <1>9, <1>10, <1>11, <1>12, <1>13, <1>14 DEF IInv

LEMMA CountAttemptOK ==
  ASSUME IInv, NEW r \in Conns, CountAttempt(r)
  PROVE  IInv'
<1>1. Locks(r) /\ ~req[r].burned
  BY DEF CountAttempt, Locks, IInv, Current
<1>2. account' \in {"absent", "active", "suspended"}
  BY DEF CountAttempt, IInv, TypeOK
<1> QED BY <1>1, <1>2, ApplyStep DEF CountAttempt, Finish

LEMMA FindAccountOK ==
  ASSUME IInv, NEW r \in Conns, FindAccount(r)
  PROVE  IInv'
<1>1. CASE account = "suspended"
  BY <1>1, EndStep DEF FindAccount, Finish
<1>2. CASE account # "suspended"
  <2> DEFINE q == [req[r] EXCEPT !.pc = "commit", !.create = (account = "absent")]
  <2>1. /\ q \in Request /\ req' = [req EXCEPT ![r] = q] /\ q.pc = "commit"
        /\ q.seen = req[r].seen /\ q.target = req[r].target /\ q.burned = req[r].burned
    BY <1>2 DEF FindAccount, IInv, TypeOK, Request
  <2> HIDE DEF q
  <2>2. /\ req'[r] = q /\ req[r].pc = "sign_in"
        /\ UNCHANGED <<table, account, guesses, signedIn, told>>
    BY <2>1 DEF FindAccount, IInv, TypeOK
  <2>3. Current(r) /\ Locks(r)
    BY <2>2 DEF IInv, Locks
  <2>4. Current(r)'
    BY <2>1, <2>2, <2>3 DEF Current, Locks, Drawn, table
  <2>5. ~LockedByOther(r, q.target)
    BY <2>1, <2>3 DEF LockedByOther, IInv, Exclusive
  <2> QED BY <2>1, <2>2, <2>4, <2>5, QuietStep DEF Flying
<1> QED BY <1>1, <1>2

LEMMA CommitSignInOK ==
  ASSUME IInv, NEW r \in Conns, CommitSignIn(r)
  PROVE  IInv'
<1>1. CASE req[r].create /\ account # "absent"
  BY <1>1, EndStep DEF CommitSignIn, Finish, table
<1>2. CASE ~(req[r].create /\ account # "absent")
  <2>1. Locks(r) /\ req[r].burned
    BY DEF CommitSignIn, Locks, IInv, Current
  <2>2. account' \in {"absent", "active", "suspended"}
    BY <1>2 DEF CommitSignIn, IInv, TypeOK
  <2> QED BY <1>2, <2>1, <2>2, ApplyStep DEF CommitSignIn, Finish
<1> QED BY <1>1, <1>2

-----------------------------------------------------------------------------
(* The rest, and the theorems.                                             *)

LEMMA LeaveOK ==
  ASSUME IInv, NEW r \in Conns, Deliver(r) \/ Reply(r) \/ Crash(r)
  PROVE  IInv'
<1>1. CASE Deliver(r)
  BY <1>1, EndStep DEF Deliver, Finish
<1>2. CASE Reply(r) \/ Crash(r)
  <2>1. /\ NoRequest \in Request /\ req' = [req EXCEPT ![r] = NoRequest]
        /\ UNCHANGED <<table, account, guesses, signedIn, told>>
    BY <1>2 DEF NoRequest, Request, Verdicts, Reply, Crash
  <2>2. Current(r)' /\ ~Locks(r)' /\ NoRequest.pc \notin Flying
    BY <2>1 DEF IInv, TypeOK, Current, Locks, NoRequest, Flying
  <2> QED BY <2>1, <2>2, QuietStep
<1> QED BY <1>1, <1>2

\* Time and the account change nothing a request relies on.
LEMMA WorldOK ==
  ASSUME IInv, (\E c \in Codes : Cool(c) \/ Expire(c)) \/ ChangeAccount
  PROVE  IInv'
<1>1. /\ UNCHANGED <<born, purpose, rows, attempts, consumed, guesses, signedIn, told, req>>
      /\ expired' \subseteq rows /\ cooled' \subseteq rows
      /\ account' \in {"absent", "active", "suspended"}
  BY DEF IInv, TypeOK, Cool, Expire, ChangeAccount, table
<1>2. Drawn' = Drawn /\ InFlight' = InFlight /\ \A r \in Conns : Locks(r)' <=> Locks(r)
  BY <1>1 DEF Drawn, InFlight, Locks
<1>3. TypeOK'
  BY <1>1, <1>2 DEF IInv, TypeOK
<1>4. Budget' /\ Exclusive' /\ OneSignInPerCode' /\ GuessesAreCounted'
  BY <1>1, <1>2 DEF IInv, Budget, Exclusive, OneSignInPerCode, GuessesAreCounted
<1>5. \A r \in Conns : Current(r)'
  BY <1>1, <1>2 DEF IInv, Current
<1> QED BY <1>3, <1>4, <1>5 DEF IInv

LEMMA StutterOK == IInv /\ UNCHANGED vars => IInv'
<1> SUFFICES ASSUME IInv, UNCHANGED vars PROVE IInv'
  OBVIOUS
<1>1. Drawn' = Drawn /\ InFlight' = InFlight /\ \A r \in Conns : Locks(r)' <=> Locks(r)
  BY DEF vars, Drawn, InFlight, Locks
<1>2. TypeOK' /\ Budget' /\ Exclusive' /\ OneSignInPerCode' /\ GuessesAreCounted'
  BY <1>1 DEF IInv, vars, TypeOK, Budget, Exclusive, OneSignInPerCode, GuessesAreCounted
<1>3. \A r \in Conns : Current(r)'
  BY <1>1 DEF IInv, vars, Current
<1> QED BY <1>2, <1>3 DEF IInv

LEMMA NextOK == IInv /\ [Next]_vars => IInv'
<1> SUFFICES ASSUME IInv, [Next]_vars PROVE IInv'
  OBVIOUS
<1>1. ASSUME NEW r \in Conns, Requesting(r) PROVE IInv'
  BY <1>1, RequestCodeOK, CommitCodeOK, LeaveOK DEF Requesting
<1>2. ASSUME NEW r \in Conns, Verifying(r) PROVE IInv'
  BY <1>2, VerifyCodeOK, MatchCodeOK, CountAttemptOK, FindAccountOK, CommitSignInOK
     DEF Verifying
<1>3. ASSUME NEW r \in Conns, Reply(r) \/ Crash(r) PROVE IInv'
  BY <1>3, LeaveOK
<1> QED BY <1>1, <1>2, <1>3, WorldOK, StutterOK DEF Next

\* The inductive invariant.
THEOREM Invariance == Spec => []IInv
BY InitOK, NextOK, PTL DEF Spec

\* request_otp and verify_otp keep the columns of a challenge in their types,
\* and a verification's row lock is on a row that is there.
THEOREM TypeCorrect == Spec => []TypeOK
<1>1. IInv => TypeOK BY DEF IInv
<1> QED BY <1>1, Invariance, PTL

\* However many verifications of a code race, crash and are rolled back, it
\* has bought one session if it is spent, and none otherwise.
THEOREM OneSignIn == Spec => []OneSignInPerCode
<1>1. IInv => OneSignInPerCode BY DEF IInv
<1> QED BY <1>1, Invariance, PTL

\* Every refusal and every sign-in is an attempt on the challenge's counter,
\* and a challenge that signed somebody in is not over its limit.
THEOREM EveryGuessCounts == Spec => []GuessesAreCounted
<1>1. IInv => GuessesAreCounted BY DEF IInv
<1> QED BY <1>1, Invariance, PTL

\* The step that consumes a challenge.
LEMMA ConsumingStep ==
  ASSUME IInv, [Next]_vars, NEW c \in consumed' \ consumed
  PROVE  \E r \in Conns : /\ req[r].target = c /\ req[r].pc = "commit"
                          /\ \A d \in req[r].seen : born[d] > born[c] => d \in consumed
<1>1. PICK r \in Conns : CountAttempt(r) \/ CommitSignIn(r)
  BY DEF Next, Requesting, RequestCode, CommitCode, Deliver, Verifying, VerifyCode,
     MatchCode,
         FindAccount, Reply, Crash, Cool, Expire, ChangeAccount, vars, table
<1>2. Current(r) /\ Locks(r)
  BY <1>1 DEF IInv, Locks, CountAttempt, CommitSignIn
<1>3. req[r].burned /\ req[r].target = c
  BY <1>1, <1>2 DEF CountAttempt, CommitSignIn, Apply, Current
<1>4. req[r].pc = "commit"
  BY <1>1, <1>2, <1>3 DEF Current, CountAttempt, CommitSignIn
<1> QED BY <1>2, <1>3, <1>4 DEF Current

\* A challenge is consumed by a verification for which every newer one that it
\* could have verified is used up.
THEOREM NewestFirst == Spec => NewestCodeOnly
<1> DEFINE A == \A c \in consumed' \ consumed :
                  \E r \in Conns : /\ req[r].target = c /\ req[r].pc = "commit"
                                   /\ \A d \in req[r].seen : born[d] > born[c] => d \in consumed
<1>1. IInv /\ [Next]_vars => A
  BY ConsumingStep
<1>2. Spec => [][A]_vars
  BY <1>1, Invariance, PTL DEF Spec
<1> QED BY <1>2 DEF NewestCodeOnly

=============================================================================
