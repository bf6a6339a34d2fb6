-------------------------- MODULE EngagementProofs --------------------------
(***************************************************************************)
(* Proofs about Engagement.  Whatever a transaction has found out stays    *)
(* true until it commits, because it holds the row it found it in: the     *)
(* dedupe key of a beacon, the events and the view it has taken over, the  *)
(* mark on the actor, the address of a new account.  Where it holds        *)
(* nothing - an actor being merged, a subject being looked up - either     *)
(* nobody else is at it or the histories `overlapped' and `crossed' say    *)
(* so.  Each commit then turns what the transaction knew into what the     *)
(* tables are promised to say.                                             *)
(***************************************************************************)
EXTENDS Engagement, FiniteSetTheorems, TLAPS

\* Where a sign-in knows its account.
Late == {"actor", "scan", "take", "take_view", "mark", "merged", "issue"}

\* What a request has to say of itself at each of its statements.
Shape(q) ==
  /\ q.pc = "idle" => q = NoRequest
  /\ q.pc \in {"view", "append"} =>
       /\ q.beacon \in Beacon /\ q.actor = q.beacon.actor /\ q.subject = NoSubject
       /\ q.hasView <=> q.pc = "append" /\ IsView(q.beacon)
       /\ q.pc = "view" => IsView(q.beacon)
  /\ q.pc \notin {"idle", "view", "append"} =>
       q.beacon = NoBeacon /\ q.user \in Users /\ q.actor \in Actors
  /\ q.creates => q.pc \in {"attach"} \cup Late
  /\ q.links => q.pc \in Late /\ q.subject # NoSubject
  /\ q.subject = NoSubject => q.pc \notin {"link", "attach"}
  /\ q.found # {} => q.pc \in {"take", "take_view", "mark", "merged"}
  /\ q.took \subseteq q.found /\ q.pending \subseteq q.found /\ q.found \subseteq Of(q.actor)
  /\ q.pc \in {"take_view", "mark", "merged"} => q.pending = {}
  /\ q.foundView => q.pc \in {"take_view", "mark", "merged"}
  /\ q.hasView => q.pc \in {"append", "mark", "merged"}
  /\ q.marks => q.pc = "merged"

\* The tables a request reads.
DB == [users |-> users, minted |-> minted, merged |-> merged, claims |-> claims,
       owner |-> owner, viewer |-> viewer, link |-> link,
       overlapped |-> overlapped, crossed |-> crossed]

\* What it has found in the tables d and relies upon.
Grounds(q, d) ==
  /\ q.pc # "idle" => q.actor \in d.minted
  /\ q.pc \in {"view", "append"} => q.beacon \notin d.claims
  /\ \A b \in q.took : d.owner[b] = NoUser
  /\ \A b \in q.found : d.owner[b] # NoRow
                        /\ (b \in q.pending \cup q.took \/ d.owner[b] \in Users)
  /\ q.foundView => /\ d.viewer[q.actor] # NoRow
                    /\ q.pc = "take_view" \/ q.hasView \/ d.viewer[q.actor] \in Users
  /\ q.hasView /\ q.pc # "append" => d.viewer[q.actor] = NoUser
  /\ q.marks => d.merged[q.actor] = NoUser
  /\ q.links => d.link[q.subject] = NoUser
  /\ q.creates => q.user \notin d.users
  /\ q.pc \in {"attach"} \cup Late => q.creates \/ q.user \in d.users
  /\ Merging(q) /\ q.actor \notin d.overlapped =>
       d.merged[q.actor] = NoUser /\ (q.pc = "merged" => q.marks)
  /\ LookingUp(q) /\ q.subject \notin d.crossed =>
       d.link[q.subject] = IF q.pc \in Late /\ ~q.links THEN q.user ELSE NoUser

\* What two requests never have at once, but for the histories.
Apart(q, p, over, cross) ==
  /\ q.beacon = p.beacon => q.beacon = NoBeacon
  /\ q.took \cap p.took = {}
  /\ q.actor = p.actor => /\ ~(q.hasView /\ p.hasView)
                          /\ ~(q.marks /\ p.marks)
                          /\ Merging(q) /\ Merging(p) => q.actor \in over
  /\ q.user = p.user => ~(q.creates /\ p.creates)
  /\ q.subject = p.subject => ~(q.links /\ p.links)
  /\ q.subject = p.subject /\ LookingUp(q) /\ LookingUp(p) => q.subject \in cross

\* What the tables say of each other.
Beacons ==
  \A b \in Beacon : /\ owner[b] = NoRow <=> b \notin claims
                    /\ owner[b] = NoUser \/ b \notin claims => by[b] = NoUser
                    /\ b \in claims => b.actor \in minted
Histories ==
  \A a \in Actors : /\ merged[a] = NoUser => seen[a].events = {} /\ ~seen[a].view
                    /\ a \notin minted => merged[a] = NoUser
                    /\ \A b \in seen[a].events : owner[b] \in Users
                    /\ seen[a].view => viewer[a] \in Users
Links == \A s \in Subjects : link[s] \in users \cup {NoUser}

IInv ==
  /\ TypeOK /\ EachBeaconCountsOnce /\ MergeIsToldExactly /\ SplitNeedsOverlap
  /\ OneAccountPerSubject
  /\ Beacons /\ Histories /\ Links
  /\ \A r \in Conns : Shape(req[r]) /\ Grounds(req[r], DB)
  /\ \A r, s \in Conns : r # s => Apart(req[r], req[s], overlapped, crossed)

-----------------------------------------------------------------------------
(* Steps of one request that leave the tables alone.                       *)

Tables == <<users, minted, merged, claims, rows, owner, views, viewer, link, sessions,
            told, mergeTold, welcomes, by, seen, logins>>

LEMMA NoRequestIsOne == NoRequest \in Request /\ NoRequest.pc = "idle"
BY DEF NoRequest, Request, UserOrNone

\* A request that does nothing relies on nothing and is in nobody's way.
LEMMA NoRequestIsSound ==
  /\ Shape(NoRequest) /\ \A d : Grounds(NoRequest, d)
  /\ \A p, over, cross : Apart(NoRequest, p, over, cross)
<1>1. Shape(NoRequest)
  BY DEF NoRequest, Shape, Of
<1>2. ASSUME NEW d PROVE Grounds(NoRequest, d)
  BY DEF NoRequest, Grounds, Merging, LookingUp, Late
<1>3. ASSUME NEW p, NEW over, NEW cross PROVE Apart(NoRequest, p, over, cross)
  BY DEF NoRequest, Apart, Merging, LookingUp
<1> QED BY <1>1, <1>2, <1>3

LEMMA ApartIsMutual ==
  ASSUME NEW q, NEW p, NEW over, NEW cross, Apart(q, p, over, cross)
  PROVE  Apart(p, q, over, cross)
BY DEF Apart

\* The histories exempt more, the longer they get.
LEMMA ApartStay ==
  ASSUME NEW q, NEW p, NEW over, NEW cross, NEW over2, NEW cross2,
         Apart(q, p, over, cross), over \subseteq over2, cross \subseteq cross2
  PROVE  Apart(q, p, over2, cross2)
BY DEF Apart

LEMMA GroundsStay ==
  ASSUME NEW q, Grounds(q, DB), UNCHANGED Tables,
         overlapped \subseteq overlapped', crossed \subseteq crossed'
  PROVE  Grounds(q, DB')
BY DEF Tables, DB, Grounds

\* What is known of a request, and of the others as it sees them.
LEMMA RequestFacts ==
  ASSUME IInv, NEW r \in Conns
  PROVE  /\ req[r] \in Request /\ Shape(req[r]) /\ Grounds(req[r], DB)
         /\ \A s \in Conns \ {r} : /\ Apart(req[r], req[s], overlapped, crossed)
                                   /\ req[s] \in Rivals(r)
                                   /\ Shape(req[s]) /\ Grounds(req[s], DB)
BY DEF IInv, TypeOK, Rivals

LEMMA RequestStep ==
  ASSUME IInv, NEW r \in Conns, NEW q \in Request, req' = [req EXCEPT ![r] = q],
         UNCHANGED Tables, overlapped \subseteq overlapped', overlapped' \subseteq Actors,
         crossed \subseteq crossed', crossed' \subseteq Subjects,
         Shape(q), Grounds(q, DB'),
         \A s \in Conns \ {r} : Apart(q, req[s], overlapped', crossed')
  PROVE  IInv'
<1>1. req' \in [Conns -> Request] /\ \A s \in Conns : req'[s] = IF s = r THEN q ELSE req[s]
  BY DEF IInv, TypeOK
<1>2. TypeOK'
  BY <1>1 DEF IInv, TypeOK, Tables
<1>3. EachBeaconCountsOnce' /\ MergeIsToldExactly'
  BY DEF IInv, Tables, EachBeaconCountsOnce, MergeIsToldExactly
<1>4. SplitNeedsOverlap' /\ OneAccountPerSubject'
  BY DEF IInv, Tables, SplitNeedsOverlap, OneAccountPerSubject
<1>5. Beacons' /\ Histories' /\ Links'
  BY DEF IInv, Tables, Beacons, Histories, Links
<1>6. ASSUME NEW s \in Conns PROVE Shape(req'[s]) /\ Grounds(req'[s], DB')
  BY <1>1, GroundsStay DEF IInv
<1>7. ASSUME NEW s \in Conns, NEW t \in Conns, s # t
      PROVE  Apart(req'[s], req'[t], overlapped', crossed')
  <2>1. CASE s = r
    BY <1>1, <1>7, <2>1
  <2>2. CASE t = r
    BY <1>1, <1>7, <2>2, ApartIsMutual
  <2>3. CASE s # r /\ t # r
    BY <1>1, <1>7, <2>3, ApartStay DEF IInv
  <2> QED BY <2>1, <2>2, <2>3
<1> QED BY <1>2, <1>3, <1>4, <1>5, <1>6, <1>7 DEF IInv

\* ... and neither do the histories grow.
LEMMA QuietStep ==
  ASSUME IInv, NEW r \in Conns, NEW q \in Request, req' = [req EXCEPT ![r] = q],
         UNCHANGED <<log, people, merges, overlap>>,
         Shape(q), Grounds(q, DB),
         \A s \in Conns \ {r} : Apart(q, req[s], overlapped, crossed)
  PROVE  IInv'
<1>1. UNCHANGED Tables /\ UNCHANGED <<overlapped, crossed>>
  BY DEF log, people, merges, overlap, Tables
<1>2. overlapped \subseteq Actors /\ crossed \subseteq Subjects
  BY DEF IInv, TypeOK
<1>3. Grounds(q, DB')
  BY <1>1, GroundsStay
<1> QED BY <1>1, <1>2, <1>3, RequestStep

LEMMA FinishStep ==
  ASSUME IInv, NEW r \in Conns, Finish(r), UNCHANGED <<log, people, merges, overlap>>
  PROVE  IInv'
BY NoRequestIsOne, NoRequestIsSound, QuietStep DEF Finish

LEMMA RollBackOK ==
  ASSUME IInv, NEW r \in Conns, RollBack(r)
  PROVE  IInv'
BY FinishStep DEF RollBack

-----------------------------------------------------------------------------
(* Recording.                                                              *)

LEMMA SendOK ==
  ASSUME IInv, NEW r \in Conns, NEW b \in Beacon, NEW u \in UserOrNone, Send(r, b, u)
  PROVE  IInv'
<1> DEFINE at == IF IsView(b) THEN "view" ELSE "append"
           q == [NoRequest EXCEPT !.beacon = b, !.actor = b.actor, !.user = u, !.pc = at]
<1>1. b.actor \in Actors /\ b # NoBeacon
  BY EngagementAssumption DEF Beacon, EngagementAssumption
<1>2. /\ q \in Request /\ q.pc = at /\ q.beacon = b /\ q.actor = b.actor /\ q.user = u
      /\ q.subject = NoSubject /\ q.creates = FALSE /\ q.links = FALSE
      /\ q.found = {} /\ q.pending = {} /\ q.took = {}
      /\ q.foundView = FALSE /\ q.hasView = FALSE /\ q.marks = FALSE
  BY <1>1 DEF NoRequest, Request, UserOrNone
<1>3. /\ req' = [req EXCEPT ![r] = q] /\ UNCHANGED <<log, people, merges, overlap>>
      /\ b \notin claims /\ b.actor \in minted /\ \A s \in Conns \ {r} : req[s].beacon # b
  BY DEF Send, Rivals
<1> HIDE DEF q
<1>4. Shape(q)
  BY <1>2 DEF Shape, Of
<1>5. Grounds(q, DB)
  BY <1>2, <1>3 DEF Grounds, DB, Merging, LookingUp, Late
<1>6. \A s \in Conns \ {r} : Apart(q, req[s], overlapped, crossed)
  BY <1>1, <1>2, <1>3 DEF Apart, Merging, LookingUp
<1> QED BY <1>2, <1>3, <1>4, <1>5, <1>6, QuietStep

LEMMA UpsertViewOK ==
  ASSUME IInv, NEW r \in Conns, UpsertView(r)
  PROVE  IInv'
<1> DEFINE o == req[r]
           q == [o EXCEPT !.pc = "append", !.hasView = TRUE]
<1>1. /\ o \in Request /\ Shape(o) /\ Grounds(o, DB) /\ o.pc = "view"
      /\ \A s \in Conns \ {r} : Apart(o, req[s], overlapped, crossed)
      /\ \A s \in Conns \ {r} : ~(req[s].hasView /\ req[s].actor = o.actor)
  BY RequestFacts DEF UpsertView, ViewIsFree
<1>2. /\ q \in Request /\ q.pc = "append" /\ q.beacon = o.beacon /\ q.actor = o.actor
      /\ q.user = o.user /\ q.subject = o.subject /\ q.creates = o.creates
      /\ q.links = o.links /\ q.found = o.found /\ q.pending = o.pending /\ q.took = o.took
      /\ q.foundView = o.foundView /\ q.hasView = TRUE /\ q.marks = o.marks
  BY <1>1 DEF Request
<1>3. req' = [req EXCEPT ![r] = q] /\ UNCHANGED <<log, people, merges, overlap>>
  BY DEF UpsertView, IInv, TypeOK
<1> HIDE DEF o, q
<1>4. Shape(q)
  BY <1>1, <1>2 DEF Shape, Late
<1>5. Grounds(q, DB)
  BY <1>1, <1>2 DEF Grounds, DB, Merging, LookingUp, Late, Shape
<1>6. \A s \in Conns \ {r} : Apart(q, req[s], overlapped, crossed)
  BY <1>1, <1>2 DEF Apart, Merging, LookingUp
<1> QED BY <1>2, <1>3, <1>4, <1>5, <1>6, QuietStep

-----------------------------------------------------------------------------
(* Finding the account.                                                    *)

LEMMA StartByCodeOK ==
  ASSUME IInv, NEW r \in Conns, NEW u \in Users, NEW a \in Actors, StartByCode(r, u, a)
  PROVE  IInv'
<1> DEFINE q == [NoRequest EXCEPT !.pc = "account", !.actor = a, !.user = u]
<1>1. /\ q \in Request /\ q.pc = "account" /\ q.beacon = NoBeacon /\ q.actor = a
      /\ q.user = u /\ q.subject = NoSubject /\ q.creates = FALSE /\ q.links = FALSE
      /\ q.found = {} /\ q.pending = {} /\ q.took = {} /\ q.foundView = FALSE
      /\ q.hasView = FALSE /\ q.marks = FALSE
  BY DEF NoRequest, Request, UserOrNone
<1>2. req' = [req EXCEPT ![r] = q] /\ UNCHANGED <<log, people, merges, overlap>> /\ a \in minted
  BY DEF StartByCode
<1> HIDE DEF q
<1>3. Shape(q)
  BY <1>1 DEF Shape, Of, Late
<1>4. Grounds(q, DB)
  BY <1>1, <1>2 DEF Grounds, DB, Merging, LookingUp, Late
<1>5. \A s \in Conns \ {r} : Apart(q, req[s], overlapped, crossed)
  BY <1>1 DEF Apart, Merging, LookingUp
<1> QED BY <1>1, <1>2, <1>3, <1>4, <1>5, QuietStep

LEMMA StartByProviderOK ==
  ASSUME IInv, NEW r \in Conns, NEW x \in Subjects, NEW u \in Users, NEW a \in Actors,
         StartByProvider(r, x, u, a)
  PROVE  IInv'
<1> DEFINE q == [NoRequest EXCEPT !.pc = "link", !.actor = a, !.user = u, !.subject = x]
<1>1. /\ q \in Request /\ q.pc = "link" /\ q.beacon = NoBeacon /\ q.actor = a
      /\ q.user = u /\ q.subject = x /\ q.creates = FALSE /\ q.links = FALSE
      /\ q.found = {} /\ q.pending = {} /\ q.took = {} /\ q.foundView = FALSE
      /\ q.hasView = FALSE /\ q.marks = FALSE
  BY DEF NoRequest, Request, UserOrNone
<1>2. req' = [req EXCEPT ![r] = q] /\ UNCHANGED <<log, people, merges, overlap>> /\ a \in minted
  BY DEF StartByProvider
<1> HIDE DEF q
<1>3. Shape(q)
  BY <1>1, EngagementAssumption DEF Shape, Of, Late, EngagementAssumption
<1>4. Grounds(q, DB)
  BY <1>1, <1>2 DEF Grounds, DB, Merging, LookingUp, Late
<1>5. \A s \in Conns \ {r} : Apart(q, req[s], overlapped, crossed)
  BY <1>1 DEF Apart, Merging, LookingUp
<1> QED BY <1>1, <1>2, <1>3, <1>4, <1>5, QuietStep

\* A subject that another sign-in is looking up is in `crossed' from here on.
LEMMA FindLinkStep ==
  ASSUME IInv, NEW r \in Conns, FindLink(r), NEW q \in Request, req' = [req EXCEPT ![r] = q],
         Shape(q), Grounds(q, DB), q.pc \in {"actor", "account"},
         q.actor = req[r].actor, q.subject = req[r].subject, ~q.creates, ~q.links
  PROVE  IInv'
<1>1. /\ req[r] \in Request /\ Shape(req[r]) /\ req[r].pc = "link"
      /\ \A s \in Conns \ {r} : req[s] \in Rivals(r)
      /\ \A s \in Conns \ {r} : Apart(req[r], req[s], overlapped, crossed)
  BY RequestFacts DEF FindLink
<1>2. q.subject \in Subjects
  BY <1>1 DEF Shape, Request
<1>3. /\ UNCHANGED <<log, people, merges, overlapped>>
      /\ crossed' = IF \E p \in Rivals(r) : LookingUp(p) /\ p.subject = q.subject
                    THEN crossed \cup {q.subject} ELSE crossed
  BY DEF FindLink
<1>4. UNCHANGED Tables /\ overlapped' = overlapped
  BY <1>3 DEF log, people, merges, Tables
<1>5. crossed \subseteq crossed' /\ crossed' \subseteq Subjects /\ overlapped \subseteq Actors
  BY <1>2, <1>3 DEF IInv, TypeOK
<1>6. Grounds(q, DB')
  BY <1>4, <1>5, GroundsStay
<1>7. ASSUME NEW s \in Conns \ {r} PROVE Apart(q, req[s], overlapped', crossed')
  <2>1. LookingUp(req[s]) /\ req[s].subject = q.subject => q.subject \in crossed'
    BY <1>1, <1>3
  <2>2. q.beacon = NoBeacon /\ q.took = {} /\ ~q.hasView /\ ~q.marks /\ ~Merging(q)
    BY DEF Shape, Merging
  <2> QED BY <2>1, <2>2 DEF Apart
<1> QED BY <1>4, <1>5, <1>6, <1>7, RequestStep

LEMMA FindLinkOK ==
  ASSUME IInv, NEW r \in Conns, FindLink(r)
  PROVE  IInv'
<1> DEFINE o == req[r]
<1>1. o \in Request /\ Shape(o) /\ Grounds(o, DB) /\ o.pc = "link" /\ o.subject \in Subjects
  BY RequestFacts DEF FindLink, Shape, Request
<1>2. CASE link[o.subject] = NoUser
  <2> DEFINE q == [o EXCEPT !.pc = "account"]
  <2>1. /\ q \in Request /\ q.pc = "account" /\ q.beacon = o.beacon /\ q.actor = o.actor
        /\ q.user = o.user /\ q.subject = o.subject /\ q.creates = o.creates
        /\ q.links = o.links /\ q.found = o.found /\ q.pending = o.pending
        /\ q.took = o.took /\ q.foundView = o.foundView /\ q.hasView = o.hasView
        /\ q.marks = o.marks
    BY <1>1 DEF Request
  <2>2. req' = [req EXCEPT ![r] = q]
    BY <1>2 DEF FindLink
  <2> HIDE DEF q
  <2>3. Shape(q)
    BY <1>1, <2>1 DEF Shape, Late
  <2>4. Grounds(q, DB)
    BY <1>1, <1>2, <2>1 DEF Grounds, DB, Merging, LookingUp, Late, Shape
  <2>5. ~q.creates /\ ~q.links
    BY <1>1, <2>1 DEF Shape, Late
  <2> QED BY <2>1, <2>2, <2>3, <2>4, <2>5, FindLinkStep
<1>3. CASE link[o.subject] # NoUser
  <2> DEFINE u == link[o.subject]
             q == [o EXCEPT !.pc = "actor", !.user = u]
  <2>0. u \in users /\ u \in Users
    BY <1>1, <1>3 DEF IInv, Links, TypeOK
  <2>1. /\ q \in Request /\ q.pc = "actor" /\ q.beacon = o.beacon /\ q.actor = o.actor
        /\ q.user = u /\ q.subject = o.subject /\ q.creates = o.creates
        /\ q.links = o.links /\ q.found = o.found /\ q.pending = o.pending
        /\ q.took = o.took /\ q.foundView = o.foundView /\ q.hasView = o.hasView
        /\ q.marks = o.marks
    BY <1>1, <2>0 DEF Request, UserOrNone
  <2>2. req' = [req EXCEPT ![r] = q]
    BY <1>3 DEF FindLink
  <2> HIDE DEF q
  <2>3. Shape(q)
    BY <1>1, <2>0, <2>1 DEF Shape, Late
  <2>4. Grounds(q, DB)
    BY <1>1, <2>0, <2>1 DEF Grounds, DB, Merging, LookingUp, Late, Shape
  <2>5. ~q.creates /\ ~q.links
    BY <1>1, <2>1 DEF Shape, Late
  <2> QED BY <2>1, <2>2, <2>3, <2>4, <2>5, FindLinkStep
<1> QED BY <1>2, <1>3

LEMMA FindAccountOK ==
  ASSUME IInv, NEW r \in Conns, FindAccount(r)
  PROVE  IInv'
<1> DEFINE o == req[r]
           at == IF o.user \notin users THEN "create"
                 ELSE IF o.subject = NoSubject THEN "actor" ELSE "attach"
           q == [o EXCEPT !.pc = at]
<1>1. /\ o \in Request /\ Shape(o) /\ Grounds(o, DB) /\ o.pc = "account"
      /\ \A s \in Conns \ {r} : Apart(o, req[s], overlapped, crossed)
  BY RequestFacts DEF FindAccount
<1>2. /\ q \in Request /\ q.pc = at /\ q.beacon = o.beacon /\ q.actor = o.actor
      /\ q.user = o.user /\ q.subject = o.subject /\ q.creates = o.creates
      /\ q.links = o.links /\ q.found = o.found /\ q.pending = o.pending
      /\ q.took = o.took /\ q.foundView = o.foundView /\ q.hasView = o.hasView
      /\ q.marks = o.marks
  BY <1>1 DEF Request
<1>3. req' = [req EXCEPT ![r] = q] /\ UNCHANGED <<log, people, merges, overlap>>
  BY DEF FindAccount, IInv, TypeOK
<1> HIDE DEF o, q
<1>4. Shape(q)
  BY <1>1, <1>2 DEF Shape, Late
<1>5. Grounds(q, DB)
  BY <1>1, <1>2 DEF Grounds, DB, Merging, LookingUp, Late, Shape
<1>6. \A s \in Conns \ {r} : Apart(q, req[s], overlapped, crossed)
  BY <1>1, <1>2 DEF Apart, Merging, LookingUp
<1> QED BY <1>2, <1>3, <1>4, <1>5, <1>6, QuietStep

LEMMA TableTypes ==
  ASSUME IInv
  PROVE  /\ NoUser \notin Users /\ NoRow \notin Users /\ NoUser # NoRow
         /\ \A b \in Beacon : owner[b] \in Users \cup {NoUser, NoRow}
         /\ \A a \in Actors : /\ viewer[a] \in Users \cup {NoUser, NoRow}
                            /\ merged[a] \in Users \cup {NoUser}
BY EngagementAssumption DEF IInv, TypeOK, UserOrNone, EngagementAssumption

LEMMA CreateAccountOK ==
  ASSUME IInv, NEW r \in Conns, CreateAccount(r)
  PROVE  IInv'
<1>a. CASE req[r].user \in users
  BY <1>a, FinishStep DEF CreateAccount
<1> SUFFICES ASSUME req[r].user \notin users PROVE IInv'
  BY <1>a
<1> DEFINE o == req[r]
           at == IF o.subject = NoSubject THEN "actor" ELSE "attach"
           q == [o EXCEPT !.creates = TRUE, !.pc = at]
<1>1. /\ o \in Request /\ Shape(o) /\ Grounds(o, DB)
      /\ o.pc = "create" /\ o.user \in Users /\ o.user \notin users
      /\ \A s \in Conns \ {r} : Apart(o, req[s], overlapped, crossed)
      /\ \A s \in Conns \ {r} : ~(req[s].creates /\ req[s].user = o.user)
  BY RequestFacts DEF CreateAccount, Shape
<1>2. /\ q \in Request /\ q.pc = at /\ q.beacon = o.beacon /\ q.actor = o.actor
      /\ q.user = o.user /\ q.subject = o.subject /\ q.creates = TRUE
      /\ q.links = o.links /\ q.found = o.found /\ q.pending = o.pending
      /\ q.took = o.took /\ q.foundView = o.foundView /\ q.hasView = o.hasView
      /\ q.marks = o.marks
  BY <1>1 DEF Request
<1>3. req' = [req EXCEPT ![r] = q] /\ UNCHANGED <<log, people, merges, overlap>>
  BY DEF CreateAccount, Shape, IInv, TypeOK
<1> HIDE DEF o, q
<1>4. Shape(q)
  BY <1>1, <1>2 DEF Shape, Late
<1>5. Grounds(q, DB)
  BY <1>1, <1>2 DEF Grounds, DB, Merging, LookingUp, Late, Shape
<1>6. \A s \in Conns \ {r} : Apart(q, req[s], overlapped, crossed)
  BY <1>1, <1>2 DEF Apart, Merging, LookingUp
<1> QED BY <1>2, <1>3, <1>4, <1>5, <1>6, QuietStep

LEMMA LinkSubjectOK ==
  ASSUME IInv, NEW r \in Conns, LinkSubject(r)
  PROVE  IInv'
<1> DEFINE o == req[r]
           fresh == link[o.subject] = NoUser
           q == [o EXCEPT !.pc = "actor", !.links = fresh]
<1>1. /\ o \in Request /\ Shape(o) /\ Grounds(o, DB) /\ o.pc = "attach"
      /\ \A s \in Conns \ {r} : Apart(o, req[s], overlapped, crossed)
      /\ \A s \in Conns \ {r} : ~(req[s].links /\ req[s].subject = o.subject)
  BY RequestFacts DEF LinkSubject
<1>2. /\ q \in Request /\ q.pc = "actor" /\ q.beacon = o.beacon /\ q.actor = o.actor
      /\ q.user = o.user /\ q.subject = o.subject /\ q.creates = o.creates
      /\ q.links = fresh /\ q.found = o.found /\ q.pending = o.pending
      /\ q.took = o.took /\ q.foundView = o.foundView /\ q.hasView = o.hasView
      /\ q.marks = o.marks
  BY <1>1 DEF Request
<1>3. req' = [req EXCEPT ![r] = q] /\ UNCHANGED <<log, people, merges, overlap>>
  BY DEF LinkSubject, IInv, TypeOK
<1> HIDE DEF o, q
<1>4. Shape(q)
  BY <1>1, <1>2 DEF Shape, Late
<1>5. Grounds(q, DB)
  BY <1>1, <1>2 DEF Grounds, DB, Merging, LookingUp, Late, Shape
<1>6. \A s \in Conns \ {r} : Apart(q, req[s], overlapped, crossed)
  BY <1>1, <1>2 DEF Apart, Merging, LookingUp
<1> QED BY <1>2, <1>3, <1>4, <1>5, <1>6, QuietStep

-----------------------------------------------------------------------------
(* Merging.                                                                *)

LEMMA ScanEventsOK ==
  ASSUME IInv, NEW r \in Conns, ScanEvents(r)
  PROVE  IInv'
<1> DEFINE o == req[r]
           unowned == {b \in Of(o.actor) : owner[b] = NoUser}
           q == [o EXCEPT !.pc = "take", !.found = unowned, !.pending = unowned]
<1>1. /\ o \in Request /\ Shape(o) /\ Grounds(o, DB) /\ o.pc = "scan" /\ o.actor \in Actors
      /\ \A s \in Conns \ {r} : Apart(o, req[s], overlapped, crossed)
  BY RequestFacts DEF ScanEvents, Shape
<1>u. unowned \in SUBSET Beacon
  BY DEF Of
<1>2. /\ q \in Request /\ q.pc = "take" /\ q.beacon = o.beacon /\ q.actor = o.actor
      /\ q.user = o.user /\ q.subject = o.subject /\ q.creates = o.creates
      /\ q.links = o.links /\ q.found = unowned /\ q.pending = unowned
      /\ q.took = o.took /\ q.foundView = o.foundView /\ q.hasView = o.hasView
      /\ q.marks = o.marks
  BY <1>1, <1>u DEF Request
<1>3. req' = [req EXCEPT ![r] = q] /\ UNCHANGED <<log, people, merges, overlap>>
  BY DEF ScanEvents, Shape, IInv, TypeOK
<1> HIDE DEF o, q
<1>4. Shape(q)
  BY <1>1, <1>2 DEF Shape, Late
<1>5. Grounds(q, DB)
  BY <1>1, <1>2, TableTypes DEF Grounds, DB, Merging, LookingUp, Late, Shape
<1>6. \A s \in Conns \ {r} : Apart(q, req[s], overlapped, crossed)
  BY <1>1, <1>2 DEF Apart, Merging, LookingUp
<1> QED BY <1>2, <1>3, <1>4, <1>5, <1>6, QuietStep

LEMMA TakeEventOK ==
  ASSUME IInv, NEW r \in Conns, NEW b \in Beacon, TakeEvent(r, b)
  PROVE  IInv'
<1> DEFINE o == req[r]
           mine == IF owner[b] = NoUser THEN o.took \cup {b} ELSE o.took
           q == [o EXCEPT !.pending = @ \ {b}, !.took = mine]
<1>1. /\ o \in Request /\ Shape(o) /\ Grounds(o, DB) /\ o.pc = "take" /\ b \in o.pending
      /\ \A s \in Conns \ {r} : Apart(o, req[s], overlapped, crossed)
      /\ \A s \in Conns \ {r} : b \notin req[s].took
  BY RequestFacts DEF TakeEvent
<1>2. /\ q \in Request /\ q.pc = o.pc /\ q.beacon = o.beacon /\ q.actor = o.actor
      /\ q.user = o.user /\ q.subject = o.subject /\ q.creates = o.creates
      /\ q.links = o.links /\ q.found = o.found /\ q.pending = o.pending \ {b}
      /\ q.took = mine /\ q.foundView = o.foundView /\ q.hasView = o.hasView
      /\ q.marks = o.marks
  BY <1>1 DEF Request
<1>3. req' = [req EXCEPT ![r] = q] /\ UNCHANGED <<log, people, merges, overlap>>
  BY DEF TakeEvent, IInv, TypeOK
<1> HIDE DEF o, q
<1>4. Shape(q)
  BY <1>1, <1>2 DEF Shape, Late
<1>5. Grounds(q, DB)
  BY <1>1, <1>2, TableTypes DEF Grounds, DB, Merging, LookingUp, Late, Shape
<1>6. \A s \in Conns \ {r} : Apart(q, req[s], overlapped, crossed)
  BY <1>1, <1>2 DEF Apart, Merging, LookingUp
<1> QED BY <1>2, <1>3, <1>4, <1>5, <1>6, QuietStep

LEMMA ScanViewOK ==
  ASSUME IInv, NEW r \in Conns, ScanView(r)
  PROVE  IInv'
<1> DEFINE o == req[r]
           free == viewer[o.actor] = NoUser
           at == IF free THEN "take_view" ELSE "mark"
           q == [o EXCEPT !.pc = at, !.foundView = free]
<1>1. /\ o \in Request /\ Shape(o) /\ Grounds(o, DB) /\ o.pc = "take" /\ o.pending = {}
      /\ \A s \in Conns \ {r} : Apart(o, req[s], overlapped, crossed)
  BY RequestFacts DEF ScanView
<1>2. /\ q \in Request /\ q.pc = at /\ q.beacon = o.beacon /\ q.actor = o.actor
      /\ q.user = o.user /\ q.subject = o.subject /\ q.creates = o.creates
      /\ q.links = o.links /\ q.found = o.found /\ q.pending = o.pending
      /\ q.took = o.took /\ q.foundView = free /\ q.hasView = o.hasView
      /\ q.marks = o.marks
  BY <1>1 DEF Request
<1>3. req' = [req EXCEPT ![r] = q] /\ UNCHANGED <<log, people, merges, overlap>>
  BY DEF ScanView, IInv, TypeOK
<1> HIDE DEF o, q
<1>4. Shape(q)
  BY <1>1, <1>2 DEF Shape, Late
<1>5. Grounds(q, DB)
  <2>1. o.actor \in Actors
    BY <1>1 DEF Shape
  <2>2. CASE free
    BY <1>1, <1>2, <2>1, <2>2, TableTypes DEF Grounds, DB, Merging, LookingUp, Late, Shape
  <2>3. CASE ~free
    BY <1>1, <1>2, <2>1, <2>3, TableTypes DEF Grounds, DB, Merging, LookingUp, Late, Shape
  <2> QED BY <2>2, <2>3
<1>6. \A s \in Conns \ {r} : Apart(q, req[s], overlapped, crossed)
  BY <1>1, <1>2 DEF Apart, Merging, LookingUp
<1> QED BY <1>2, <1>3, <1>4, <1>5, <1>6, QuietStep

LEMMA TakeViewOK ==
  ASSUME IInv, NEW r \in Conns, TakeView(r)
  PROVE  IInv'
<1> DEFINE o == req[r]
           free == viewer[o.actor] = NoUser
           q == [o EXCEPT !.pc = "mark", !.hasView = free]
<1>1. /\ o \in Request /\ Shape(o) /\ Grounds(o, DB) /\ o.pc = "take_view"
      /\ \A s \in Conns \ {r} : Apart(o, req[s], overlapped, crossed)
      /\ \A s \in Conns \ {r} : ~(req[s].hasView /\ req[s].actor = o.actor)
  BY RequestFacts DEF TakeView, ViewIsFree
<1>2. /\ q \in Request /\ q.pc = "mark" /\ q.beacon = o.beacon /\ q.actor = o.actor
      /\ q.user = o.user /\ q.subject = o.subject /\ q.creates = o.creates
      /\ q.links = o.links /\ q.found = o.found /\ q.pending = o.pending
      /\ q.took = o.took /\ q.foundView = o.foundView /\ q.hasView = free
      /\ q.marks = o.marks
  BY <1>1 DEF Request
<1>3. req' = [req EXCEPT ![r] = q] /\ UNCHANGED <<log, people, merges, overlap>>
  BY DEF TakeView, ViewIsFree, IInv, TypeOK
<1> HIDE DEF o, q
<1>4. Shape(q)
  BY <1>1, <1>2 DEF Shape, Late
<1>5. Grounds(q, DB)
  BY <1>1, <1>2, TableTypes DEF Grounds, DB, Merging, LookingUp, Late, Shape
<1>6. \A s \in Conns \ {r} : Apart(q, req[s], overlapped, crossed)
  BY <1>1, <1>2 DEF Apart, Merging, LookingUp
<1> QED BY <1>2, <1>3, <1>4, <1>5, <1>6, QuietStep

LEMMA MarkMergedOK ==
  ASSUME IInv, NEW r \in Conns, MarkMerged(r)
  PROVE  IInv'
<1> DEFINE o == req[r]
           free == merged[o.actor] = NoUser
           q == [o EXCEPT !.pc = "merged", !.marks = free]
<1>1. /\ o \in Request /\ Shape(o) /\ Grounds(o, DB) /\ o.pc = "mark"
      /\ \A s \in Conns \ {r} : Apart(o, req[s], overlapped, crossed)
      /\ \A s \in Conns \ {r} : ~(req[s].marks /\ req[s].actor = o.actor)
  BY RequestFacts DEF MarkMerged
<1>2. /\ q \in Request /\ q.pc = "merged" /\ q.beacon = o.beacon /\ q.actor = o.actor
      /\ q.user = o.user /\ q.subject = o.subject /\ q.creates = o.creates
      /\ q.links = o.links /\ q.found = o.found /\ q.pending = o.pending
      /\ q.took = o.took /\ q.foundView = o.foundView /\ q.hasView = o.hasView
      /\ q.marks = free
  BY <1>1 DEF Request
<1>3. req' = [req EXCEPT ![r] = q] /\ UNCHANGED <<log, people, merges, overlap>>
  BY DEF MarkMerged, IInv, TypeOK
<1> HIDE DEF o, q
<1>4. Shape(q)
  BY <1>1, <1>2 DEF Shape, Late
<1>5. Grounds(q, DB)
  BY <1>1, <1>2, TableTypes DEF Grounds, DB, Merging, LookingUp, Late, Shape
<1>6. \A s \in Conns \ {r} : Apart(q, req[s], overlapped, crossed)
  BY <1>1, <1>2 DEF Apart, Merging, LookingUp
<1> QED BY <1>2, <1>3, <1>4, <1>5, <1>6, QuietStep

\* An actor that another sign-in is merging is in `overlapped' from here on.
LEMMA ReadActorStep ==
  ASSUME IInv, NEW r \in Conns, ReadActor(r), NEW q \in Request, req' = [req EXCEPT ![r] = q],
         Shape(q), Grounds(q, DB), q.pc \in {"scan", "issue"}, q.beacon = req[r].beacon,
         q.actor = req[r].actor, q.user = req[r].user, q.subject = req[r].subject,
         q.creates = req[r].creates, q.links = req[r].links,
         q.pc = "scan" => merged[q.actor] = NoUser
  PROVE  IInv'
<1>1. /\ req[r] \in Request /\ Shape(req[r]) /\ req[r].pc = "actor" /\ q.actor \in Actors
      /\ \A s \in Conns \ {r} : req[s] \in Rivals(r)
      /\ \A s \in Conns \ {r} : Apart(req[r], req[s], overlapped, crossed)
  BY RequestFacts DEF ReadActor, Shape
<1>2. /\ UNCHANGED <<log, people, merges, crossed>>
      /\ overlapped' = IF /\ merged[q.actor] = NoUser
                          /\ \E p \in Rivals(r) : Merging(p) /\ p.actor = q.actor
                       THEN overlapped \cup {q.actor} ELSE overlapped
  BY DEF ReadActor
<1>3. UNCHANGED Tables /\ crossed' = crossed
  BY <1>2 DEF log, people, merges, Tables
<1>4. overlapped \subseteq overlapped' /\ overlapped' \subseteq Actors /\ crossed \subseteq Subjects
  BY <1>1, <1>2 DEF IInv, TypeOK
<1>5. Grounds(q, DB')
  BY <1>3, <1>4, GroundsStay
<1>6. ASSUME NEW s \in Conns \ {r} PROVE Apart(q, req[s], overlapped', crossed')
  <2>1. Merging(req[s]) /\ req[s].actor = q.actor /\ Merging(q) => q.actor \in overlapped'
    BY <1>1, <1>2 DEF Merging
  <2>2. Apart(req[r], req[s], overlapped, crossed) /\ crossed' = crossed
    BY <1>1, <1>3
  <2>3. q.beacon = NoBeacon /\ q.took = {} /\ ~q.hasView /\ ~q.marks
    BY DEF Shape
  <2>4. q.subject = req[s].subject /\ LookingUp(q) /\ LookingUp(req[s]) => q.subject \in crossed
    BY <1>1, <2>2 DEF Apart, LookingUp
  <2>5. /\ q.user = req[s].user => ~(q.creates /\ req[s].creates)
        /\ q.subject = req[s].subject => ~(q.links /\ req[s].links)
    BY <2>2 DEF Apart
  <2> QED BY <2>1, <2>2, <2>3, <2>4, <2>5 DEF Apart
<1> QED BY <1>3, <1>4, <1>5, <1>6, RequestStep

LEMMA ReadActorOK ==
  ASSUME IInv, NEW r \in Conns, ReadActor(r)
  PROVE  IInv'
<1> DEFINE o == req[r]
           at == IF merged[o.actor] # NoUser THEN "issue" ELSE "scan"
           q == [o EXCEPT !.pc = at]
<1>1. o \in Request /\ Shape(o) /\ Grounds(o, DB) /\ o.pc = "actor"
  BY RequestFacts DEF ReadActor
<1>2. /\ q \in Request /\ q.pc = at /\ q.beacon = o.beacon /\ q.actor = o.actor
      /\ q.user = o.user /\ q.subject = o.subject /\ q.creates = o.creates
      /\ q.links = o.links /\ q.found = o.found /\ q.pending = o.pending
      /\ q.took = o.took /\ q.foundView = o.foundView /\ q.hasView = o.hasView
      /\ q.marks = o.marks
  BY <1>1 DEF Request
<1>3. req' = [req EXCEPT ![r] = q]
  BY DEF ReadActor, IInv, TypeOK
<1> HIDE DEF q
<1>4. Shape(q)
  BY <1>1, <1>2 DEF Shape, Late
<1>5. Grounds(q, DB)
  BY <1>1, <1>2 DEF Grounds, DB, Merging, LookingUp, Late, Shape
<1> QED BY <1>2, <1>3, <1>4, <1>5, ReadActorStep

-----------------------------------------------------------------------------
(* The commit of a beacon.                                                 *)

\* A beacon that is in no table gets its rows.
LEMMA RecordFacts ==
  ASSUME IInv, NEW r \in Conns, NEW q, q = req[r], CommitRecord(r)
  PROVE  /\ q \in Request /\ Shape(q) /\ Grounds(q, DB) /\ q.pc = "append"
         /\ q.beacon \in Beacon \ claims /\ q.actor = q.beacon.actor /\ q.actor \in minted
         /\ q.user \in UserOrNone /\ (q.hasView <=> IsView(q.beacon))
         /\ owner[q.beacon] = NoRow /\ by[q.beacon] = NoUser
         /\ rows[q.beacon] = 0 /\ told[q.beacon] = 0
         /\ \A b \in Beacon : owner'[b] = IF b = q.beacon THEN q.user ELSE owner[b]
         /\ \A b \in Beacon : by'[b] = IF b = q.beacon THEN q.user ELSE by[b]
         /\ \A b \in Beacon : rows'[b] = IF b = q.beacon THEN 1 ELSE rows[b]
         /\ \A b \in Beacon : told'[b] = IF b = q.beacon /\ Tells(q) THEN 1 ELSE told[b]
         /\ \A a \in Actors : views'[a] = IF a = q.actor /\ q.hasView THEN views[a] + 1
                                          ELSE views[a]
         /\ \A a \in Actors : viewer'[a] = IF a = q.actor /\ q.hasView
                                           THEN NewViewer(viewer[a], q.user) ELSE viewer[a]
         /\ claims' = claims \cup {q.beacon}
         /\ UNCHANGED <<people, merges, overlap>>
         /\ \A s \in Conns : req'[s] = IF s = r THEN NoRequest ELSE req[s]
<1>1. q \in Request /\ Shape(q) /\ Grounds(q, DB) /\ q.pc = "append"
  BY RequestFacts DEF CommitRecord
<1>2. /\ q.beacon \in Beacon \ claims /\ q.actor = q.beacon.actor /\ q.actor \in minted
      /\ q.user \in UserOrNone /\ (q.hasView <=> IsView(q.beacon))
  BY <1>1 DEF Shape, Grounds, DB, Request
<1>3. owner[q.beacon] = NoRow /\ by[q.beacon] = NoUser
  BY <1>2 DEF IInv, Beacons
<1>4. rows[q.beacon] = 0 /\ told[q.beacon] = 0
  BY <1>2, <1>3 DEF IInv, EachBeaconCountsOnce
<1>5. /\ \A b \in Beacon : owner'[b] = IF b = q.beacon THEN q.user ELSE owner[b]
      /\ \A b \in Beacon : by'[b] = IF b = q.beacon THEN q.user ELSE by[b]
      /\ \A b \in Beacon : rows'[b] = IF b = q.beacon THEN 1 ELSE rows[b]
  BY <1>2, <1>4 DEF CommitRecord, IInv, TypeOK
<1>6. \A b \in Beacon : told'[b] = IF b = q.beacon /\ Tells(q) THEN 1 ELSE told[b]
  BY <1>2, <1>4 DEF CommitRecord, IInv, TypeOK
<1>7. /\ \A a \in Actors : views'[a] = IF a = q.actor /\ q.hasView THEN views[a] + 1 ELSE views[a]
      /\ \A a \in Actors : viewer'[a] = IF a = q.actor /\ q.hasView
                                        THEN NewViewer(viewer[a], q.user) ELSE viewer[a]
  BY <1>2 DEF CommitRecord, IInv, TypeOK
<1>8. claims' = claims \cup {q.beacon} /\ UNCHANGED <<people, merges, overlap>>
  BY DEF CommitRecord
<1>9. \A s \in Conns : req'[s] = IF s = r THEN NoRequest ELSE req[s]
  BY DEF CommitRecord, Finish, IInv, TypeOK
<1> QED BY <1>1, <1>2, <1>3, <1>4, <1>5, <1>6, <1>7, <1>8, <1>9

LEMMA RecordTypes ==
  ASSUME IInv, NEW r \in Conns, CommitRecord(r)
  PROVE  TypeOK'
<1> DEFINE q == req[r]
<1>1. /\ q.beacon \in Beacon /\ q.user \in UserOrNone /\ q.actor \in Actors
      /\ UNCHANGED <<people, merges, overlap>>
      /\ \A b \in Beacon : rows[b] + 1 \in Nat /\ told[b] + 1 \in Nat
      /\ \A a \in Actors : views[a] + 1 \in Nat
  BY RecordFacts DEF IInv, TypeOK
<1>2. \A a \in Actors : NewViewer(viewer[a], q.user) \in UserOrNone \cup {NoRow}
  BY <1>1 DEF NewViewer, IInv, TypeOK, UserOrNone
<1>3. claims' \subseteq Beacon /\ req' \in [Conns -> Request]
  BY <1>1, NoRequestIsOne DEF CommitRecord, Finish, IInv, TypeOK
<1>4. /\ rows' \in [Beacon -> Nat] /\ told' \in [Beacon -> Nat] /\ views' \in [Actors -> Nat]
      /\ by' \in [Beacon -> UserOrNone] /\ owner' \in [Beacon -> UserOrNone \cup {NoRow}]
  BY <1>1 DEF CommitRecord, IInv, TypeOK
<1>5. viewer' \in [Actors -> UserOrNone \cup {NoRow}]
  BY <1>1, <1>2 DEF CommitRecord, IInv, TypeOK
<1>6. UNCHANGED <<users, minted, merged, link, sessions, mergeTold, welcomes, seen,
                  overlapped, logins, crossed>>
  BY <1>1 DEF people, merges, overlap
<1> QED BY <1>3, <1>4, <1>5, <1>6 DEF IInv, TypeOK

\* One row and, for a click or a completion, one view.
LEMMA RecordCounts ==
  ASSUME IInv, NEW r \in Conns, NEW q, q = req[r], CommitRecord(r)
  PROVE  EachBeaconCountsOnce'
<1>1. /\ q.beacon \in Beacon \ claims /\ q.actor = q.beacon.actor
      /\ q.user \in UserOrNone /\ (q.hasView <=> IsView(q.beacon))
      /\ owner[q.beacon] = NoRow /\ by[q.beacon] = NoUser
      /\ \A b \in Beacon : by'[b] = IF b = q.beacon THEN q.user ELSE by[b]
      /\ \A b \in Beacon : rows'[b] = IF b = q.beacon THEN 1 ELSE rows[b]
      /\ \A b \in Beacon : told'[b] = IF b = q.beacon /\ Tells(q) THEN 1 ELSE told[b]
      /\ \A a \in Actors : views'[a] = IF a = q.actor /\ q.hasView THEN views[a] + 1
                                       ELSE views[a]
      /\ \A a \in Actors : viewer'[a] = IF a = q.actor /\ q.hasView
                                        THEN NewViewer(viewer[a], q.user) ELSE viewer[a]
      /\ claims' = claims \cup {q.beacon}
  BY RecordFacts
<1>2. ASSUME NEW b \in Beacon PROVE rows'[b] = IF b \in claims' THEN 1 ELSE 0
  BY <1>1 DEF IInv, EachBeaconCountsOnce
<1>3. ASSUME NEW b \in Beacon PROVE told'[b] = IF IsTold(b) /\ by'[b] # NoUser THEN 1 ELSE 0
  <2>1. told[b] = IF IsTold(b) /\ by[b] # NoUser THEN 1 ELSE 0
    BY DEF IInv, EachBeaconCountsOnce
  <2> QED BY <1>1, <2>1 DEF Tells
<1>4. ASSUME NEW a \in Actors
      PROVE  /\ views'[a] = Cardinality({b \in claims' : b.actor = a /\ IsView(b)})
             /\ viewer'[a] = NoRow <=> views'[a] = 0
  <2> DEFINE V == {b \in claims : b.actor = a /\ IsView(b)}
             W == {b \in claims' : b.actor = a /\ IsView(b)}
  <2>1. views[a] = Cardinality(V) /\ (viewer[a] = NoRow <=> views[a] = 0) /\ views[a] \in Nat
    BY DEF IInv, EachBeaconCountsOnce, TypeOK
  <2>2. IsFiniteSet(V) /\ q.beacon \notin V
    <3>1. V \in SUBSET Beacon
      BY DEF IInv, TypeOK
    <3> QED BY <1>1, <3>1, EngagementAssumption, FS_Subset DEF EngagementAssumption
  <2>3. CASE a = q.actor /\ q.hasView
    <3>1. W = V \cup {q.beacon}
      BY <1>1, <2>3
    <3>2. Cardinality(V \cup {q.beacon}) = Cardinality(V) + 1
      BY <2>2, FS_AddElement
    <3>3. views'[a] = views[a] + 1 /\ viewer'[a] = NewViewer(viewer[a], q.user)
      BY <1>1, <2>3
    <3>4. viewer'[a] # NoRow
      <4>1. q.user # NoRow /\ NoUser # NoRow
        BY <1>1, EngagementAssumption DEF EngagementAssumption, UserOrNone
      <4> QED BY <3>3, <4>1 DEF NewViewer
    <3>5. views'[a] = Cardinality(W)
      BY <2>1, <3>1, <3>2, <3>3
    <3>6. views'[a] # 0
      BY <2>1, <3>3
    <3> QED BY <3>4, <3>5, <3>6
  <2>4. CASE ~(a = q.actor /\ q.hasView)
    <3>1. W = V
      BY <1>1, <2>4
    <3>2. views'[a] = views[a] /\ viewer'[a] = viewer[a]
      BY <1>1, <2>4
    <3> QED BY <2>1, <3>1, <3>2
  <2> QED BY <2>3, <2>4
<1> QED BY <1>2, <1>3, <1>4 DEF EachBeaconCountsOnce

\* Nobody took what was not there, and what a user records is theirs at once.
LEMMA RecordHistory ==
  ASSUME IInv, NEW r \in Conns, NEW q, q = req[r], CommitRecord(r)
  PROVE  /\ MergeIsToldExactly' /\ SplitNeedsOverlap' /\ OneAccountPerSubject'
         /\ Beacons' /\ Histories' /\ Links'
<1>1. /\ q.beacon \in Beacon \ claims /\ q.actor = q.beacon.actor /\ q.actor \in minted
      /\ q.user \in UserOrNone
      /\ owner[q.beacon] = NoRow /\ by[q.beacon] = NoUser
      /\ \A b \in Beacon : owner'[b] = IF b = q.beacon THEN q.user ELSE owner[b]
      /\ \A b \in Beacon : by'[b] = IF b = q.beacon THEN q.user ELSE by[b]
      /\ \A a \in Actors : viewer'[a] = IF a = q.actor /\ q.hasView
                                        THEN NewViewer(viewer[a], q.user) ELSE viewer[a]
      /\ claims' = claims \cup {q.beacon}
      /\ UNCHANGED <<people, merges, overlap>>
  BY RecordFacts
<1>2. UNCHANGED <<users, minted, merged, link, mergeTold, welcomes, seen,
                  overlapped, logins, crossed>>
  BY <1>1 DEF people, merges, overlap
<1>3. NoUser \notin Users /\ NoRow \notin Users /\ NoUser # NoRow
  BY TableTypes
<1>4. \A a \in Actors : viewer[a] \in Users => viewer'[a] \in Users
  BY <1>1, <1>3 DEF NewViewer, UserOrNone
<1>5. Histories'
  <2> SUFFICES ASSUME NEW a \in Actors
               PROVE  /\ merged[a] = NoUser => seen[a].events = {} /\ ~seen[a].view
                      /\ a \notin minted => merged[a] = NoUser
                      /\ \A b \in seen[a].events : owner'[b] \in Users
                      /\ seen[a].view => viewer'[a] \in Users
    BY <1>2 DEF Histories
  <2>1. seen[a].events \subseteq Beacon
    BY DEF IInv, TypeOK
  <2>2. \A b \in seen[a].events : owner'[b] \in Users
    BY <1>1, <1>3, <2>1 DEF IInv, Histories
  <2> QED BY <1>4, <2>2 DEF IInv, Histories
<1>6. Beacons'
  BY <1>1, <1>2, <1>3 DEF IInv, Beacons, UserOrNone
<1>7. Links' /\ OneAccountPerSubject'
  BY <1>2 DEF IInv, Links, OneAccountPerSubject
<1>8. SplitNeedsOverlap'
  BY <1>1, <1>2, <1>3 DEF IInv, SplitNeedsOverlap
<1>9. MergeIsToldExactly'
  <2>1. ASSUME NEW a \in Actors, NEW u \in Users
        PROVE  {b \in Of(a) : by'[b] = NoUser /\ owner'[b] = u}
                 = {b \in Of(a) : by[b] = NoUser /\ owner[b] = u}
    BY <1>1, <1>3 DEF Of
  <2>2. ASSUME NEW a \in Actors, NEW u \in Users
        PROVE  mergeTold'[<<a, u>>] = Cardinality({b \in Of(a) : by'[b] = NoUser /\ owner'[b] = u})
    BY <1>2, <2>1 DEF IInv, MergeIsToldExactly
  <2>3. ASSUME NEW a \in Actors, merged'[a] # NoUser
        PROVE  /\ \A b \in seen'[a].events : owner'[b] # NoUser
               /\ seen'[a].view => viewer'[a] # NoUser
    BY <1>3, <1>5 DEF Histories
  <2> QED BY <2>2, <2>3 DEF MergeIsToldExactly
<1> QED BY <1>5, <1>6, <1>7, <1>8, <1>9

\* The other requests hold other beacons, and a view they hold is another one.
LEMMA RecordOthers ==
  ASSUME IInv, NEW r \in Conns, NEW q, q = req[r], CommitRecord(r),
         NEW s \in Conns, s # r, NEW p, p = req[s]
  PROVE  Grounds(p, DB')
<1>1. /\ q.beacon \in Beacon \ claims /\ owner[q.beacon] = NoRow
      /\ q.user \in UserOrNone
      /\ \A b \in Beacon : owner'[b] = IF b = q.beacon THEN q.user ELSE owner[b]
      /\ \A a \in Actors : viewer'[a] = IF a = q.actor /\ q.hasView
                                        THEN NewViewer(viewer[a], q.user) ELSE viewer[a]
      /\ claims' = claims \cup {q.beacon}
      /\ UNCHANGED <<people, merges, overlap>>
  BY RecordFacts
<1>2. UNCHANGED <<users, minted, merged, link, overlapped, crossed>>
  BY <1>1 DEF people, merges, overlap
<1>3. p \in Request /\ Shape(p) /\ Grounds(p, DB) /\ Apart(q, p, overlapped, crossed)
  BY RequestFacts
<1>4. NoUser \notin Users /\ NoRow \notin Users /\ NoUser # NoRow
      /\ \A a \in Actors : viewer[a] \in Users \cup {NoUser, NoRow}
  BY TableTypes
<1>5. \A b \in p.found : b \in Beacon /\ b # q.beacon /\ owner'[b] = owner[b]
  BY <1>1, <1>3 DEF Grounds, DB, Request
<1>6. \A b \in p.took : owner'[b] = owner[b]
  BY <1>3, <1>5 DEF Shape
<1>7. p.pc \in {"view", "append"} => p.beacon \notin claims'
  BY <1>1, <1>3, EngagementAssumption DEF Grounds, DB, Apart, EngagementAssumption
<1>8. ASSUME p.foundView \/ p.hasView
      PROVE  /\ p.actor \in Actors
             /\ p.hasView => viewer'[p.actor] = viewer[p.actor]
             /\ viewer[p.actor] # NoRow => viewer'[p.actor] # NoRow
             /\ viewer[p.actor] \in Users => viewer'[p.actor] \in Users
  <2>1. p.actor \in Actors
    BY <1>3, <1>8 DEF Shape, Beacon
  <2>2. p.hasView /\ p.actor = q.actor => ~q.hasView
    BY <1>3 DEF Apart
  <2> QED BY <1>1, <1>4, <2>1, <2>2 DEF NewViewer, UserOrNone
<1> QED BY <1>2, <1>3, <1>5, <1>6, <1>7, <1>8 DEF Grounds, DB

LEMMA CommitRecordOK ==
  ASSUME IInv, NEW r \in Conns, CommitRecord(r)
  PROVE  IInv'
<1>1. /\ \A s \in Conns : req'[s] = IF s = r THEN NoRequest ELSE req[s]
      /\ overlapped' = overlapped /\ crossed' = crossed
  BY RecordFacts DEF overlap
<1>2. ASSUME NEW s \in Conns PROVE Shape(req'[s]) /\ Grounds(req'[s], DB')
  BY <1>1, NoRequestIsSound, RecordOthers, RequestFacts
<1>3. ASSUME NEW s \in Conns, NEW t \in Conns, s # t
      PROVE  Apart(req'[s], req'[t], overlapped', crossed')
  BY <1>1, <1>3, NoRequestIsSound, ApartIsMutual, RequestFacts
<1> QED BY <1>2, <1>3, RecordTypes, RecordCounts, RecordHistory DEF IInv

-----------------------------------------------------------------------------
(* The commit of a sign-in.                                                *)

LEMMA SignInFacts ==
  ASSUME IInv, NEW r \in Conns, NEW q, q = req[r], CommitSignIn(r)
  PROVE  /\ q \in Request /\ Shape(q) /\ Grounds(q, DB) /\ q.pc \in {"merged", "issue"}
         /\ q.user \in Users /\ q.actor \in minted /\ q.actor \in Actors
         /\ q.took \subseteq Of(q.actor) /\ \A b \in q.took : owner[b] = NoUser
         /\ \A b \in Beacon : owner'[b] = IF b \in q.took THEN q.user ELSE owner[b]
         /\ \A a \in Actors : viewer'[a] = IF a = q.actor /\ q.hasView THEN q.user
                                           ELSE viewer[a]
         /\ \A a \in Actors : merged'[a] = IF a = q.actor /\ q.marks THEN q.user
                                           ELSE merged[a]
         /\ users' = (IF q.creates THEN users \cup {q.user} ELSE users) /\ q.user \in users'
         /\ \A x \in Subjects : link'[x] = IF x = q.subject /\ q.links THEN q.user ELSE link[x]
         /\ UNCHANGED <<minted, claims, rows, views, told, by, overlapped, crossed>>
         /\ \A s \in Conns : req'[s] = IF s = r THEN NoRequest ELSE req[s]
<1>1. q \in Request /\ Shape(q) /\ Grounds(q, DB) /\ q.pc \in {"merged", "issue"}
  BY RequestFacts DEF CommitSignIn
<1>2. /\ q.user \in Users /\ q.actor \in minted /\ q.actor \in Actors
      /\ q.took \subseteq Of(q.actor) /\ \A b \in q.took : owner[b] = NoUser
  BY <1>1 DEF Shape, Grounds, DB
<1>3. users' = (IF q.creates THEN users \cup {q.user} ELSE users) /\ q.user \in users'
  BY <1>1 DEF CommitSignIn, Grounds, DB, Late
<1>4. /\ \A b \in Beacon : owner'[b] = IF b \in q.took THEN q.user ELSE owner[b]
      /\ UNCHANGED <<minted, claims, rows, views, told, by, overlapped, crossed>>
  BY DEF CommitSignIn, overlap
<1>5. \A a \in Actors : viewer'[a] = IF a = q.actor /\ q.hasView THEN q.user ELSE viewer[a]
  BY <1>2 DEF CommitSignIn, IInv, TypeOK
<1>6. \A a \in Actors : merged'[a] = IF a = q.actor /\ q.marks THEN q.user ELSE merged[a]
  BY <1>2 DEF CommitSignIn, IInv, TypeOK
<1>7. \A x \in Subjects : link'[x] = IF x = q.subject /\ q.links THEN q.user ELSE link[x]
  BY DEF CommitSignIn, IInv, TypeOK
<1>8. \A s \in Conns : req'[s] = IF s = r THEN NoRequest ELSE req[s]
  BY DEF CommitSignIn, Finish, IInv, TypeOK
<1> QED BY <1>1, <1>2, <1>3, <1>4, <1>5, <1>6, <1>7, <1>8

LEMMA TakenAreFinite ==
  ASSUME NEW q, q.took \in SUBSET Beacon
  PROVE  IsFiniteSet(q.took) /\ EventsMerged(q) \in Nat
<1>1. IsFiniteSet(q.took)
  BY EngagementAssumption, FS_Subset DEF EngagementAssumption
<1> QED BY <1>1, FS_CardinalityType DEF EventsMerged

LEMMA SignInTypes ==
  ASSUME IInv, NEW r \in Conns, CommitSignIn(r)
  PROVE  TypeOK'
<1> DEFINE q == req[r]
<1>1. /\ q \in Request /\ q.user \in Users /\ q.actor \in Actors /\ q.actor \in minted
      /\ q.user \in users' /\ q.took \in SUBSET Beacon
      /\ UNCHANGED <<minted, claims, rows, views, told, by, overlapped, crossed>>
  BY SignInFacts DEF Request
<1>2. EventsMerged(q) \in Nat
  BY <1>1, TakenAreFinite
<1>3. users' \subseteq Users /\ users \subseteq users' /\ req' \in [Conns -> Request]
  BY <1>1, NoRequestIsOne DEF CommitSignIn, Finish, IInv, TypeOK
<1>4. sessions' \subseteq users' \X minted'
  BY <1>1, <1>3 DEF CommitSignIn, IInv, TypeOK
<1>5. /\ merged' \in [Actors -> UserOrNone] /\ link' \in [Subjects -> UserOrNone]
      /\ viewer' \in [Actors -> UserOrNone \cup {NoRow}]
      /\ owner' \in [Beacon -> UserOrNone \cup {NoRow}]
  BY <1>1 DEF CommitSignIn, IInv, TypeOK, UserOrNone
<1>6. mergeTold' \in [Actors \X Users -> Nat]
  <2>1. \A n \in Nat : n + EventsMerged(q) \in Nat
    BY <1>2
  <2>2. mergeTold \in [Actors \X Users -> Nat] /\ <<q.actor, q.user>> \in Actors \X Users
    BY <1>1 DEF IInv, TypeOK
  <2> QED BY <2>1, <2>2 DEF CommitSignIn
<1>7. welcomes' \in [Users -> Nat] /\ logins' \in [Subjects -> SUBSET Users]
  <2>1. welcomes \in [Users -> Nat] /\ \A n \in Nat : n + 1 \in Nat
    BY DEF IInv, TypeOK
  <2>2. welcomes' \in [Users -> Nat]
    BY <2>1 DEF CommitSignIn
  <2>3. logins' \in [Subjects -> SUBSET Users]
    BY <1>1 DEF CommitSignIn, IInv, TypeOK
  <2> QED BY <2>2, <2>3
<1>8. seen' \in [Actors -> [events : SUBSET Beacon, view : BOOLEAN]]
  <2>1. [events |-> q.found, view |-> q.foundView] \in [events : SUBSET Beacon, view : BOOLEAN]
    BY <1>1 DEF Request
  <2> QED BY <2>1 DEF CommitSignIn, IInv, TypeOK
<1> QED BY <1>1, <1>3, <1>4, <1>5, <1>6, <1>7, <1>8 DEF IInv, TypeOK

\* A view that is taken over is a row that is there.
LEMMA SignInCounts ==
  ASSUME IInv, NEW r \in Conns, NEW q, q = req[r], CommitSignIn(r)
  PROVE  EachBeaconCountsOnce'
<1>1. /\ Shape(q) /\ Grounds(q, DB) /\ q.pc \in {"merged", "issue"} /\ q.user \in Users
      /\ \A a \in Actors : viewer'[a] = IF a = q.actor /\ q.hasView THEN q.user ELSE viewer[a]
      /\ UNCHANGED <<minted, claims, rows, views, told, by, overlapped, crossed>>
  BY SignInFacts
<1>2. NoUser \notin Users /\ NoRow \notin Users /\ NoUser # NoRow
  BY TableTypes
<1>3. q.hasView => viewer[q.actor] = NoUser
  BY <1>1 DEF Grounds, DB
<1>4. \A a \in Actors : viewer'[a] = NoRow <=> viewer[a] = NoRow
  BY <1>1, <1>2, <1>3
<1> QED BY <1>1, <1>4 DEF IInv, EachBeaconCountsOnce

\* What the merge took is what it says it took, and all that it had found.
LEMMA SignInMerges ==
  ASSUME IInv, NEW r \in Conns, NEW q, q = req[r], CommitSignIn(r)
  PROVE  MergeIsToldExactly' /\ Histories' /\ Beacons'
<1>1. /\ q \in Request /\ Shape(q) /\ Grounds(q, DB) /\ q.pc \in {"merged", "issue"}
      /\ q.user \in Users /\ q.actor \in minted /\ q.actor \in Actors
      /\ q.took \subseteq Of(q.actor) /\ \A b \in q.took : owner[b] = NoUser
      /\ \A b \in Beacon : owner'[b] = IF b \in q.took THEN q.user ELSE owner[b]
      /\ \A a \in Actors : viewer'[a] = IF a = q.actor /\ q.hasView THEN q.user ELSE viewer[a]
      /\ \A a \in Actors : merged'[a] = IF a = q.actor /\ q.marks THEN q.user ELSE merged[a]
      /\ UNCHANGED <<minted, claims, rows, views, told, by, overlapped, crossed>>
  BY SignInFacts
<1>2. NoUser \notin Users /\ NoRow \notin Users /\ NoUser # NoRow
  BY TableTypes
<1>3. \A a \in Actors : seen'[a] = IF a = q.actor /\ q.marks
                                   THEN [events |-> q.found, view |-> q.foundView] ELSE seen[a]
  BY <1>1 DEF CommitSignIn, IInv, TypeOK
<1>4. Beacons'
  BY <1>1, <1>2 DEF IInv, Beacons, Of
<1>5. \A b \in Beacon : owner[b] \in Users => owner'[b] \in Users
  BY <1>1
<1>6. \A a \in Actors : viewer[a] \in Users => viewer'[a] \in Users
  BY <1>1
<1>7. Histories'
  <2> SUFFICES ASSUME NEW a \in Actors
               PROVE  /\ merged'[a] = NoUser => seen'[a].events = {} /\ ~seen'[a].view
                      /\ a \notin minted' => merged'[a] = NoUser
                      /\ \A b \in seen'[a].events : owner'[b] \in Users
                      /\ seen'[a].view => viewer'[a] \in Users
    BY DEF Histories
  <2>1. CASE a = q.actor /\ q.marks
    <3>1. seen'[a].events = q.found /\ seen'[a].view = q.foundView /\ merged'[a] = q.user
      BY <1>1, <1>3, <2>1
    <3>2. q.pc = "merged" /\ q.pending = {}
      BY <1>1, <2>1 DEF Shape
    <3>3. ASSUME NEW b \in q.found PROVE owner'[b] \in Users
      <4>1. b \in Beacon /\ (b \in q.took \/ owner[b] \in Users)
        BY <1>1, <3>2 DEF Grounds, DB, Request
      <4> QED BY <1>1, <4>1
    <3>4. q.foundView => viewer'[a] \in Users
      BY <1>1, <2>1, <3>2 DEF Grounds, DB
    <3> QED BY <1>1, <1>2, <2>1, <3>1, <3>3, <3>4
  <2>2. CASE ~(a = q.actor /\ q.marks)
    <3>1. seen'[a] = seen[a] /\ merged'[a] = merged[a] /\ seen[a].events \subseteq Beacon
      BY <1>1, <1>3, <2>2 DEF IInv, TypeOK
    <3> QED BY <1>1, <1>5, <1>6, <3>1 DEF IInv, Histories
  <2> QED BY <2>1, <2>2
<1>8. ASSUME NEW a \in Actors, NEW u \in Users
      PROVE  mergeTold'[<<a, u>>] = Cardinality({b \in Of(a) : by'[b] = NoUser /\ owner'[b] = u})
  <2> DEFINE O == {b \in Of(a) : by[b] = NoUser /\ owner[b] = u}
             P == {b \in Of(a) : by'[b] = NoUser /\ owner'[b] = u}
  <2>1. mergeTold[<<a, u>>] = Cardinality(O) /\ mergeTold[<<a, u>>] \in Nat
    BY DEF IInv, MergeIsToldExactly, TypeOK
  <2>2. mergeTold'[<<a, u>>] = IF a = q.actor /\ u = q.user
                               THEN mergeTold[<<a, u>>] + EventsMerged(q) ELSE mergeTold[<<a, u>>]
    <3>1. mergeTold \in [Actors \X Users -> Nat]
      BY DEF IInv, TypeOK
    <3> QED BY <1>1, <3>1 DEF CommitSignIn
  <2>3. CASE a = q.actor /\ u = q.user
    <3>1. P = O \cup q.took
      <4>1. \A b \in q.took : b \in Of(a) /\ b \in Beacon /\ by[b] = NoUser
        BY <1>1, <2>3 DEF IInv, Beacons, Of
      <4>2. \A b \in Of(a) : b \in Beacon /\ by'[b] = by[b]
        BY <1>1 DEF Of
      <4> QED BY <1>1, <2>3, <4>1, <4>2
    <3>2. O \cap q.took = {}
      BY <1>1, <1>2
    <3>3. O \in SUBSET Beacon /\ q.took \in SUBSET Beacon
      BY <1>1 DEF Of
    <3>4. IsFiniteSet(O) /\ IsFiniteSet(q.took)
      BY <3>3, EngagementAssumption, FS_Subset DEF EngagementAssumption
    <3>5. Cardinality(O \cap q.took) = 0
      BY <3>2, FS_EmptySet
    <3> HIDE DEF O, P
    <3>6. Cardinality(O \cup q.took)
            = Cardinality(O) + Cardinality(q.took) - Cardinality(O \cap q.took)
      BY <3>4, FS_Union
    <3>7. Cardinality(O) \in Nat /\ Cardinality(q.took) \in Nat
      BY <3>4, FS_CardinalityType
    <3>8. Cardinality(P) = Cardinality(O) + EventsMerged(q)
      BY <3>1, <3>5, <3>6, <3>7 DEF EventsMerged
    <3>9. mergeTold'[<<a, u>>] = Cardinality(P)
      BY <2>1, <2>2, <2>3, <3>8
    <3> QED BY <3>9 DEF P
  <2>4. CASE ~(a = q.actor /\ u = q.user)
    <3>1. P = O
      <4>1. \A b \in Of(a) : b \in Beacon /\ b.actor = a /\ by'[b] = by[b]
        BY <1>1 DEF Of
      <4>2. \A b \in q.took : b.actor = q.actor
        BY <1>1 DEF Of
      <4>3. \A b \in Of(a) : owner'[b] = u <=> owner[b] = u
        BY <1>1, <1>2, <2>4, <4>1, <4>2
      <4> QED BY <4>1, <4>3
    <3> QED BY <2>1, <2>2, <2>4, <3>1
  <2> QED BY <2>3, <2>4
<1>9. ASSUME NEW a \in Actors, merged'[a] # NoUser
      PROVE  /\ \A b \in seen'[a].events : owner'[b] # NoUser
             /\ seen'[a].view => viewer'[a] # NoUser
  BY <1>2, <1>7 DEF Histories
<1> QED BY <1>4, <1>7, <1>8, <1>9 DEF MergeIsToldExactly

\* The accounts: whose the events and the subject are.
LEMMA SignInAccounts ==
  ASSUME IInv, NEW r \in Conns, NEW q, q = req[r], CommitSignIn(r)
  PROVE  SplitNeedsOverlap' /\ OneAccountPerSubject' /\ Links'
<1>1. /\ q \in Request /\ Shape(q) /\ Grounds(q, DB) /\ q.pc \in {"merged", "issue"}
      /\ q.user \in Users /\ q.actor \in minted /\ q.actor \in Actors
      /\ q.took \subseteq Of(q.actor) /\ \A b \in q.took : owner[b] = NoUser
      /\ \A b \in Beacon : owner'[b] = IF b \in q.took THEN q.user ELSE owner[b]
      /\ \A a \in Actors : merged'[a] = IF a = q.actor /\ q.marks THEN q.user ELSE merged[a]
      /\ users' = (IF q.creates THEN users \cup {q.user} ELSE users) /\ q.user \in users'
      /\ \A x \in Subjects : link'[x] = IF x = q.subject /\ q.links THEN q.user ELSE link[x]
      /\ UNCHANGED <<minted, claims, rows, views, told, by, overlapped, crossed>>
  BY SignInFacts
<1>2. NoUser \notin Users /\ NoRow \notin Users /\ NoUser # NoRow
  BY TableTypes
<1>3. SplitNeedsOverlap'
  <2> SUFFICES ASSUME NEW b \in Beacon, b.actor \notin overlapped, by[b] = NoUser,
                      owner'[b] \in Users
               PROVE  owner'[b] = merged'[b.actor]
    BY <1>1 DEF SplitNeedsOverlap
  <2>0. b.actor \in Actors
    BY DEF Beacon
  <2>1. CASE b \in q.took
    <3>1. b.actor = q.actor /\ q.found # {} /\ Merging(q) /\ q.pc = "merged"
      BY <1>1, <2>1 DEF Shape, Of, Merging
    <3>2. q.marks
      BY <1>1, <3>1 DEF Grounds, DB
    <3> QED BY <1>1, <2>0, <2>1, <3>1, <3>2
  <2>2. CASE b \notin q.took
    <3>1. owner[b] = merged[b.actor] /\ owner[b] \in Users /\ owner'[b] = owner[b]
      BY <1>1, <2>2 DEF IInv, SplitNeedsOverlap
    <3>2. q.marks => merged[q.actor] = NoUser
      BY <1>1 DEF Grounds, DB
    <3> QED BY <1>1, <1>2, <2>0, <3>1, <3>2
  <2> QED BY <2>1, <2>2
<1>4. Links'
  BY <1>1, <1>2 DEF IInv, Links
<1>5. ASSUME NEW u \in Users PROVE welcomes'[u] = IF u \in users' THEN 1 ELSE 0
  <2>1. welcomes[u] = IF u \in users THEN 1 ELSE 0
    BY DEF IInv, OneAccountPerSubject
  <2>2. welcomes'[u] = IF q.creates /\ u = q.user THEN welcomes[u] + 1 ELSE welcomes[u]
    BY <1>1 DEF CommitSignIn, IInv, TypeOK
  <2>3. q.creates => q.user \notin users
    BY <1>1 DEF Grounds, DB
  <2> QED BY <1>1, <2>1, <2>2, <2>3
<1>6. ASSUME NEW x \in Subjects \ crossed PROVE logins'[x] \subseteq {link'[x]}
  <2>1. logins[x] \subseteq {link[x]} /\ logins[x] \subseteq Users
    BY DEF IInv, OneAccountPerSubject, TypeOK
  <2>2. logins'[x] = IF x = q.subject THEN logins[x] \cup {q.user} ELSE logins[x]
    BY <1>1, EngagementAssumption DEF CommitSignIn, IInv, TypeOK, EngagementAssumption
  <2>3. CASE x = q.subject
    <3>1. LookingUp(q) /\ q.pc \in Late
      BY <1>1, <2>3, EngagementAssumption DEF LookingUp, Late, EngagementAssumption
    <3>2. link[x] = IF ~q.links THEN q.user ELSE NoUser
      BY <1>1, <2>3, <3>1 DEF Grounds, DB
    <3>3. link'[x] = q.user
      BY <1>1, <2>3, <3>2
    <3>4. logins[x] \subseteq {q.user}
      BY <1>2, <2>1, <3>2
    <3> QED BY <2>2, <2>3, <3>3, <3>4
  <2>4. CASE x # q.subject
    BY <1>1, <2>1, <2>2, <2>4
  <2> QED BY <2>3, <2>4
<1>7. OneAccountPerSubject'
  BY <1>1, <1>5, <1>6 DEF OneAccountPerSubject
<1> QED BY <1>3, <1>4, <1>7

\* The other requests have taken other events and views, mark other actors and
\* make other accounts; or the histories say that they may be surprised.
LEMMA SignInOthers ==
  ASSUME IInv, NEW r \in Conns, NEW q, q = req[r], CommitSignIn(r),
         NEW s \in Conns, s # r, NEW p, p = req[s]
  PROVE  Grounds(p, DB')
<1>1. /\ q \in Request /\ Shape(q) /\ q.pc \in {"merged", "issue"}
      /\ q.user \in Users /\ q.actor \in Actors
      /\ \A b \in Beacon : owner'[b] = IF b \in q.took THEN q.user ELSE owner[b]
      /\ \A a \in Actors : viewer'[a] = IF a = q.actor /\ q.hasView THEN q.user ELSE viewer[a]
      /\ \A a \in Actors : merged'[a] = IF a = q.actor /\ q.marks THEN q.user ELSE merged[a]
      /\ users' = IF q.creates THEN users \cup {q.user} ELSE users
      /\ \A x \in Subjects : link'[x] = IF x = q.subject /\ q.links THEN q.user ELSE link[x]
      /\ UNCHANGED <<minted, claims, rows, views, told, by, overlapped, crossed>>
  BY SignInFacts
<1>2. NoUser \notin Users /\ NoRow \notin Users /\ NoUser # NoRow
  BY TableTypes
<1>3. p \in Request /\ Shape(p) /\ Grounds(p, DB) /\ Apart(q, p, overlapped, crossed)
  BY RequestFacts
<1>4. \A b \in p.took : owner'[b] = NoUser
  BY <1>1, <1>3 DEF Grounds, DB, Apart, Request
<1>5. \A b \in p.found : owner'[b] # NoRow /\ (b \in p.pending \cup p.took \/ owner'[b] \in Users)
  <2> SUFFICES ASSUME NEW b \in p.found
               PROVE  owner'[b] # NoRow /\ (b \in p.pending \cup p.took \/ owner'[b] \in Users)
    OBVIOUS
  <2>1. b \in Beacon
    BY <1>3 DEF Request
  <2>2. owner[b] # NoRow /\ (b \in p.pending \cup p.took \/ owner[b] \in Users)
    BY <1>3 DEF Grounds, DB
  <2> QED BY <1>1, <1>2, <2>1, <2>2
<1>6. ASSUME p.pc \notin {"idle", "view"} PROVE p.actor \in Actors
  BY <1>3, <1>6 DEF Shape, Beacon
<1>7. p.foundView => /\ viewer'[p.actor] # NoRow
                     /\ p.pc = "take_view" \/ p.hasView \/ viewer'[p.actor] \in Users
  <2>1. p.foundView => /\ viewer[p.actor] # NoRow /\ p.actor \in Actors
                       /\ p.pc = "take_view" \/ p.hasView \/ viewer[p.actor] \in Users
    BY <1>3, <1>6 DEF Grounds, DB, Shape
  <2> QED BY <1>1, <1>2, <2>1
<1>8. p.hasView /\ p.pc # "append" => viewer'[p.actor] = NoUser
  <2>1. p.hasView /\ p.pc # "append" => viewer[p.actor] = NoUser /\ p.actor \in Actors
    BY <1>3, <1>6 DEF Grounds, DB, Shape
  <2>2. p.hasView /\ p.actor = q.actor => ~q.hasView
    BY <1>3 DEF Apart
  <2> QED BY <1>1, <2>1, <2>2
<1>9. p.marks => merged'[p.actor] = NoUser
  <2>1. p.marks => merged[p.actor] = NoUser /\ p.actor \in Actors
    BY <1>3, <1>6 DEF Grounds, DB, Shape
  <2>2. p.marks /\ p.actor = q.actor => ~q.marks
    BY <1>3 DEF Apart
  <2> QED BY <1>1, <2>1, <2>2
<1>10. p.creates => p.user \notin users'
  <2>1. p.creates => p.user \notin users /\ (p.user = q.user => ~q.creates)
    BY <1>3 DEF Grounds, DB, Apart
  <2> QED BY <1>1, <2>1
<1>11. p.pc \in {"attach"} \cup Late => p.creates \/ p.user \in users'
  BY <1>1, <1>3 DEF Grounds, DB
<1>12. Merging(p) /\ p.actor \notin overlapped =>
         merged'[p.actor] = NoUser /\ (p.pc = "merged" => p.marks)
  <2>1. Merging(p) /\ p.actor \notin overlapped =>
          /\ merged[p.actor] = NoUser /\ (p.pc = "merged" => p.marks) /\ p.actor \in Actors
    BY <1>3, <1>6 DEF Grounds, DB, Merging
  <2>2. Merging(p) /\ p.actor = q.actor /\ q.marks => p.actor \in overlapped
    BY <1>1, <1>3 DEF Apart, Shape, Merging
  <2> QED BY <1>1, <2>1, <2>2
<1>13. LookingUp(p) /\ p.subject \notin crossed =>
         link'[p.subject] = IF p.pc \in Late /\ ~p.links THEN p.user ELSE NoUser
  <2>1. LookingUp(p) /\ p.subject \notin crossed =>
          /\ link[p.subject] = IF p.pc \in Late /\ ~p.links THEN p.user ELSE NoUser
          /\ p.subject \in Subjects
    BY <1>3 DEF Grounds, DB, LookingUp, Request
  <2>2. LookingUp(p) /\ p.subject = q.subject /\ q.links => p.subject \in crossed
    BY <1>1, <1>3 DEF Apart, Shape, LookingUp
  <2> QED BY <1>1, <2>1, <2>2
<1>14. p.links => link'[p.subject] = NoUser
  <2>1. p.links => link[p.subject] = NoUser /\ p.subject \in Subjects
    BY <1>3 DEF Grounds, DB, Shape, Request
  <2>2. p.links /\ p.subject = q.subject => ~q.links
    BY <1>3 DEF Apart
  <2> QED BY <1>1, <2>1, <2>2
<1>15. /\ p.pc # "idle" => p.actor \in minted
       /\ p.pc \in {"view", "append"} => p.beacon \notin claims
  BY <1>3 DEF Grounds, DB
<1> QED BY <1>1, <1>4, <1>5, <1>7, <1>8, <1>9, <1>10, <1>11, <1>12, <1>13, <1>14,
        <1>15 DEF Grounds, DB

LEMMA CommitSignInOK ==
  ASSUME IInv, NEW r \in Conns, CommitSignIn(r)
  PROVE  IInv'
<1>1. /\ \A s \in Conns : req'[s] = IF s = r THEN NoRequest ELSE req[s]
      /\ overlapped' = overlapped /\ crossed' = crossed
  BY SignInFacts
<1>2. ASSUME NEW s \in Conns PROVE Shape(req'[s]) /\ Grounds(req'[s], DB')
  BY <1>1, NoRequestIsSound, SignInOthers, RequestFacts
<1>3. ASSUME NEW s \in Conns, NEW t \in Conns, s # t
      PROVE  Apart(req'[s], req'[t], overlapped', crossed')
  BY <1>1, <1>3, NoRequestIsSound, ApartIsMutual, RequestFacts
<1> QED BY <1>2, <1>3, SignInTypes, SignInCounts, SignInMerges, SignInAccounts DEF IInv

-----------------------------------------------------------------------------
(* New actors.                                                             *)

\* An actor that was not there has no events, no views and no request.
LEMMA NewActor ==
  ASSUME IInv, NEW a \in Actors, a \notin minted, minted' = minted \cup {a},
         merged' \in [Actors -> UserOrNone],
         \A c \in Actors : c # a => merged'[c] = merged[c],
         sessions' \subseteq users \X minted', users' = users,
         UNCHANGED <<claims, rows, owner, views, viewer, link, told, mergeTold, welcomes, by,
                     seen, overlapped, logins, crossed, req>>
  PROVE  IInv'
<1>1. NoUser \notin Users
  BY TableTypes
<1>2. TypeOK'
  BY DEF IInv, TypeOK
<1>3. EachBeaconCountsOnce' /\ OneAccountPerSubject' /\ Links' /\ Beacons'
  BY DEF IInv, EachBeaconCountsOnce, OneAccountPerSubject, Links, Beacons
<1>4. \A b \in Beacon : owner[b] \in Users => b.actor \in Actors \ {a}
  <2>1. \A b \in Beacon : owner[b] \in Users => b \in claims
    BY EngagementAssumption DEF IInv, Beacons, EngagementAssumption
  <2> QED BY <2>1 DEF IInv, Beacons, Beacon
<1>5. SplitNeedsOverlap'
  BY <1>4 DEF IInv, SplitNeedsOverlap
<1>6. merged[a] = NoUser /\ seen[a].events = {} /\ ~seen[a].view
  BY DEF IInv, Histories
<1>7. Histories'
  BY <1>6 DEF IInv, Histories
<1>8. MergeIsToldExactly'
  BY <1>6 DEF IInv, MergeIsToldExactly
<1>9. ASSUME NEW s \in Conns PROVE Shape(req'[s]) /\ Grounds(req'[s], DB')
  <2>1. Shape(req[s]) /\ Grounds(req[s], DB) /\ req'[s] = req[s]
    BY RequestFacts
  <2>2. req[s].pc # "idle" => req[s].actor \in minted /\ req[s].actor # a
    BY <2>1 DEF Grounds, DB
  <2>3. req[s].marks \/ Merging(req[s]) => req[s].pc # "idle" /\ req[s].actor \in Actors
    BY <2>1 DEF Shape, Merging
  <2>4. Grounds(req[s], DB')
    BY <2>1, <2>2, <2>3 DEF Grounds, DB
  <2> QED BY <2>1, <2>4
<1>10. ASSUME NEW s \in Conns, NEW t \in Conns, s # t
       PROVE  Apart(req'[s], req'[t], overlapped', crossed')
  BY <1>10, RequestFacts
<1> QED BY <1>2, <1>3, <1>5, <1>7, <1>8, <1>9, <1>10 DEF IInv

LEMMA MintOK ==
  ASSUME IInv, NEW a \in Actors, Mint(a)
  PROVE  IInv'
<1>1. UNCHANGED <<users, merged, claims, rows, owner, views, viewer, link, sessions, told,
                  mergeTold, welcomes, by, seen, overlapped, logins, crossed, req>>
  BY DEF Mint, log, people, overlap
<1>2. sessions' \subseteq users \X (minted \cup {a}) /\ merged' \in [Actors -> UserOrNone]
  BY <1>1 DEF IInv, TypeOK
<1> QED BY <1>1, <1>2, NewActor DEF Mint

LEMMA MintForOK ==
  ASSUME IInv, NEW a \in Actors, NEW u \in Users, MintFor(a, u)
  PROVE  IInv'
<1>1. UNCHANGED <<users, claims, rows, owner, views, viewer, link, told,
                  mergeTold, welcomes, by, seen, overlapped, logins, crossed, req>>
  BY DEF MintFor, log, overlap
<1>2. a \notin minted /\ minted' = minted \cup {a} /\ sessions' \subseteq users \X minted'
  BY DEF MintFor, IInv, TypeOK
<1>3. merged' \in [Actors -> UserOrNone] /\ \A c \in Actors : c # a => merged'[c] = merged[c]
  BY DEF MintFor, IInv, TypeOK, UserOrNone
<1> QED BY <1>1, <1>2, <1>3, NewActor

-----------------------------------------------------------------------------
(* Every step.                                                             *)

LEMMA InitOK == Init => IInv
<1> SUFFICES ASSUME Init PROVE IInv
  OBVIOUS
<1> USE DEF Init
<1>1. NoUser \notin Users /\ NoRow \notin Users /\ NoUser # NoRow
  BY EngagementAssumption DEF EngagementAssumption
<1>2. TypeOK
  BY NoRequestIsOne DEF TypeOK, UserOrNone
<1>3. EachBeaconCountsOnce
  <2>1. \A a \in Actors : {b \in claims : b.actor = a /\ IsView(b)} = {}
    OBVIOUS
  <2> QED BY <2>1, FS_EmptySet DEF EachBeaconCountsOnce
<1>4. MergeIsToldExactly
  <2>1. \A a \in Actors, u \in Users : {b \in Of(a) : by[b] = NoUser /\ owner[b] = u} = {}
    BY <1>1 DEF Of
  <2> QED BY <2>1, FS_EmptySet DEF MergeIsToldExactly
<1>5. SplitNeedsOverlap /\ OneAccountPerSubject
  BY <1>1 DEF SplitNeedsOverlap, OneAccountPerSubject
<1>6. Beacons /\ Histories /\ Links
  BY <1>1 DEF Beacons, Histories, Links
<1>7. \A r \in Conns : Shape(req[r]) /\ Grounds(req[r], DB)
  BY NoRequestIsSound
<1>8. \A r, s \in Conns : r # s => Apart(req[r], req[s], overlapped, crossed)
  BY NoRequestIsSound
<1> QED BY <1>2, <1>3, <1>4, <1>5, <1>6, <1>7, <1>8 DEF IInv

LEMMA StutterOK ==
  ASSUME IInv, UNCHANGED vars
  PROVE  IInv'
<1> USE DEF vars
<1>1. TypeOK'
  BY DEF IInv, TypeOK
<1>2. EachBeaconCountsOnce'
  BY DEF IInv, EachBeaconCountsOnce
<1>3. MergeIsToldExactly'
  BY DEF IInv, MergeIsToldExactly, Of
<1>4. SplitNeedsOverlap' /\ OneAccountPerSubject' /\ Beacons' /\ Histories' /\ Links'
  BY DEF IInv, SplitNeedsOverlap, OneAccountPerSubject, Beacons, Histories, Links, Of
<1>5. DB' = DB
  BY DEF DB
<1>6. \A r \in Conns : Shape(req'[r]) /\ Grounds(req'[r], DB')
  BY <1>5 DEF IInv
<1>7. \A r, s \in Conns : r # s => Apart(req'[r], req'[s], overlapped', crossed')
  BY DEF IInv
<1> QED BY <1>1, <1>2, <1>3, <1>4, <1>6, <1>7 DEF IInv

LEMMA NextOK == IInv /\ [Next]_vars => IInv'
<1> SUFFICES ASSUME IInv, [Next]_vars PROVE IInv'
  OBVIOUS
<1>1. ASSUME NEW r \in Conns, Recording(r) PROVE IInv'
  BY <1>1, SendOK, UpsertViewOK, CommitRecordOK DEF Recording
<1>2. ASSUME NEW r \in Conns, SigningIn(r) PROVE IInv'
  BY <1>2, StartByCodeOK, StartByProviderOK, FindLinkOK, FindAccountOK, CreateAccountOK,
     LinkSubjectOK, CommitSignInOK DEF SigningIn
<1>3. ASSUME NEW r \in Conns, MergingActor(r) PROVE IInv'
  BY <1>3, ReadActorOK, ScanEventsOK, TakeEventOK, ScanViewOK, TakeViewOK, MarkMergedOK
     DEF MergingActor
<1>4. ASSUME NEW r \in Conns, RollBack(r) PROVE IInv'
  BY <1>4, RollBackOK
<1>5. ASSUME NEW a \in Actors, Mint(a) \/ \E u \in Users : MintFor(a, u) PROVE IInv'
  BY <1>5, MintOK, MintForOK
<1>6. CASE UNCHANGED vars
  BY <1>6, StutterOK
<1> QED BY <1>1, <1>2, <1>3, <1>4, <1>5, <1>6 DEF Next

\* What requests have found out stays true until they commit.
THEOREM Invariance == Spec => []IInv
BY InitOK, NextOK, PTL DEF Spec

\* Types, and the foreign keys of a session.
THEOREM TypeCorrect == Spec => []TypeOK
<1>1. IInv => TypeOK
  BY DEF IInv
<1> QED BY <1>1, Invariance, PTL

\* However often a browser repeats a beacon, on however many connections, it
\* is one row, one view and at most one event.
THEOREM CountedOnce == Spec => []EachBeaconCountsOnce
<1>1. IInv => EachBeaconCountsOnce
  BY DEF IInv
<1> QED BY <1>1, Invariance, PTL

\* However sign-ins and beacons interleave, what AnonymousActorMerged says was
\* moved is what was moved, nothing that a merge had found is left behind, and
\* a history is split only between sign-ins that overlapped.
THEOREM Accounted == Spec => []HistoryIsAccountedFor
<1>1. IInv => HistoryIsAccountedFor
  BY DEF IInv, HistoryIsAccountedFor
<1> QED BY <1>1, Invariance, PTL

\* One account for an address, one announcement of it, and one account for a
\* subject that nobody was looking up at the same time.
THEOREM OneAccount == Spec => []OneAccountPerSubject
<1>1. IInv => OneAccountPerSubject
  BY DEF IInv
<1> QED BY <1>1, Invariance, PTL

Stays ==
  /\ \A b \in Beacon : owner[b] \in Users => owner'[b] = owner[b]
  /\ \A a \in Actors : merged[a] # NoUser => merged'[a] = merged[a]
  /\ \A s \in Subjects : link[s] # NoUser => link'[s] = link[s]
  /\ \A a \in Actors : viewer[a] \in Users /\ viewer'[a] # viewer[a] =>
       \E r \in Conns : /\ req[r].pc = "append" /\ req[r].hasView
                        /\ req[r].user = viewer'[a] /\ viewer'[a] \in Users

\* Only the two commits write these columns, and a sign-in writes those it had
\* found empty.
LEMMA StaysOK == IInv /\ [Next]_vars => Stays
<1> SUFFICES ASSUME IInv, [Next]_vars PROVE Stays
  OBVIOUS
<1>0. NoUser \notin Users /\ NoRow \notin Users /\ NoUser # NoRow
  BY TableTypes
<1>1. ASSUME UNCHANGED <<owner, merged, viewer, link>> PROVE Stays
  BY <1>1 DEF Stays
<1>2. ASSUME NEW r \in Conns, CommitRecord(r) PROVE Stays
  <2> DEFINE q == req[r]
  <2>1. /\ q.beacon \in Beacon /\ owner[q.beacon] = NoRow /\ q.user \in UserOrNone
        /\ q.pc = "append"
        /\ \A b \in Beacon : owner'[b] = IF b = q.beacon THEN q.user ELSE owner[b]
        /\ \A a \in Actors : viewer'[a] = IF a = q.actor /\ q.hasView
                                          THEN NewViewer(viewer[a], q.user) ELSE viewer[a]
        /\ UNCHANGED <<people, merges, overlap>>
    BY <1>2, RecordFacts
  <2>2. merged' = merged /\ link' = link
    BY <2>1 DEF merges, people
  <2>3. ASSUME NEW a \in Actors, viewer[a] \in Users, viewer'[a] # viewer[a]
        PROVE  q.pc = "append" /\ q.hasView /\ q.user = viewer'[a] /\ viewer'[a] \in Users
    BY <1>0, <2>1, <2>3 DEF NewViewer, UserOrNone
  <2> QED BY <1>0, <2>1, <2>2, <2>3 DEF Stays
<1>3. ASSUME NEW r \in Conns, CommitSignIn(r) PROVE Stays
  <2> DEFINE q == req[r]
  <2>1. /\ Shape(q) /\ Grounds(q, DB) /\ q.pc \in {"merged", "issue"}
        /\ \A b \in q.took : owner[b] = NoUser
        /\ \A b \in Beacon : owner'[b] = IF b \in q.took THEN q.user ELSE owner[b]
        /\ \A a \in Actors : viewer'[a] = IF a = q.actor /\ q.hasView THEN q.user
                                          ELSE viewer[a]
        /\ \A a \in Actors : merged'[a] = IF a = q.actor /\ q.marks THEN q.user
                                          ELSE merged[a]
        /\ \A x \in Subjects : link'[x] = IF x = q.subject /\ q.links THEN q.user ELSE link[x]
    BY <1>3, SignInFacts
  <2>2. /\ q.links => link[q.subject] = NoUser
        /\ q.marks => merged[q.actor] = NoUser
        /\ q.hasView => viewer[q.actor] = NoUser
    BY <2>1 DEF Grounds, DB
  <2> QED BY <1>0, <2>1, <2>2 DEF Stays
<1>4. ASSUME NEW r \in Conns, Recording(r) PROVE Stays
  <2>1. CASE CommitRecord(r)
    BY <1>2, <2>1
  <2>2. CASE UpsertView(r) \/ \E b \in Beacon, u \in UserOrNone : Send(r, b, u)
    BY <1>1, <2>2 DEF UpsertView, Send, log, merges, people
  <2> QED BY <1>4, <2>1, <2>2 DEF Recording
<1>5. ASSUME NEW r \in Conns, SigningIn(r) PROVE Stays
  <2>1. CASE CommitSignIn(r)
    BY <1>3, <2>1
  <2>2. CASE \E u \in Users, a \in Actors :
               StartByCode(r, u, a) \/ \E x \in Subjects : StartByProvider(r, x, u, a)
    BY <1>1, <2>2 DEF StartByCode, StartByProvider, log, merges, people
  <2>3. CASE FindLink(r) \/ FindAccount(r) \/ CreateAccount(r) \/ LinkSubject(r)
    BY <1>1, <2>3 DEF FindLink, FindAccount, CreateAccount, LinkSubject, log, merges, people
  <2> QED BY <1>5, <2>1, <2>2, <2>3 DEF SigningIn
<1>6. ASSUME NEW r \in Conns, MergingActor(r) \/ RollBack(r) PROVE Stays
  BY <1>1, <1>6 DEF MergingActor, RollBack, ReadActor, ScanEvents, TakeEvent, ScanView,
     TakeView, MarkMerged, log, merges, people
<1>7. ASSUME NEW a \in Actors, Mint(a) PROVE Stays
  BY <1>1, <1>7 DEF Mint, log, people
<1>8. ASSUME NEW a \in Actors, NEW u \in Users, MintFor(a, u) PROVE Stays
  <2>1. a \notin minted /\ merged[a] = NoUser
    BY <1>8 DEF MintFor, IInv, Histories
  <2>2. UNCHANGED <<owner, viewer, link>>
    BY <1>8 DEF MintFor, log
  <2>3. \A x \in Actors : merged'[x] = IF x = a THEN u ELSE merged[x]
    BY <1>8 DEF MintFor, IInv, TypeOK
  <2> QED BY <2>1, <2>2, <2>3 DEF Stays
<1>9. CASE UNCHANGED vars
  BY <1>1, <1>9 DEF vars
<1> QED BY <1>4, <1>5, <1>6, <1>7, <1>8, <1>9 DEF Next

\* Events, actors and subjects never change hands, and a view goes only to a user
\* who is recording one.
THEOREM StaysPut == Spec => HistoryStaysPut
<1>1. Spec => [][Stays]_vars
  BY StaysOK, Invariance, PTL DEF Spec
<1> QED BY <1>1 DEF HistoryStaysPut, Stays

=============================================================================
