----------------------------- MODULE Engagement -----------------------------
(***************************************************************************)
(* What a browser did before anybody signed in with it, and whose that     *)
(* becomes: EngagementService.record, the sign-ins of AuthService that     *)
(* merge the browser's actor into an account (by one-time code, or through *)
(* a provider, which finds its account first), and the tables they share.  *)
(*                                                                         *)
(* Every request is one READ COMMITTED transaction.  The tables show what  *)
(* is committed; what a transaction has written so far, and so holds, is   *)
(* in the record of its request.  There is one article: rows of different  *)
(* articles never meet.                                                    *)
(***************************************************************************)
EXTENDS Naturals, FiniteSets

CONSTANTS Conns,
          Actors,     \* ids of anonymous actors
          Users,      \* accounts, each standing for the address it is of
          Subjects,   \* identities at OAuth providers
          Clicks, Completes, Saves,
          Others,     \* client keys of impressions and of events of no article
          NoUser, NoRow, NoActor, NoSubject, NoBeacon

Keys   == Clicks \cup Completes \cup Saves \cup Others
Beacon == [actor : Actors, key : Keys]   \* a dedupe key: the client's, scoped to the actor

ASSUME EngagementAssumption ==
  /\ IsFiniteSet(Conns) /\ IsFiniteSet(Beacon)
  /\ Clicks \cap Completes = {} /\ Saves \cap (Clicks \cup Completes) = {}
  /\ Others \cap (Clicks \cup Completes \cup Saves) = {}
  /\ NoUser \notin Users /\ NoRow \notin Users /\ NoUser # NoRow
  /\ NoActor \notin Actors /\ NoSubject \notin Subjects /\ NoBeacon \notin Beacon

VARIABLES
  users,       \* rows of users
  minted,      \* rows of anonymous_actors
  merged,      \* column merged_into_user_id
  claims,      \* rows of engagement_dedupe
  rows,        \* how many rows of engagement_events a beacon has
  owner,       \* their column user_id
  views,       \* recent_views: column view_count, 0 without a row
  viewer,      \* recent_views: column user_id
  link,        \* oauth_identities: the account of a subject
  sessions,    \* pairs <<user, actor>> an access token names
  told,        \* outbox: ArticleCompleted and ArticleSaved events of a beacon
  mergeTold,   \* outbox: the sum of events_merged of an actor and a user
  welcomes,    \* outbox: UserRegistered events
  by,          \* history: the user whose session recorded the beacon
  seen,        \* history: what the merge that took the actor had found to take
  overlapped,  \* history: actors two sign-ins were merging at once
  logins,      \* history: the accounts sign-ins of a subject have ended in
  crossed,     \* history: subjects two sign-ins were looking up at once
  req

log     == <<claims, rows, owner, views, viewer, told, by>>
people  == <<users, link, sessions, welcomes, logins>>
merges  == <<minted, merged, mergeTold, seen>>
overlap == <<overlapped, crossed>>
vars    == <<users, minted, merged, claims, rows, owner, views, viewer, link, sessions,
             told, mergeTold, welcomes, by, seen, overlapped, logins, crossed, req>>

UserOrNone == Users \cup {NoUser}
Request == [pc      : {"idle", "view", "append", "link", "account", "create", "attach", "actor",
                       "scan", "take", "take_view", "mark", "merged", "issue"},
            beacon  : Beacon \cup {NoBeacon},
            actor   : Actors \cup {NoActor},
            user    : UserOrNone,
            subject : Subjects \cup {NoSubject},
            creates : BOOLEAN,         \* inserted the row of users
            links   : BOOLEAN,         \* inserted the row of oauth_identities
            found   : SUBSET Beacon,   \* events the snapshot of the UPDATE shows
            pending : SUBSET Beacon,   \* of these, not reached yet
            took    : SUBSET Beacon,   \* of these, updated
            foundView : BOOLEAN,       \* the same of the row of recent_views
            hasView : BOOLEAN,
            marks   : BOOLEAN]         \* updated the row of anonymous_actors

NoRequest == [pc |-> "idle", beacon |-> NoBeacon, actor |-> NoActor, user |-> NoUser,
              subject |-> NoSubject, creates |-> FALSE, links |-> FALSE,
              found |-> {}, pending |-> {}, took |-> {},
              foundView |-> FALSE, hasView |-> FALSE, marks |-> FALSE]

Of(a)           == {b \in Beacon : b.actor = a}
IsView(b)       == b.key \in Clicks \cup Completes
IsTold(b)       == b.key \in Completes \cup Saves
Merging(q)      == q.pc \in {"scan", "take", "take_view", "mark", "merged"}
LookingUp(q)    == q.subject # NoSubject /\ q.pc # "link"
Finish(r)       == req' = [req EXCEPT ![r] = NoRequest]
Rivals(r)       == {req[s] : s \in Conns \ {r}}
ViewIsFree(r)   == \A q \in Rivals(r) : ~(q.hasView /\ q.actor = req[r].actor)

-----------------------------------------------------------------------------
(* EngagementService.record.                                               *)

\* ActorService.resolve: an actor's token names the actor, an access token a
\* user beside it.  That both expire would only take behaviours away.
Principal(u, a) == u = NoUser \/ <<u, a>> \in sessions

\* Mutant: nothing stands between a retried beacon and a second row.
SendUnclaimed(r, b, u) ==
  /\ req[r].pc = "idle" /\ b.actor \in minted
  /\ Principal(u, b.actor)
  /\ rows[b] < 2 /\ \A q \in Rivals(r) : q.beacon # b
  /\ req' = [req EXCEPT ![r] = [NoRequest EXCEPT !.beacon = b, !.actor = b.actor, !.user = u,
                                                 !.pc = IF IsView(b) THEN "view" ELSE "append"]]
  /\ UNCHANGED <<log, people, merges, overlap>>

\* The claim of the dedupe key waits for an open claim of the same key; a key
\* already claimed ends the request, which is not a step.
Send(r, b, u) ==
  /\ req[r].pc = "idle" /\ b.actor \in minted
  /\ Principal(u, b.actor)
  /\ b \notin claims /\ \A q \in Rivals(r) : q.beacon # b
  /\ req' = [req EXCEPT ![r] = [NoRequest EXCEPT !.beacon = b, !.actor = b.actor, !.user = u,
                                                 !.pc = IF IsView(b) THEN "view" ELSE "append"]]
  /\ UNCHANGED <<log, people, merges, overlap>>

\* The upsert of recent_views waits for whoever has the row.
UpsertView(r) ==
  /\ req[r].pc = "view"
  /\ ViewIsFree(r)
  /\ req' = [req EXCEPT ![r].pc = "append", ![r].hasView = TRUE]
  /\ UNCHANGED <<log, people, merges, overlap>>

\* COALESCE(EXCLUDED.user_id, recent_views.user_id)
NewViewer(old, u) == IF u # NoUser THEN u ELSE IF old = NoRow THEN NoUser ELSE old

\* Only what a user completes or saves is published.
Tells(q) == q.user # NoUser /\ IsTold(q.beacon)

CommitRecord(r) ==
  LET q == req[r] IN
  /\ q.pc = "append"
  /\ claims' = claims \cup {q.beacon}
  /\ rows' = [rows EXCEPT ![q.beacon] = @ + 1]
  /\ owner' = [owner EXCEPT ![q.beacon] = q.user]
  /\ by' = [by EXCEPT ![q.beacon] = q.user]
  /\ views' = IF q.hasView THEN [views EXCEPT ![q.actor] = @ + 1] ELSE views
  /\ viewer' = IF q.hasView THEN [viewer EXCEPT ![q.actor] = NewViewer(@, q.user)] ELSE viewer
  /\ told' = IF Tells(q) THEN [told EXCEPT ![q.beacon] = @ + 1] ELSE told
  /\ Finish(r)
  /\ UNCHANGED <<people, merges, overlap>>

-----------------------------------------------------------------------------
(* Finding the account.                                                    *)

\* A verified code: the account is the one of the address it was sent to.
StartByCode(r, u, a) ==
  /\ req[r].pc = "idle" /\ a \in minted
  /\ req' = [req EXCEPT ![r] = [NoRequest EXCEPT !.pc = "account", !.actor = a, !.user = u]]
  /\ UNCHANGED <<log, people, merges, overlap>>

\* A provider's profile: a subject, and the verified address it has today.
StartByProvider(r, s, u, a) ==
  /\ req[r].pc = "idle" /\ a \in minted
  /\ req' = [req EXCEPT ![r] = [NoRequest EXCEPT !.pc = "link", !.actor = a, !.user = u,
                                                 !.subject = s]]
  /\ UNCHANGED <<log, people, merges, overlap>>

\* Mutant: the account is looked up by the address alone.
FindLinkIgnored(r) ==
  /\ req[r].pc = "link"
  /\ req' = [req EXCEPT ![r].pc = "account"]
  /\ UNCHANGED <<log, people, merges, overlap>>

\* find_user_id: a subject seen before brings its account along.
FindLink(r) ==
  LET q == req[r] IN
  /\ q.pc = "link"
  /\ req' = [req EXCEPT ![r] = IF link[q.subject] # NoUser
                               THEN [q EXCEPT !.pc = "actor", !.user = link[q.subject]]
                               ELSE [q EXCEPT !.pc = "account"]]
  /\ crossed' = IF \E p \in Rivals(r) : LookingUp(p) /\ p.subject = q.subject
                THEN crossed \cup {q.subject} ELSE crossed
  /\ UNCHANGED <<log, people, merges, overlapped>>

\* get_by_email
FindAccount(r) ==
  LET q == req[r] IN
  /\ q.pc = "account"
  /\ req' = [req EXCEPT ![r].pc = IF q.user \notin users THEN "create"
                                  ELSE IF q.subject = NoSubject THEN "actor" ELSE "attach"]
  /\ UNCHANGED <<log, people, merges, overlap>>

\* The INSERT waits for an open one of the same address and is refused if that
\* commits: the sign-in fails.
CreateAccount(r) ==
  LET q == req[r] IN
  /\ q.pc = "create"
  /\ \A p \in Rivals(r) : ~(p.creates /\ p.user = q.user)
  /\ IF q.user \in users
     THEN Finish(r)
     ELSE req' = [req EXCEPT ![r].creates = TRUE,
                             ![r].pc = IF q.subject = NoSubject THEN "actor" ELSE "attach"]
  /\ UNCHANGED <<log, people, merges, overlap>>

\* link(): ON CONFLICT the row keeps the account it has.
LinkSubject(r) ==
  LET q == req[r] IN
  /\ q.pc = "attach"
  /\ \A p \in Rivals(r) : ~(p.links /\ p.subject = q.subject)
  /\ req' = [req EXCEPT ![r].pc = "actor", ![r].links = link[q.subject] = NoUser]
  /\ UNCHANGED <<log, people, merges, overlap>>

-----------------------------------------------------------------------------
(* _merge_actor.                                                           *)

\* A code marks the address of the account it found as verified, which holds
\* the row of users to the end.
HoldsUser(q)    == q.subject = NoSubject /\ ~q.creates /\ (Merging(q) \/ q.pc = "issue")
UserIsFree(r)   ==
  req[r].subject = NoSubject /\ ~req[r].creates =>
    \A q \in Rivals(r) : ~(HoldsUser(q) /\ q.user = req[r].user)

\* An actor that belongs to somebody is left alone.
ReadActor(r) ==
  LET q == req[r] IN
  /\ q.pc = "actor" /\ UserIsFree(r)
  /\ req' = [req EXCEPT ![r].pc = IF merged[q.actor] # NoUser THEN "issue" ELSE "scan"]
  /\ overlapped' = IF /\ merged[q.actor] = NoUser
                      /\ \E p \in Rivals(r) : Merging(p) /\ p.actor = q.actor
                   THEN overlapped \cup {q.actor} ELSE overlapped
  /\ UNCHANGED <<log, people, merges, crossed>>

\* The UPDATE of engagement_events finds the rows of its snapshot.
ScanEvents(r) ==
  LET unowned == {b \in Of(req[r].actor) : owner[b] = NoUser} IN
  /\ req[r].pc = "scan"
  /\ req' = [req EXCEPT ![r].pc = "take", ![r].found = unowned, ![r].pending = unowned]
  /\ UNCHANGED <<log, people, merges, overlap>>

\* Mutant: rows another transaction has written are not looked at again.
TakeEventUnchecked(r, b) ==
  /\ req[r].pc = "take" /\ b \in req[r].pending
  /\ \A q \in Rivals(r) : b \notin q.took
  /\ req' = [req EXCEPT ![r].pending = @ \ {b}, ![r].took = @ \cup {b}]
  /\ UNCHANGED <<log, people, merges, overlap>>

\* ... waits for each that another transaction has updated, and then looks
\* at its WHERE clause again.
TakeEvent(r, b) ==
  /\ req[r].pc = "take" /\ b \in req[r].pending
  /\ \A q \in Rivals(r) : b \notin q.took
  /\ req' = [req EXCEPT ![r].pending = @ \ {b},
                        ![r].took = IF owner[b] = NoUser THEN @ \cup {b} ELSE @]
  /\ UNCHANGED <<log, people, merges, overlap>>

\* The UPDATE of recent_views: the row of its snapshot ...
ScanView(r) ==
  /\ req[r].pc = "take" /\ req[r].pending = {}
  /\ req' = [req EXCEPT ![r].pc = IF viewer[req[r].actor] = NoUser THEN "take_view" ELSE "mark",
                        ![r].foundView = viewer[req[r].actor] = NoUser]
  /\ UNCHANGED <<log, people, merges, overlap>>

\* ... and the row as it is once it is free.
TakeView(r) ==
  /\ req[r].pc = "take_view"
  /\ ViewIsFree(r)
  /\ req' = [req EXCEPT ![r].pc = "mark", ![r].hasView = viewer[req[r].actor] = NoUser]
  /\ UNCHANGED <<log, people, merges, overlap>>

\* Mutant: the last merge wins.
MarkMergedOver(r) ==
  /\ req[r].pc = "mark"
  /\ req' = [req EXCEPT ![r].pc = "merged", ![r].marks = TRUE]
  /\ UNCHANGED <<log, people, merges, overlap>>

\* mark_merged: the first merge wins.
MarkMerged(r) ==
  /\ req[r].pc = "mark"
  /\ \A q \in Rivals(r) : ~(q.marks /\ q.actor = req[r].actor)
  /\ req' = [req EXCEPT ![r].pc = "merged", ![r].marks = merged[req[r].actor] = NoUser]
  /\ UNCHANGED <<log, people, merges, overlap>>

\* The count the UPDATE returns.
EventsMerged(q) == Cardinality(q.took)

\* The session, and the commit of everything.
CommitSignIn(r) ==
  LET q == req[r] IN
  /\ q.pc \in {"merged", "issue"}
  /\ users' = IF q.creates THEN users \cup {q.user} ELSE users
  /\ welcomes' = IF q.creates THEN [welcomes EXCEPT ![q.user] = @ + 1] ELSE welcomes
  /\ link' = IF q.links THEN [link EXCEPT ![q.subject] = q.user] ELSE link
  /\ logins' = IF q.subject = NoSubject THEN logins
               ELSE [logins EXCEPT ![q.subject] = @ \cup {q.user}]
  /\ owner' = [b \in Beacon |-> IF b \in q.took THEN q.user ELSE owner[b]]
  /\ viewer' = IF q.hasView THEN [viewer EXCEPT ![q.actor] = q.user] ELSE viewer
  /\ merged' = IF q.marks THEN [merged EXCEPT ![q.actor] = q.user] ELSE merged
  /\ seen' = IF q.marks THEN [seen EXCEPT ![q.actor] = [events |-> q.found, view |-> q.foundView]]
             ELSE seen
  /\ mergeTold' = [mergeTold EXCEPT ![<<q.actor, q.user>>] = @ + EventsMerged(q)]
  /\ sessions' = sessions \cup {<<q.user, q.actor>>}
  /\ Finish(r)
  /\ UNCHANGED <<minted, claims, rows, views, told, by, overlap>>

-----------------------------------------------------------------------------

\* ActorService._mint
Mint(a) ==
  /\ a \notin minted
  /\ minted' = minted \cup {a}
  /\ UNCHANGED <<log, people, merged, mergeTold, seen, overlap, req>>

\* Mutant: the row of the new actor is never inserted, and so not found.
MintForUncreated(a, u) ==
  /\ a \notin minted /\ u \in users
  /\ sessions' = sessions \cup {<<u, a>>}
  /\ UNCHANGED <<log, users, link, welcomes, logins, merges, overlap, req>>

\* _actor_for_user, at a refresh that comes without an actor.
MintFor(a, u) ==
  /\ a \notin minted /\ u \in users
  /\ minted' = minted \cup {a}
  /\ merged' = [merged EXCEPT ![a] = u]
  /\ sessions' = sessions \cup {<<u, a>>}
  /\ UNCHANGED <<log, users, link, welcomes, logins, mergeTold, seen, overlap, req>>

\* A suspended account, an unknown article, a deadlock the database has found,
\* a lost connection, a crash: the transaction is rolled back.
RollBack(r) ==
  /\ req[r].pc # "idle"
  /\ Finish(r)
  /\ UNCHANGED <<log, people, merges, overlap>>

-----------------------------------------------------------------------------

Init ==
  /\ users \in SUBSET Users
  /\ minted = {} /\ merged = [a \in Actors |-> NoUser]
  /\ claims = {} /\ rows = [b \in Beacon |-> 0] /\ owner = [b \in Beacon |-> NoRow]
  /\ views = [a \in Actors |-> 0] /\ viewer = [a \in Actors |-> NoRow]
  /\ link = [s \in Subjects |-> NoUser] /\ sessions = {}
  /\ told = [b \in Beacon |-> 0] /\ by = [b \in Beacon |-> NoUser]
  /\ mergeTold = [p \in Actors \X Users |-> 0]
  /\ welcomes = [u \in Users |-> IF u \in users THEN 1 ELSE 0]
  /\ seen = [a \in Actors |-> [events |-> {}, view |-> FALSE]]
  /\ overlapped = {} /\ logins = [s \in Subjects |-> {}] /\ crossed = {}
  /\ req = [r \in Conns |-> NoRequest]

Recording(r) ==
  \/ \E b \in Beacon, u \in UserOrNone : Send(r, b, u)
  \/ UpsertView(r) \/ CommitRecord(r)
SigningIn(r) ==
  \/ \E u \in Users, a \in Actors :
       StartByCode(r, u, a) \/ \E s \in Subjects : StartByProvider(r, s, u, a)
  \/ FindLink(r) \/ FindAccount(r) \/ CreateAccount(r) \/ LinkSubject(r) \/ CommitSignIn(r)
MergingActor(r) ==
  \/ ReadActor(r) \/ ScanEvents(r) \/ (\E b \in Beacon : TakeEvent(r, b))
  \/ ScanView(r) \/ TakeView(r) \/ MarkMerged(r)

Next ==
  \/ \E r \in Conns : Recording(r) \/ SigningIn(r) \/ MergingActor(r) \/ RollBack(r)
  \/ \E a \in Actors : Mint(a) \/ \E u \in Users : MintFor(a, u)

Spec == Init /\ [][Next]_vars

-----------------------------------------------------------------------------
(* Properties.                                                             *)

\* Types, and the foreign keys of a session.
TypeOK ==
  /\ users \subseteq Users /\ minted \subseteq Actors
  /\ merged \in [Actors -> UserOrNone] /\ claims \subseteq Beacon
  /\ rows \in [Beacon -> Nat] /\ owner \in [Beacon -> UserOrNone \cup {NoRow}]
  /\ views \in [Actors -> Nat] /\ viewer \in [Actors -> UserOrNone \cup {NoRow}]
  /\ link \in [Subjects -> UserOrNone] /\ sessions \subseteq users \X minted
  /\ told \in [Beacon -> Nat] /\ by \in [Beacon -> UserOrNone]
  /\ mergeTold \in [Actors \X Users -> Nat] /\ welcomes \in [Users -> Nat]
  /\ seen \in [Actors -> [events : SUBSET Beacon, view : BOOLEAN]]
  /\ overlapped \subseteq Actors /\ logins \in [Subjects -> SUBSET Users]
  /\ crossed \subseteq Subjects
  /\ req \in [Conns -> Request]

\* However a browser repeats itself, a beacon is one row, one view and, when
\* somebody was signed in, one event for the consumers.
EachBeaconCountsOnce ==
  /\ \A b \in Beacon : /\ rows[b] = IF b \in claims THEN 1 ELSE 0
                       /\ told[b] = IF IsTold(b) /\ by[b] # NoUser THEN 1 ELSE 0
  /\ \A a \in Actors : /\ views[a] = Cardinality({b \in claims : b.actor = a /\ IsView(b)})
                       /\ viewer[a] = NoRow <=> views[a] = 0

\* The events AnonymousActorMerged says were moved to a user are exactly the
\* anonymous ones the user now owns, and of what the merge that took an actor
\* had found, nothing is left unowned.
MergeIsToldExactly ==
  /\ \A a \in Actors, u \in Users :
       mergeTold[<<a, u>>] = Cardinality({b \in Of(a) : by[b] = NoUser /\ owner[b] = u})
  /\ \A a \in Actors : merged[a] # NoUser =>
       /\ \A b \in seen[a].events : owner[b] # NoUser
       /\ seen[a].view => viewer[a] # NoUser

\* What an actor did anonymously goes to two accounts only if two sign-ins
\* were merging the actor at the same time.
SplitNeedsOverlap ==
  \A b \in Beacon : b.actor \notin overlapped /\ by[b] = NoUser /\ owner[b] \in Users
                       => owner[b] = merged[b.actor]

\* The two together: what is said of a history, and where it went.
HistoryIsAccountedFor == MergeIsToldExactly /\ SplitNeedsOverlap

\* Events, actors and subjects never change hands, however many sign-ins were at
\* the same one; a row of recent_views does, and then it goes to the user who is
\* recording a view.
HistoryStaysPut ==
  [][/\ \A b \in Beacon : owner[b] \in Users => owner'[b] = owner[b]
     /\ \A a \in Actors : merged[a] # NoUser => merged'[a] = merged[a]
     /\ \A s \in Subjects : link[s] # NoUser => link'[s] = link[s]
     /\ \A a \in Actors : viewer[a] \in Users /\ viewer'[a] # viewer[a] =>
          \E r \in Conns : /\ req[r].pc = "append" /\ req[r].hasView
                           /\ req[r].user = viewer'[a] /\ viewer'[a] \in Users]_vars

\* An account is made and announced once, and all sign-ins of a subject end in
\* the account it is linked to, whatever address the provider reports by then,
\* unless two of them were looking for it at the same time.
OneAccountPerSubject ==
  /\ \A u \in Users : welcomes[u] = IF u \in users THEN 1 ELSE 0
  /\ \A s \in Subjects \ crossed : logins[s] \subseteq {link[s]}

=============================================================================
