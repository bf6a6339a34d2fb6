# TLA+ models of the blog platform

The platform is a FastAPI application over PostgreSQL, an object store (MinIO)
and an e-mail provider, with one background process, the outbox worker. Its
code is in `src/src/blogs`; paths below are relative to that directory unless
they start with `src/`.

## 1. Inventory

| Component | State | Operations | Talks to |
|---|---|---|---|
| Refresh-token registry (`services/auth_service.py:595-686, 737-769`, `repository/identity.py:391-471`) | `refresh_tokens` | sign-in, refresh, sign-out of a device, sign-out everywhere | row locks of the table; `users` for status |
| Outbox and relay (`repository/outbox.py`, `workers/outbox.py`) | `outbox_events`; the worker's flags, its LISTEN connection, the advisory lock | record, claim, publish, fail, bury, wait, wake | every service records events in its own transaction |
| One-time codes (`services/auth_service.py:109-361`) | `otp_challenges`, `users` | request, verify | mail after the commit; outbox; registry |
| Admin console (`services/auth_service.py:441-591`, `api/routers/admin_console.py`) | `admin_login_attempts`, `users.password_hash` | login, change password, reset script | registry; one-time codes of the same account |
| Actor merge (`services/auth_service.py:692-735`, `repository/engagement.py`) | `actors`, `engagement_events`, `recent_views` | claim an anonymous history at sign-in | every sign-in; engagement |
| Authoring and reading (`services/blog_service.py`, `repository/content.py`) | `blogs`, `blog_sections`, `blog_categories`, objects | publish, update, archive, read, content | object store before the commit; outbox; pins |
| Comments, markers, catalogs, pins (`services/interaction_service.py`, `repository/interaction.py`) | their tables | comment, edit, delete, mark, save, create and fill collections, pin | headings of articles and roots of threads through foreign keys; unique indexes |
| Lists (`repository/content.py:252-317`, `repository/interaction.py:143-185, 406-446`) | none; a cursor the client keeps | a page of articles, threads or items | whatever is written meanwhile |
| Engagement log (`services/engagement_service.py`) | `engagement_events` by month, `recent_views` | record, list | outbox for two kinds of event |
| OAuth (`services/oauth_flow_service.py`, `auth_service.py:365-437`) | `oauth_identities` | start, complete | provider; registry; merge |
| Principals, policy, tokens (`services/actor_service.py`, `policy.py`, `adapters/tokens`) | `actors.last_seen_at` | resolve, mint, touch | stateless otherwise |
| Announcements (`services/announce_service.py`, `adapters/email`) | none | announce | provider |
| Taxonomy, analytics, admin reads | none of their own | queries, upserts by the admin | |
| Start-up (`bootstrap.py`, `database/migrator.py`, `database/reset_admin_password.py`) | `schema_migrations`, the partitions of `engagement_events`, the administrator | migrate, cut partitions, make the administrator, reset | advisory lock; console |
| Seed script (`database/seed.py`) | none of its own | readers, taxonomy, articles, sample threads | the services, as any caller |

Every service method runs in one or two transactions opened by
`SqlUnitOfWorkFactory.begin` (`repository/uow.py:104-113`): the commit is a clean
exit of the block, and *any* exception inside it rolls everything back. That
one rule is behind most of what is hard here. An error reported to the caller
must sometimes leave a record behind (a counted guess, a logged failure, a
revoked family), so those blocks are left normally and the error is raised after
them; whether each of them got this right, at every interleaving, is what several
of the properties ask.

The isolation level is READ COMMITTED: a statement sees what was committed when
it started, so state read in one statement can be stale in the next, and an
`UPDATE` that finds its row locked waits and looks again at the new version.

**What makes each part correct**, in short:

- registry: one live token per family; a rotation is all or nothing; "reused" is
  answered only after a revocation that holds; nobody signs somebody else out;
- outbox: nothing recorded is lost, nothing is sent twice without a crash, nothing
  is given up early or retried for ever, no wake-up is lost;
- codes: one session per code, no free guess, no guess past the limit, the
  newest unused code is the one that works;
- console: failures are on record before they are answered, the lockout cannot be
  outrun by more than the parallelism, a changed password ends older sessions;
- engagement and merge: a beacon counts once however often it is sent; a history
  belongs to one account, all that a merge finds moves, and nothing moves twice;
- OAuth: a provider's subject keeps the account it was linked to;
- authoring: the row points at an object that exists and holds the bytes of its
  hash, headings are those of the body, a pinned heading exists, an event tells
  every change once;
- interaction: one comment of their own per reader and article, replies under a
  root of the same article, tombstones stay; one default collection per user;
- lists: pages neither repeat nor skip a row while rows come and go;
- start-up: migrators agree on a schema, every month that was foreseen has its
  partition, one administrator whose configured password is set once;
- seed: running it again, or twice at once, shows nothing twice.

## 2. The modules

| Module | Models |
|---|---|
| `SessionLedger` | what the registry promises: open, rotate and kill, each in one step |
| `RefreshTokens` | the registry over transactions; `ImplementsLedger` is the refinement |
| `EventRelay` | what the outbox promises: record, send, settle (at least once) |
| `Outbox` | table, worker, listener and locks; `ImplementsEventRelay` is the refinement |
| `OtpSignIn` | codes for one address |
| `AdminLogin` | console sign-in, password change, reset script, the same account's codes |
| `Shelf` | what authoring promises of one article: publish, revise, archive and pin, each in one step |
| `Articles` | one article over rows, headings, pins, the object store and a browser's copy; `ImplementsShelf` is the refinement |
| `Engagement` | what one browser records, and the sign-ins (by code, by a provider) that find or make an account and take the browser's history over |
| `Listing` | one keyset-paged list (articles of a status, threads, items of a collection) read while it is written |
| `Catalogs` | the collections of one user and the lazily made default one |
| `Discussion` | comments, replies, edits and deletions under articles, and the seed script's sample threads |
| `Startup` | migrators, starts of the API, the reset script and the calendar |
| `MC*` | symmetry sets and the checkouts `Startup` deploys, nothing else; constants are set in the `.cfg` files |
| `RefreshTokensProofs`, `OutboxProofs`, `OtpSignInProofs`, `AdminLoginProofs`, `EngagementProofs`, `ArticlesProofs`, `StartupProofs` | theorems and proofs about the module each is named after |
| `InteractionProofs` | the same for `Catalogs`, `Listing` and `Discussion` |

The modules meet at tables, not at calls. `Engagement` ends a sign-in where
`RefreshTokens` begins one (`sessions` is what `_issue_pair` hands out);
`AdminLogin` has the code sign-in of `OtpSignIn` as one of its requests, because
the two meet at the row of `users`; `Catalogs` and `Discussion` see of `Articles`
only whether an article is published; the events `Engagement` and `Articles`
count are rows `Outbox` relays. `Discussion` composes two programs: the API, and a
script whose every call is a request like a reader's. `Startup` composes
three. The mutants, the plausible bugs each property is tried against, stand next
to the definitions they change and are marked as such.

### How a transaction is modelled

A request is a record `req[r]` of the connection `r` that serves it, with a `pc`
naming the next statement. What a transaction has written and not committed is
in that record: `held` (rows updated and therefore locked), `new` (the row to be
inserted), `burned` (the effect of an `UPDATE` not yet visible). One action is one
SQL statement, together with the Python that surrounds it up to the next `await`
on the database. A commit moves the record's contents into the table variables in
one action. A raise inside the block is the same action with nothing moved
(`Finish`). `Crash` ends a request wherever it stands: the process dies, the
connection drops, or a statement timeout fires; the effect is the same.

A row lock is granted when no other request has the row in `held`; the statement
then acts on the *current* row, which is what READ COMMITTED does after a wait. A
multi-row `UPDATE` (`revoke_family`, `revoke_all_for_user`) is a snapshot
(`ScanRows`), one `LockRow` per row in any order, and a commit; two of them can
deadlock and `DeadlockAbort` is the server's detector.

### RefreshTokens

`issued`, `family`, `owner`, `replacedBy` and `revoked` are the columns of
`refresh_tokens` (`consumed_at` and `replaced_by_id` are set together and are one
variable, as the table's CHECK says); `expired` and `suspended` stand for the
clock and for `users.status`. `PresentToken`, `ConsumePresented`, `IssuePair` and
`CommitIssue` are `AuthService.refresh`; the branch to `"scan"` is the second
transaction it opens when the token was spent. `SignOut` and `SignOutEverywhere`
are `AuthService.revoke`; the change of an admin password revokes with the same
statement. A token's secret is its id: `find_by_hash` finds it exactly when it
was issued, and `NoToken` stands for an unknown secret. A refresh mints an actor
(`_actor_for_user`), which no property reads.

### Outbox

`recorded`, `published`, `dead`, `attempts` and `due` are columns of
`outbox_events`; `sent` counts what left through `_publish`. A worker's record
holds its batch (`todo`, `ok`, `failed`), the asyncio events `stopping` and
`woken`, and its LISTEN connection (`listening`, `notices`). The backoff has no
durations: a failed event stops being due and `Mature` makes it due again.
`heard` is a history variable (events the worker was woken for and nobody has
claimed since). `LoseAdvisoryLock` is the lock's session dropping, which the
worker does not notice; a second worker can then start.

### OtpSignIn

`born` orders the challenges as `created_at` does. `RequestCode`, `CommitCode` and
`Deliver` are `request_otp` with the mail after the commit. `VerifyCode` takes the
statement's snapshot, `MatchCode` is the locking sub-select of
`consume_if_matching` and its `UPDATE`, with `Burns` the SQL `CASE` and `Verdict`
the Python that reads the row back. `FindAccount` and `CommitSignIn` are
`_complete_otp_sign_in`; the unique index refuses the second of two concurrent
creations. A code that a newer one has replaced works again once the newer one is
spent, because only unused challenges are looked at; `NewestCodeOnly` allows that.
`signedIn` and `told` are history variables.

### AdminLogin

A row of `admin_login_attempts` is a record with the clock's stamp; `compared`
says, for the property only, whether the password was looked at. `floor` is the
start of the lockout window and moves forward on its own. `version` is which
password is set. `rowLock` is the lock on the admin's row of `users`: it is taken
by `set_password` and by `mark_email_verified`, and *not* by the password sign-in.
A session is the first token of its family; a rotation of that token during the
change is the race `refresh_race` shows and is not repeated here.

### Articles

One article, identified by its id. The body of a Markdown file is modelled as its
set of headings, and the rest of the file (the front matter) as a value of its
own, because the two are hashed differently: `content_sha256`, and with it the
object's key, is the hash of the body alone, while the object is the whole file.
So `store` maps a body to the front matter last stored with it. `body` stands for
`markdown_uri` and `content_sha256`, which are written together. A row of
`blog_sections` carries the body it was parsed from, which stands for its
ordinal and its offsets.

`StartPublish` to `Insert` is `publish_from_markdown`, `StartUpdate` to
`CommitUpdate` is `update`: the put comes first, then one transaction whose first
write (`update_metadata`, `LockBlog`) locks the row of `blogs`. `Trim` is the
`DELETE` of `replace_all` reaching one row, where it waits for a pin to that row
whose transaction is open; `CheckPins` is the foreign key at the end of that
statement; `Replaced` is what the following inserts leave. `PinHeading` takes the
foreign key's lock on the heading and so waits for an update that has deleted it.
`CheckRefuses` is the CHECK on archived rows, `Refuse` everything else that
rolls a transaction back (an unknown series or category, a slug taken
meanwhile). `ReadEtag`, `ReadRow` and `Fetch` are the content route for a reader
who is not the admin: it reads the row, answers the conditional request, reads
the row again and then fetches the object. A published article is given a new id
and its objects live under it, so `store` starts empty with each attempt.

`shown` and `farewells` are history variables: bodies the row had while published,
and `BlogArchived` events since an update last set the status.

### Engagement

One browser's beacons are pairs of an actor and a client key; the key's set says
what kind of event it is (`Clicks` and `Completes` are views, `Completes` and
`Saves` are told to the consumers when somebody is signed in). `Send` is `append`'s
claim in `engagement_dedupe`, which waits for an open claim of the same key,
`UpsertView` the upsert of `recent_views`, `CommitRecord` the row, the events and
the commit. An access token names a user and an actor (`sessions`).

`StartByCode` is `_complete_otp_sign_in` from the account on (the code itself is
`OtpSignIn`), `StartByProvider` is `complete_oauth` with a subject and whatever
verified address the provider reports today. `FindLink`, `FindAccount`,
`CreateAccount` and `LinkSubject` are its statements. `ReadActor` to `MarkMerged`
are `_merge_actor`: the two `UPDATE`s each take a snapshot (`ScanEvents`,
`ScanView`) and then rows one by one (`TakeEvent`, `TakeView`), waiting for the
rows others hold and looking at `user_id IS NULL` again. A code sign-in also holds
the row of `users` (`mark_email_verified`), so two of them for one account do not
overlap; two for different accounts do. `by`, `seen`, `overlapped`, `logins` and
`crossed` are history variables; `mergeTold` counts, per pair of an actor and a user,
the events that `AnonymousActorMerged` has said were moved. Rows of different articles never meet, so there
is one.

### Listing

`BeginWrite` is the moment a stamp is taken (the service's clock, or the start of
the transaction) and the write it belongs to commits later, so rows do not
become visible in the order of their keys. `Above` is the `ORDER BY`, `BelowCursor`
the row comparison of the `WHERE` clause, which is not true of a NULL, and
`ReadPage` the whole page with the extra row that tells whether there is another.
A cursor is the last row's key; for a draft never published there is no stamp to
write into it, and `.isoformat()` of `None` ends the request (`"failed"`).

### Catalogs

One user's rows of `catalogs` are pairs of a name (as the index compares it:
case and spaces aside) and `is_default`. An `INSERT` waits for an uncommitted row
it conflicts with by either unique index (`Waits`), then finds it or not
(`Taken`): `Ensure` does nothing on a conflict, `Create` is refused.
`ReadDefault` is the `SELECT` after it, with the assertion.

### Discussion

A comment is a row with its author, article, parent and, once deleted, who deleted
it. A connection's request is a record of `talk`. `Begin` reads the article,
`Insert` is the one statement of `create_root` or `create_reply` with what its
unique index and foreign key decide, `Touch` the one `UPDATE` of an edit or a
deletion. The script (`Look`, `PostRoot`, `PostReply`) is `_seed_comments` for one
article with one reply; it calls the service through a connection of its own, goes
on with what was stored and ends with an exception otherwise (`Answer`), and can
be killed between calls.

### Startup

A process is a migrator, a start of the API or the reset script, which starts the
same way. `applied` is `schema_migrations`, a checkout a function from versions to
checksums. `Apply` is one file and its row in one transaction; version `Needed`
stands for the migrations a start relies on and cuts partitions as
`004_engagement.sql` does. `Look` and `Cut` are `ensure_engagement_partitions`: what
it found missing, and the statement as a whole, which fails if another start was
first or the default partition has rows of the month. `LookForAdmin` to
`SeedPassword` are `_seed_admin` and `_seed_admin_password`, two transactions.
Every start reads settings of its own: `named` says whether they give an
`admin_email`, `configured` whether they give an `admin_initial_password`. `bare`
is a history variable: the administrator was made by a start without the latter.

## 3. What is checked

| Run | Instance | Shows |
|---|---|---|
| `refresh_safety` | 2 requests, 3 tokens, 2 users; 1 expiry, 1 suspension at a time | `FamilyIsAChain`, `ReuseAnswerIsDurable`, `RevocationStands`, and that the registry implements `SessionLedger` |
| `refresh_liveness` | the same with 1 user | `EveryRequestEnds` |
| `refresh_race` | the same with 1 user | **violated**: `ReuseKillsFamily` |
| `outbox` | 2 events, 2 workers, batch 2, 2 attempts, 1 crash or stop | `AttemptsAreAccountedFor`, `NotificationIsNotSleptOn`, `EveryEventIsSettled`, and that it implements `EventRelay` |
| `otp` | 2 requests, 2 challenges, limit 2, 4 guesses | `OneSignInPerCode`, `GuessesAreCounted`, `NewestCodeOnly` |
| `admin` | 2 requests, limit 1, 3 sign-ins, 1 change | `FailuresAreCounted`, `OtpSessionsRespectChange` |
| `articles` | 2 requests, 2 headings, all 4 bodies, 2 front matters, 2 edits | `ReadersAreServed`, `BodyIsWhole`, `ArchivedIsToldOnce`, and that it implements `Shelf` |
| `engagement` | 2 requests, 1 browser, 2 accounts, 1 subject, a click, a completion, a save | `EachBeaconCountsOnce`, `HistoryIsAccountedFor`, `OneAccountPerSubject`, `HistoryStaysPut` |
| `listing` | 3 rows, 2 stamps, pages of 1 or 2 | `ScanIsExact` |
| `catalogs` | 3 requests, 2 names, 1 article | `FirstSaveConverges` |
| `startup` | 2 processes, each with or without the settings for the administrator, 2 migrations, 3 checkouts (one edits a migration), 4 months, 1 ahead | `UpgradesAgree`, `DefaultRowsNeedALapse`, `InitialPasswordOnce` |
| `discussion` | 2 connections, 2 scripts, 1 article, 2 readers and the admin, 4 comments, 3 requests, 2 runs | `OneVoicePerReader`, `SampleIsShownOnce`, `TombstonesStay` |

Each passing run also checks the `TypeOK` of its module (`ListingTypeOK`,
`DiscussionTypeOK`), which says of the variables what the tables' constraints say of the columns. Some properties are
conjunctions, whose parts have names and comments of their own in the modules:
`FamilyIsAChain`, `RevocationStands`, `AttemptsAreAccountedFor`,
`FailuresAreCounted`, `ReadersAreServed`, `BodyIsWhole`, `HistoryIsAccountedFor`.

**Bounds.** Two requests at a time produce every pairwise race; connections are
reused, so a third request can follow the first while the second is still in
flight (the trace of `refresh_race` needs that). Three tokens are a family of
three, or a family of two beside another family. Two events and a batch of two
let one batch mix success and failure. `MaxEnds` bounds crashes and stops together,
and one is enough: `AttemptsAreAccountedFor` counts crashes, and what a stop and a
restart can leave behind a crash leaves too. Four guesses exceed the limit of one
challenge and reach the other. One change of password is what the sign-ins around
it race with. Two headings give bodies that drop a heading, add one, swap them
and keep both; two edits are two updates, two archivals or one of each racing,
with pins and a reader on the other connection.

In `engagement` two accounts are what a history can be split between, and every
kind of beacon that the code treats differently is there once; a fourth beacon
adds only one more of a kind. In `listing` three rows and pages of one or two put
a page's end between rows of one stamp, and the scan has up to three pages.
`catalogs` needs the third request for two saves and the creation of a collection
called like the default one. In `startup` one month ahead and four months
make a lapse that is longer than the partitions cut, and the third checkout
meets a history it contradicts. In `discussion` four comments are a sample thread
and a reader's, or two roots and their replies; two runs of the script are one
killed and one after it, or two at a time.

The largest runs have about 2.5 (`startup`), 1.8 (`engagement`), 1.6 (`discussion`),
1.4 (`listing`) and 1.0 (`outbox`, with liveness) million states and each takes minutes at most.
Instances one size up were run once and agreed: `Engagement` with four beacons (15
million states) and with three requests over two beacons (8.3 million),
`Discussion` with five comments (3.4 million). The theorems of section 4 depend on
none of these numbers.

`NotificationIsNotSleptOn` excepts the commit of a full batch that failed as a whole.
In `outbox` a batch may hold the whole backlog, so that what it shows there is that no
wake-up is lost between drain, wait and clear, without exception. Three events and
batches of two, where the exception happens (disagreement 3), were run once without
crashes (551,157 states up to symmetry) and agreed, and the theorem has no bound. A
new event is due at once: the worker's clock and the database's are one, as they are
in `compose.yaml`, which runs both on one machine.

**Fairness.** `RefreshTokens`: weak fairness of the statements that never wait,
strong fairness of those that wait for a row lock, because PostgreSQL grants row
locks in the order they were asked for. Clients, clocks and crashes are not fair.
`Outbox`: weak fairness of a running worker (its wait ends by the poll interval at
the latest), of restarting one when none holds the advisory lock, and of backoffs
running out. Nothing is assumed of the listener, so no notification need ever
arrive. The other modules have no liveness property: no request of theirs waits in
a cycle, or, where it could (two requests that each hold what the other asks for),
the server's deadlock detector ends one of them, which is `RollBack` or `Crash`. A
process of `Startup` waits only for the migrator's lock or for the insert of an
administrator, whose holders wait for nothing.

**Deadlock** is checked in every run; clients can always send another request, or
the answer of the last one is still to be delivered.

### Disagreements between the code and its documentation

Shown by a run:

1. `refresh_race`: after a reuse is reported, a successor that was inserted but
   not committed when `revoke_family` took its snapshot stays live.
   `auth_service.py:644-647` says all of the family dies.

Behaviours of the models that need no search to see, and so have no run:

2. A code requested with purpose `signup` is mailed and can never be verified:
   `verify_otp` looks for `LOGIN` only (`auth_service.py:220`). In `OtpSignIn` such
   a row is never among the rows a verification sees.
3. A full batch in which everything failed is taken for an empty one, "nothing to do"
   (`workers/outbox.py:82-84`), and the worker sleeps although it was notified of
   the due events behind it. They are settled (`EveryEventIsSettled`), only a poll
   interval later. `NotificationIsNotSleptOn` says that there is no other way.
4. A password sign-in that compared the old password before a change commits its
   session after it (`auth_service.py:574-591`). That is why
   `OtpSessionsRespectChange` speaks of one-time codes only.
5. An update whose file differs only in its front matter replaces the stored bytes
   under an unchanged key and ETag (`adapters/markdown/parser.py:123`,
   `blog_service.py:191-195`), although `blog_service.py:310-312` says "the bytes
   never change under a given hash". It happens at the put, so an update that is
   then refused does it too.
6. The console's list of articles fails when a page ends at an article that was
   never published, because its cursor needs `published_at`
   (`repository/content.py:311`). `ScanIsExact` says that no public list can.
7. A save that names no collection fails on an assertion when the user has made a
   collection called "Saved" of their own (`repository/interaction.py:326-339`).
   `FirstSaveConverges` says that nothing else makes it fail.
8. `ensure_engagement_partitions` is said to need no coordination
   (`004_engagement.sql:77-78`), and two starts that find the same month missing
   fail one of them (`"lost_race"`). A deployment that runs longer than the months
   it cut ahead puts rows into the default partition, and a start in such
   a month then fails (`"blocked"`), although `bootstrap.py:268-270` says it "keeps
   itself ahead of the calendar".
9. An administrator whose start died before the password was set, or was not
    configured with one, stays without: the warning at `bootstrap.py:332-335` asks
    for a re-seed that `_seed_admin`, which returns when there is an admin, never
    does, whatever later starts are configured with. And the reset script, run
    first, has its password replaced by the configured one if another start is
    between the two transactions.
10. `_merge_actor` catches domain errors so that a failed merge does not cost the
    sign-in, but a failed statement has aborted the transaction the sign-in is in.
11. The right password of a suspended admin leaves no record of the attempt
    (`auth_service.py:467`, `:556`).
12. A draft published by an update is announced as `BlogUpdated` and never as
    `BlogPublished` (`blog_service.py:244`).
13. `seed.py:339-341` says that a real discussion is never joined by a seeded one:
    a reader may comment between the look and the post. A run killed after the
    root leaves the replies unseeded for good, because the article then has a
    comment.
14. `engagement_service.py:154-156` says that after a merge an actor's views and its
    user's agree. An anonymous view that commits between the merge's look at
    `recent_views` and its commit keeps no user, nor does the first view of an article
    that is recorded anonymously later on. `HistoryIsAccountedFor` therefore speaks of what the merge had found.

## 4. What is proved

Every invariant, action property and refinement of section 3 is a theorem; only
the two liveness properties are not. Each proof is by an inductive invariant
(`IInv`, and `LockInv` beside it in `AdminLoginProofs`), with `Init => IInv` and
`IInv /\ [Next]_vars => IInv'`, one lemma per action or group of actions. The
assumptions are the named ones on the constants. They bound no set by a number;
those that say a set is finite are about sets that are counted: the connections in
`AdminAssumption` (a lockout that is to be overrun by at most their number needs
that number), connections and codes in `OtpAssumption` (guesses in flight are
counted, and a newest code needs finitely many), connections and beacons in
`EngagementAssumption` (views and moved events are counted), rows in
`ListingAssumption`.

- **`RefreshTokensProofs`** (any numbers of connections, tokens, users).
  That a family has one head is not inductive: a rotation about to commit keeps it
  so only because it holds the lock of a row that is still live, because
  no other request holds it, and because the id it drew is nobody else's. `Sound`
  says what one request may hold at each statement, `Apart` what two may not
  share. Theorems: `TypeCorrect`, `Chain`, `DurableAnswer`, `Stands` (with
  `RevokedStaysSpent` and `Scope` for its parts), and `Refinement` (every commit is
  one step of the ledger, everything else a stutter).
- **`OutboxProofs`** (any events, workers, batch size, limits). `Exclusive` (the
  batches of two workers are disjoint) follows from the row locks and not from
  the advisory lock; `SentOK` says that an event neither published nor in a live
  batch owes each delivery to a crash. For notifications, an event a worker was
  woken for stays due, pending and in nobody's batch until somebody claims it
  (`HeardOK`), since an event that has never failed is due (`FreshOK`); so a claim that leaves such
  an event behind has filled its batch, and any that came later came with a wake-up
  that is still set (`FullOK`). A worker that then goes to sleep on one published
  nothing of a full batch (`FallsAsleep`), which is disagreement 3 and nothing else.
  Theorems: `TypeCorrect`, `Accounted`, `Refinement`, `NotSleptOn`.
- **`OtpSignInProofs`** (any codes, connections, limits). Neither property is
  inductive. `Current` says what a verification may rely on at each statement
  once it holds the lock of a challenge (the challenge is stored and unused, and
  burned exactly when the guess was right), `Exclusive` that it alone holds it, and
  `Budget` that the attempts counted and the verifications under way are together
  no more than the guesses made, which is what bounds `attempts`. That the sub-select finds
  a newest challenge at all (`NewestExists`) is an argument on well-founded sets.
  Theorems: `TypeCorrect`, `OneSignIn`, `EveryGuessCounts`, `NewestFirst`.
- **`AdminLoginProofs`** (any connections, sign-ins, changes). A transaction
  that has updated the row of `users` is the only one, so a one-time-code
  sign-in commits before the revocation's snapshot or after the change. For the
  lockout, `Room` adds up: guesses on record in the window and guesses compared
  and not yet on record are together fewer than the limit plus the connections. A
  comparison is let through only while the record is below the limit, and
  the request that makes it is then one of those in flight; recording moves it from
  one summand to the other; the window only moves forward (`Windows`), and a
  success only empties it. Theorems: `TypeCorrect`, `OtpRespectsChange`, `Lockout`.
- **`EngagementProofs`** (any connections, actors, accounts, subjects, keys). `Shape`
  says what a request carries at each statement, `Grounds` what it has found in the
  tables and relies on (an event it has taken over is unowned, a beacon it records
  is unclaimed, an account it makes does not exist), and `Apart` what two requests
  never have at once. Where a transaction holds a lock these follow from the lock.
  Where it holds none - an actor being merged, a subject being looked up - the
  histories `overlapped` and `crossed` record that somebody else was at it, and
  `Grounds` claims something only of the rest; without these clauses neither
  `SplitNeedsOverlap` nor `OneAccountPerSubject` is inductive. The commits then turn
  what a request knew into columns: `RecordCounts` and `SignInMerges` do the
  arithmetic of the cardinalities that counters are compared with. Theorems:
  `TypeCorrect`, `CountedOnce`, `Accounted`, `OneAccount`, `StaysPut`.
- **`ArticlesProofs`** (any connections, headings, bodies, files, edits). The
  agreement of headings and body is not inductive: it holds at the commit of an
  update because the rows it has deleted or has yet to delete are exactly the
  headings of the body in force that its own body lacks, which stays true because
  it holds the row of `blogs` from before it looked; and a pin survives because a
  pin in flight is never among the rows deleted (`Sound`, `Apart`). Theorems:
  `TypeCorrect`, `BodyAgrees`, `Served`, `ToldOnce`, `Refinement`.
- **`InteractionProofs`**, in three parts that share nothing.
  *Catalogs* (any requests, names, articles). No row in a transaction conflicts
  with a committed one or with one of another transaction (`CatalogsApart`,
  `CatalogsSound`), because an insert waits for what it might conflict with.
  Theorems: `CatalogsTypeCorrect`, `Converges`.
  *Listing* (any rows, stamps, page sizes). Between two pages the scan has
  returned nothing below its cursor, and every row that was in the list all
  the while is below it or has been returned (`Progress`); the rest is that the
  `ORDER BY` is a strict order and that rows without a stamp come first in it.
  Theorems: `ListingTypeCorrect`, `Exactness`.
  *Discussion* (any connections, scripts, articles, readers, numbers of comments
  and runs). Two roots about to commit are of different readers or articles
  (`DiscussionApart`), because the `INSERT` of one has waited for the other; a row
  being edited stays live because its lock is held, and a parent stays a root
  (`DiscussionSound`). For the sample thread, a run that is about to reply has a root
  of its own that nobody has replied to (`Scripted`, `ThreadsApart`), and every sample
  reply is the only one of a root by the script's author (`OneSample`); as that
  author has one live root under an article, the thread is shown once. Theorems:
  `DiscussionTypeCorrect`, `OneVoice`, `SampleOnce`, `Tombstones`.
- **`StartupProofs`** (any processes, versions, releases, months). A migrator that
  holds the lock has an exact list of what is pending; a month seen to has its
  partition from then on; one transaction at a time is making the administrator
  and it alone goes on to the password. Theorems: `TypeCorrect`, `Upgrades`,
  `Lapse`, `Seeding`.

Only model-checked: the liveness properties `EveryRequestEnds` and
`EveryEventIsSettled` (fairness and `ENABLED` are outside the prover's reach).

## 5. Not modelled, and why

- **Markers**: one upsert after one check of the anchor, with nothing that ties
  the two tables together; a marker whose heading is gone is what every later
  update leaves as well, and the code documents only the check.
- **Slugs, series, categories, and the events `BlogPublished` and `BlogUpdated`**:
  columns and rows written in the transactions `Articles` has, read by nothing it
  has. A slug taken meanwhile is one of the reasons of `Refuse`. What follows from them is
  disagreement 12 above, and the two slugs that two runs of the seed script can
  give one file.
- **The seed script's readers, taxonomy and articles**: sequences of the calls the
  other modules have, each idempotent by a lookup.
- **Parsing of Markdown**: a function over text. The suffix that makes a repeated
  heading's anchor unique can itself be another heading's anchor
  (`adapters/markdown/parser.py:162`); bodies are sets of headings here, whose
  anchors differ.
- **The exchange with an OAuth provider, e-mail, announcements**: external, or
  without state. The signed `state` parameter is checked and not kept.
- **Transport, policy predicates, token signing, aggregating queries, taxonomy
  upserts by the only admin, configuration and deployment**: stateless, or one
  statement by one person. No file of the repository starts the outbox worker; the
  model assumes somebody does. The development bypass code is off, as `Settings`
  demands in production.
- **Renaming and deleting a collection, deleting an account**: no service calls
  `rename` or `delete` of the collections' repository (`interaction.py:342-361`),
  and no operation deletes an account.

What would come next: the events of authoring and the choice of slugs in
`Articles`, markers beside `Discussion`, and an abstract specification of the
merge (an actor's history has one owner, changed in one step) for `Engagement` to
implement, as the registry, the outbox and authoring have theirs.
