----------------------------- MODULE Discussion -----------------------------
(***************************************************************************)
(* The comments under articles: InteractionService.comment, edit_comment   *)
(* and delete_comment over SqlCommentRepository, and the seed script that  *)
(* starts a sample thread under an article nobody has commented on.        *)
(*                                                                         *)
(* A reader has one comment of their own under an article, by a partial    *)
(* unique index over what is not deleted; everything else is a reply, and  *)
(* a composite foreign key makes the parent of a reply a root of the same  *)
(* article.  Deleting leaves a tombstone.                                  *)
(*                                                                         *)
(* A request is one READ COMMITTED transaction: the tables show what is    *)
(* committed, the record of a request what it has written so far.  The     *)
(* script is a process of its own, whose calls are such requests too.      *)
(***************************************************************************)
EXTENDS Naturals, FiniteSets

CONSTANTS Sessions,      \* connections that serve readers
          Scripts,    \* processes that run the seed script
          Articles, Readers, Admin,
          SeedAuthor, \* the reader the sample thread is attributed to
          SeedGuest,  \* the one who replies in it
          MaxComments,   \* bound: comments ever written
          MaxAsked,      \* bound: requests of readers and the admin
          MaxRuns,       \* bound: runs of the script
          NoArticle, NoReader

Ids  == 1 .. MaxComments
NoId == 0

\* A row of comments.  A root has no parent; deletedBy is set by deleting.
Comment == [author    : Readers,
            blog      : Articles,
            parent    : Ids \cup {NoId},
            text      : {"plain", "sample"},   \* the script's words, or other ones
            deletedBy : Readers \cup {Admin, NoReader}]
NoComment == [author |-> NoReader, blog |-> NoArticle, parent |-> NoId, text |-> "plain",
              deletedBy |-> NoReader]

ASSUME DiscussionAssumption ==
  /\ Sessions \cap Scripts = {}
  /\ {SeedAuthor, SeedGuest} \subseteq Readers /\ Admin \notin Readers
  /\ NoReader \notin Readers \cup {Admin} /\ NoArticle \notin Articles
  /\ MaxComments \in Nat /\ MaxAsked \in Nat /\ MaxRuns \in Nat

VARIABLES
  published,   \* articles that are published
  comments,   \* the table
  talk,       \* the request on each connection
  seed,       \* how far each run of the script has come
  asked, runs

discussionVars == <<published, comments, talk, seed, asked, runs>>

Clients == Sessions \cup Scripts

Posting == [pc  : {"idle", "insert", "edit", "delete", "commit"},
            by  : Readers \cup {Admin, NoReader},   \* the principal
            id  : Ids \cup {NoId},
            row : Comment \cup {NoComment}]         \* what the row will be

NoPosting == [pc |-> "idle", by |-> NoReader, id |-> NoId, row |-> NoComment]

\* A run looks for comments, then stores a root and a reply to it.
Run == [pc   : {"off", "look", "root", "reply"},
        blog : Articles \cup {NoArticle},
        root : Ids \cup {NoId}]
NoRun == [pc |-> "off", blog |-> NoArticle, root |-> NoId]

Used       == {i \in Ids : comments[i] # NoComment}
Live(i)    == i \in Used /\ comments[i].deletedBy = NoReader
Root(i)    == i \in Used /\ comments[i].parent = NoId
Others(p)  == Clients \ {p}

\* A new uuid: not in the table, nor in a transaction.
Fresh == {i \in Ids \ Used : \A p \in Clients : talk[p].id # i}
NewId == CHOOSE i \in Fresh : \A j \in Fresh : i <= j

\* Mutant: the script goes on whatever it is answered.
AnswerSwallowed(p, stored) ==
  /\ talk' = [talk EXCEPT ![p] = NoPosting]
  /\ seed' = IF p \in Sessions THEN seed
             ELSE [seed EXCEPT ![p] = IF @.pc = "root"
                                      THEN [@ EXCEPT !.pc = "reply", !.root = talk[p].id]
                                      ELSE NoRun]

\* What the caller does with the outcome: a route answers it; the script goes
\* on with a comment that was stored, and ends with an exception otherwise.
Answer(p, stored) ==
  /\ talk' = [talk EXCEPT ![p] = NoPosting]
  /\ seed' = IF p \in Sessions THEN seed
             ELSE [seed EXCEPT ![p] = IF stored /\ @.pc = "root"
                                      THEN [@ EXCEPT !.pc = "reply", !.root = talk[p].id]
                                      ELSE NoRun]

-----------------------------------------------------------------------------
(* Writing.                                                                *)

\* _assert_readable, on the row read first.
Readable(b) == b \in published

\* comment(): the article has to be published when it is read.
Begin(p, u, b, parent, text) ==
  /\ talk[p].pc = "idle"
  /\ IF Readable(b)
     THEN /\ Fresh # {}
          /\ talk' = [talk EXCEPT ![p] = [pc |-> "insert", by |-> u, id |-> NewId,
               row |-> [author |-> u, blog |-> b, parent |-> parent, text |-> text,
                        deletedBy |-> NoReader]]]
          /\ UNCHANGED seed
     ELSE Answer(p, FALSE)
  /\ UNCHANGED <<published, comments, runs>>

\* The live root of a reader that the index holds against another one.
Standing(u, b) == {i \in Used : Root(i) /\ Live(i) /\ comments[i].author = u
                                         /\ comments[i].blog = b}

\* Mutant: the index looks at committed rows only.
MustWaitNever(p) == FALSE

\* The INSERT of a root waits for a transaction that has written one of the
\* same reader and article, or is taking the standing one down.
MustWait(p) ==
  LET row == talk[p].row IN
  /\ row.parent = NoId
  /\ \E q \in Others(p) :
       /\ talk[q].pc = "commit"
       /\ talk[q].row.parent = NoId /\ talk[q].row.author = row.author
       /\ talk[q].row.blog = row.blog
       /\ talk[q].id \in Used => talk[q].row.deletedBy # NoReader

\* comments_one_root_per_user_blog, and comments_parent_is_root: the parent of
\* a reply is a root of the same article, deleted or not.
Refused(row) ==
  IF row.parent = NoId
  THEN Standing(row.author, row.blog) # {}
  ELSE ~(Root(row.parent) /\ comments[row.parent].blog = row.blog)

\* translate_integrity_error: the violation becomes a domain error.
Refuse(p) == Answer(p, FALSE)

Insert(p) ==
  /\ talk[p].pc = "insert"
  /\ ~MustWait(p)
  /\ IF Refused(talk[p].row)
     THEN Refuse(p)
     ELSE talk' = [talk EXCEPT ![p].pc = "commit"] /\ UNCHANGED seed
  /\ UNCHANGED <<published, comments, asked, runs>>

Commit(p) ==
  /\ talk[p].pc = "commit"
  /\ comments' = [comments EXCEPT ![talk[p].id] = talk[p].row]
  /\ Answer(p, TRUE)
  /\ UNCHANGED <<published, asked, runs>>

-----------------------------------------------------------------------------
(* Editing and deleting.                                                   *)

\* update_body and soft_delete have no statement before their UPDATE.
StartTouch(p, u, i, what) ==
  /\ talk[p].pc = "idle" /\ i \in Used
  /\ talk' = [talk EXCEPT ![p] = [NoPosting EXCEPT !.pc = what, !.by = u, !.id = i]]
  /\ UNCHANGED <<published, comments, seed, runs>>

\* Mutant: once granted the lock, the statement goes by the row it had found.
MayTouchFound(q) == q.by = comments[q.id].author \/ (q.by = Admin /\ q.pc = "delete")

\* The WHERE clause, looked at again once the row's lock is granted: the
\* caller's own comment, or any if the admin deletes it, and not deleted.
MayTouch(q) ==
  /\ Live(q.id)
  /\ q.by = comments[q.id].author \/ (q.by = Admin /\ q.pc = "delete")

Touched(q) == IF q.pc = "delete" THEN [comments[q.id] EXCEPT !.deletedBy = q.by]
                                 ELSE [comments[q.id] EXCEPT !.text = "plain"]

Touch(p) ==
  LET q == talk[p] IN
  /\ q.pc \in {"edit", "delete"}
  /\ \A s \in Others(p) : ~(talk[s].pc = "commit" /\ talk[s].id = q.id)
  /\ IF MayTouch(q)
     THEN talk' = [talk EXCEPT ![p].pc = "commit", ![p].row = Touched(q)] /\ UNCHANGED seed
     ELSE Answer(p, FALSE)
  /\ UNCHANGED <<published, comments, asked, runs>>

\* A lost connection or a crash: the transaction is rolled back.
RollBackPosting(p) ==
  /\ talk[p].pc # "idle"
  /\ Answer(p, FALSE)
  /\ UNCHANGED <<published, comments, asked, runs>>

-----------------------------------------------------------------------------
(* The seed script.                                                        *)

StartSeed(s, b) ==
  /\ seed[s].pc = "off" /\ runs < MaxRuns
  /\ runs' = runs + 1
  /\ seed' = [seed EXCEPT ![s] = [NoRun EXCEPT !.pc = "look", !.blog = b]]
  /\ UNCHANGED <<published, comments, talk, asked>>

\* list_comments: a page of the article's live roots, empty if there is none.
Discussed(b) == \E i \in Used : Root(i) /\ Live(i) /\ comments[i].blog = b

Look(s) ==
  /\ seed[s].pc = "look"
  /\ seed' = [seed EXCEPT ![s] = IF Discussed(@.blog) THEN NoRun
                                 ELSE [@ EXCEPT !.pc = "root"]]
  /\ UNCHANGED <<published, comments, talk, asked, runs>>

PostRoot(s) ==
  /\ seed[s].pc = "root"
  /\ Begin(s, SeedAuthor, seed[s].blog, NoId, "sample")
  /\ UNCHANGED asked

\* Mutant: the reply goes to whatever thread its author has by then.
ParentStanding(s) == IF Standing(SeedAuthor, seed[s].blog) = {} THEN seed[s].root
                     ELSE CHOOSE i \in Standing(SeedAuthor, seed[s].blog) : TRUE

\* `root.id', as comment() returned it.
Parent(s) == seed[s].root

PostReply(s) ==
  /\ seed[s].pc = "reply"
  /\ Begin(s, SeedGuest, seed[s].blog, Parent(s), "sample")
  /\ UNCHANGED asked

\* The process is killed between two of its calls.
Kill(s) ==
  /\ seed[s].pc # "off" /\ talk[s].pc = "idle"
  /\ seed' = [seed EXCEPT ![s] = NoRun]
  /\ UNCHANGED <<published, comments, talk, asked, runs>>

-----------------------------------------------------------------------------

\* archive(), and an update that publishes the article again.
SetStatus(b) ==
  /\ published' = IF b \in published THEN published \ {b} ELSE published \cup {b}
  /\ UNCHANGED <<comments, talk, seed, asked, runs>>

DiscussionInit ==
  /\ published = Articles
  /\ comments = [i \in Ids |-> NoComment]
  /\ talk = [p \in Clients |-> NoPosting]
  /\ seed = [s \in Scripts |-> NoRun]
  /\ asked = 0 /\ runs = 0

\* A reader replies to a comment they have been shown.
Asking(c) ==
  /\ asked < MaxAsked /\ asked' = asked + 1
  /\ \/ \E u \in Readers, b \in Articles, i \in Used \cup {NoId} : Begin(c, u, b, i, "plain")
     \/ \E u \in Readers \cup {Admin}, i \in Ids, what \in {"edit", "delete"} :
          StartTouch(c, u, i, what)
Serving(p) == Insert(p) \/ Touch(p) \/ Commit(p) \/ RollBackPosting(p)
Seeding(s) ==
  \/ \E b \in Articles : StartSeed(s, b)
  \/ Look(s) \/ PostRoot(s) \/ PostReply(s) \/ Kill(s)

DiscussionNext ==
  \/ \E c \in Sessions : Asking(c)
  \/ \E p \in Clients : Serving(p)
  \/ \E s \in Scripts : Seeding(s)
  \/ \E b \in Articles : SetStatus(b)

DiscussionSpec == DiscussionInit /\ [][DiscussionNext]_discussionVars

-----------------------------------------------------------------------------
(* Properties.                                                             *)

\* Types; what is written is somebody's; and a run replies to a root that was
\* stored.
DiscussionTypeOK ==
  /\ published \subseteq Articles
  /\ comments \in [Ids -> Comment \cup {NoComment}]
  /\ talk \in [Clients -> Posting]
  /\ seed \in [Scripts -> Run]
  /\ asked \in 0 .. MaxAsked /\ runs \in 0 .. MaxRuns
  /\ \A p \in Clients : talk[p].pc \in {"insert", "commit"} => talk[p].row # NoComment
  /\ \A s \in Scripts : seed[s].pc = "reply" => seed[s].root \in Used

\* Doc 01's two rules: a reader has one comment under an article that is not a
\* reply, however posting and deleting race, and a reply hangs from a root of
\* its own article.
OneVoicePerReader ==
  /\ \A i, j \in Used : Root(i) /\ Root(j) /\ Live(i) /\ Live(j)
       /\ comments[i].author = comments[j].author /\ comments[i].blog = comments[j].blog => i = j
  /\ \A i \in Used : ~Root(i) => Root(comments[i].parent)
                                 /\ comments[comments[i].parent].blog = comments[i].blog

\* What a reader has deleted stays deleted and as it was: an edit or another
\* deletion that was waiting for the row leaves it alone.
TombstonesStay ==
  [][\A i \in Used : ~Live(i) => comments'[i] = comments[i]]_discussionVars

\* A reply of the sample thread is shown once, however often the script is
\* run, run twice at a time, or killed half way.
Shown(i) == Live(i) /\ ~Root(i) /\ Live(comments[i].parent)
SampleIsShownOnce ==
  \A i, j \in Used : Shown(i) /\ Shown(j) /\ comments[i].text = "sample"
    /\ comments[j].text = "sample" /\ comments[i].blog = comments[j].blog => i = j

=============================================================================
