------------------------------ MODULE Articles ------------------------------
(***************************************************************************)
(* One article: BlogService over the repositories of blogs and sections    *)
(* and the object store, the pins other articles keep into its headings,   *)
(* and a reader of its content.                                            *)
(*                                                                         *)
(* The body of a Markdown file is its set of headings; the rest of the     *)
(* file, the front matter, is not part of the hash that names the object   *)
(* the file is stored as.  A write is a put to the store and then one      *)
(* transaction; what a transaction has done before its commit is in the    *)
(* record of its request.                                                  *)
(***************************************************************************)
EXTENDS Naturals, FiniteSets

CONSTANTS Conns,
          Anchors,    \* the headings a body may have
          Bodies,     \* the bodies a file may have, each as its set of headings
          Fronts,     \* what a file may say outside its body
          NoBody, NoFront, NoSource, NoAnchor,
          MaxEdits    \* bound: updates and archivals begun

Sources == [body : Bodies, front : Fronts]

ASSUME ArticlesAssumption ==
  /\ Bodies \subseteq SUBSET Anchors
  /\ NoBody \notin Bodies /\ NoFront \notin Fronts
  /\ NoSource \notin Sources /\ NoAnchor \notin Anchors
  /\ MaxEdits \in Nat

VARIABLES
  status,      \* column status; "none" before the row is committed
  archivedAt,  \* column archived_at is set
  body,        \* columns markdown_uri and content_sha256
  sections,    \* rows of blog_sections, each with the body it was found in
  pins,        \* headings reference_pins points at
  store,       \* the object stored for each body
  cache,       \* what one browser keeps of the content route
  edits,
  shown,       \* history: bodies the row has had while published
  farewells,   \* history: BlogArchived events since an update set the status
  req

tables == <<status, archivedAt, body, sections>>
hist   == <<edits, shown, farewells>>
vars   == <<status, archivedAt, body, sections, pins, store, cache, edits,
            shown, farewells, req>>

Statuses == {"draft", "published", "archived"}
Section  == [anchor : Anchors, of : Bodies]
NoCopy   == [etag |-> NoBody, body |-> NoBody, front |-> NoFront]
Copy     == [etag : Bodies \cup {NoBody}, body : Bodies \cup {NoBody},
             front : Fronts \cup {NoFront}]

Request == [pc     : {"idle", "put", "begin", "trim", "commit", "reread", "fetch", "done"},
            kind   : {"none", "publish", "update", "archive", "pin", "read"},
            src    : Sources \cup {NoSource},     \* the file uploaded
            status : Statuses \cup {"keep"},
            doomed : SUBSET Anchors,              \* rows the DELETE has yet to reach
            cut    : SUBSET Anchors,              \* rows deleted, not committed
            pin    : Anchors \cup {NoAnchor},     \* pin inserted, not committed
            etag   : Bodies \cup {NoBody},
            uri    : Bodies \cup {NoBody},
            answer : {"none", "not_modified"}]

NoRequest == [pc |-> "idle", kind |-> "none", src |-> NoSource, status |-> "keep",
              doomed |-> {}, cut |-> {}, pin |-> NoAnchor,
              etag |-> NoBody, uri |-> NoBody, answer |-> "none"]

HeadingsOf(b) == {[anchor |-> a, of |-> b] : a \in b}
Headings      == {s.anchor : s \in sections}

\* Mutant: the row is not updated, and so not locked, when only the file is new.
LockedByNone(r) == FALSE

\* An update or an archival holds the row of blogs from its first statement on.
Holding(q)       == q.kind \in {"update", "archive"} /\ q.pc \in {"trim", "commit"}
LockedByOther(r) == \E s \in Conns \ {r} : Holding(req[s])

Finish(r) == req' = [req EXCEPT ![r] = NoRequest]

-----------------------------------------------------------------------------
(* Writing.                                                                *)

\* publish_from_markdown draws an id nothing is stored under yet.
StartPublish(r, src, st) ==
  /\ req[r].pc = "idle" /\ status = "none"
  /\ \A s \in Conns : req[s].kind # "publish"
  /\ store' = [b \in Bodies |-> NoFront]
  /\ req' = [req EXCEPT ![r] = [NoRequest EXCEPT !.pc = "put", !.kind = "publish",
                                                 !.src = src, !.status = st]]
  /\ UNCHANGED <<tables, pins, cache, hist>>

StartUpdate(r, src, st) ==
  /\ req[r].pc = "idle" /\ status # "none" /\ edits < MaxEdits
  /\ edits' = edits + 1
  /\ req' = [req EXCEPT ![r] = [NoRequest EXCEPT
               !.pc = IF src = NoSource THEN "begin" ELSE "put",
               !.kind = "update", !.src = src, !.status = st]]
  /\ UNCHANGED <<tables, pins, store, cache, shown, farewells>>

StartArchive(r) ==
  /\ req[r].pc = "idle" /\ status # "none" /\ edits < MaxEdits
  /\ edits' = edits + 1
  /\ req' = [req EXCEPT ![r] = [NoRequest EXCEPT !.pc = "begin", !.kind = "archive"]]
  /\ UNCHANGED <<tables, pins, store, cache, shown, farewells>>

\* Mutant: a failed put is logged and its key returned.
PutLenient(r) ==
  /\ req[r].pc = "put"
  /\ \/ store' = [store EXCEPT ![req[r].src.body] = req[r].src.front]
     \/ UNCHANGED store
  /\ req' = [req EXCEPT ![r].pc = "begin"]
  /\ UNCHANGED <<tables, pins, cache, hist>>

\* The object is written before the transaction, under the hash of its body
\* alone.  A put that fails ends the request.
Put(r) ==
  /\ req[r].pc = "put"
  /\ \/ /\ store' = [store EXCEPT ![req[r].src.body] = req[r].src.front]
        /\ req' = [req EXCEPT ![r].pc = "begin"]
     \/ /\ UNCHANGED store
        /\ Finish(r)
  /\ UNCHANGED <<tables, pins, cache, hist>>

\* Mutant: the table has no CHECK on archived_at.
NeverRefused(st) == FALSE

\* A row that is archived and does not say since when is refused by a CHECK.
CheckRefuses(st) == st = "archived" /\ ~archivedAt

\* The transaction of a publication: nobody else knows the article yet.
Insert(r) ==
  LET q == req[r] IN
  /\ q.pc = "begin" /\ q.kind = "publish"
  /\ ~CheckRefuses(q.status)
  /\ status' = q.status
  /\ body' = q.src.body
  /\ sections' = HeadingsOf(q.src.body)
  /\ shown' = IF q.status = "published" THEN {q.src.body} ELSE {}
  /\ Finish(r)
  /\ UNCHANGED <<archivedAt, pins, store, cache, edits, farewells>>

\* An unknown series or category, a slug taken meanwhile, the CHECK: the
\* transaction is rolled back, and the object stays.
Refuse(r) ==
  /\ req[r].pc = "begin" /\ req[r].kind \in {"publish", "update"}
  /\ Finish(r)
  /\ UNCHANGED <<tables, pins, store, cache, hist>>

\* update_metadata, which updates the row whatever there is to change, and
\* update_content.  `doomed' is what the DELETE of replace_all will find.
LockBlog(r) ==
  LET q == req[r] IN
  /\ q.pc = "begin" /\ q.kind = "update"
  /\ ~LockedByOther(r)
  /\ ~CheckRefuses(q.status)
  /\ req' = [req EXCEPT ![r] =
               IF q.src = NoSource THEN [q EXCEPT !.pc = "commit"]
               ELSE [q EXCEPT !.pc = "trim", !.doomed = Headings \ q.src.body]]
  /\ UNCHANGED <<tables, pins, store, cache, hist>>

\* The DELETE reaches a row: it waits for a pin to that row whose transaction
\* is open.
Trim(r, a) ==
  /\ req[r].pc = "trim" /\ a \in req[r].doomed
  /\ \A s \in Conns : req[s].pin # a
  /\ req' = [req EXCEPT ![r].doomed = @ \ {a}, ![r].cut = @ \cup {a}]
  /\ UNCHANGED <<tables, pins, store, cache, hist>>

\* Mutant: the foreign key cascades.
CheckPinsNot(r) ==
  /\ req[r].pc = "trim" /\ req[r].doomed = {}
  /\ req' = [req EXCEPT ![r].pc = "commit"]
  /\ UNCHANGED <<tables, pins, store, cache, hist>>

\* The foreign key of the pins is looked at when the DELETE is done.
CheckPins(r) ==
  /\ req[r].pc = "trim" /\ req[r].doomed = {}
  /\ IF req[r].cut \cap pins # {} THEN Finish(r)
                                  ELSE req' = [req EXCEPT ![r].pc = "commit"]
  /\ UNCHANGED <<tables, pins, store, cache, hist>>

\* What replace_all leaves: the rows it neither deleted nor wrote, and the new.
Replaced(q) ==
  {s \in sections : s.anchor \notin q.cut \cup q.src.body} \cup HeadingsOf(q.src.body)

CommitUpdate(r) ==
  LET q == req[r] IN
  /\ q.pc = "commit" /\ q.kind = "update"
  /\ status' = IF q.status = "keep" THEN status ELSE q.status
  /\ body' = IF q.src = NoSource THEN body ELSE q.src.body
  /\ sections' = IF q.src = NoSource THEN sections ELSE Replaced(q)
  /\ shown' = IF status' = "published" THEN shown \cup {body'} ELSE shown
  /\ farewells' = IF q.status = "keep" THEN farewells ELSE 0
  /\ Finish(r)
  /\ UNCHANGED <<archivedAt, pins, store, cache, edits>>

\* Mutant: the UPDATE does not test the status.
ArchivableAlways == TRUE

\* The WHERE clause of archive(), on the row as it is once the lock is granted.
Archivable == status # "archived"

ArchiveBlog(r) ==
  /\ req[r].pc = "begin" /\ req[r].kind = "archive"
  /\ ~LockedByOther(r)
  /\ IF Archivable THEN req' = [req EXCEPT ![r].pc = "commit"] ELSE Finish(r)
  /\ UNCHANGED <<tables, pins, store, cache, hist>>

\* The row and its BlogArchived event.
CommitArchive(r) ==
  /\ req[r].pc = "commit" /\ req[r].kind = "archive"
  /\ status' = "archived" /\ archivedAt' = TRUE
  /\ farewells' = farewells + 1
  /\ Finish(r)
  /\ UNCHANGED <<body, sections, pins, store, cache, edits, shown>>

-----------------------------------------------------------------------------
(* Pins from another article.                                              *)

\* create(): the INSERT locks the section it points at, so it waits for an
\* update that has deleted it, and is refused if that commits.  A refusal
\* changes nothing and is not a step.
PinHeading(r, a) ==
  /\ req[r].pc = "idle" /\ a \in Headings \ pins
  /\ \A s \in Conns : a \notin req[s].cut /\ req[s].pin # a
  /\ req' = [req EXCEPT ![r] = [NoRequest EXCEPT !.pc = "commit", !.kind = "pin", !.pin = a]]
  /\ UNCHANGED <<tables, pins, store, cache, hist>>

CommitPin(r) ==
  /\ req[r].pc = "commit" /\ req[r].kind = "pin"
  /\ pins' = pins \cup {req[r].pin}
  /\ Finish(r)
  /\ UNCHANGED <<tables, store, cache, hist>>

Unpin(a) ==
  /\ a \in pins
  /\ pins' = pins \ {a}
  /\ UNCHANGED <<tables, store, cache, hist, req>>

-----------------------------------------------------------------------------
(* A reader, who is nobody's admin, and the copy the browser keeps.         *)

\* The first get_by_slug of the content route, and the conditional answer.
ReadEtag(r) ==
  /\ req[r].pc = "idle" /\ \A s \in Conns : req[s].kind # "read"
  /\ req' = [req EXCEPT ![r] =
       CASE status # "published" ->
              [NoRequest EXCEPT !.pc = "done", !.kind = "read"]
         [] status = "published" /\ cache.etag = body ->
              [NoRequest EXCEPT !.pc = "done", !.kind = "read", !.answer = "not_modified"]
         [] status = "published" /\ cache.etag # body ->
              [NoRequest EXCEPT !.pc = "reread", !.kind = "read", !.etag = body]]
  /\ UNCHANGED <<tables, pins, store, cache, hist>>

\* get_content reads the row again.
ReadRow(r) ==
  /\ req[r].pc = "reread"
  /\ req' = [req EXCEPT ![r] = IF status = "published"
                               THEN [@ EXCEPT !.pc = "fetch", !.uri = body]
                               ELSE [@ EXCEPT !.pc = "done"]]
  /\ UNCHANGED <<tables, pins, store, cache, hist>>

Fetch(r) ==
  LET q == req[r] IN
  /\ q.pc = "fetch"
  /\ cache' = [etag |-> q.etag, body |-> q.uri, front |-> store[q.uri]]
  /\ req' = [req EXCEPT ![r].pc = "done"]
  /\ UNCHANGED <<tables, pins, store, hist>>

Reply(r) ==
  /\ req[r].pc = "done"
  /\ Finish(r)
  /\ UNCHANGED <<tables, pins, store, cache, hist>>

\* The process dies or the connection drops.
Crash(r) ==
  /\ req[r].pc \notin {"idle", "done"}
  /\ Finish(r)
  /\ UNCHANGED <<tables, pins, store, cache, hist>>

-----------------------------------------------------------------------------

Init ==
  /\ status = "none" /\ archivedAt = FALSE /\ body = NoBody
  /\ sections = {} /\ pins = {}
  /\ store = [b \in Bodies |-> NoFront]
  /\ cache = NoCopy
  /\ edits = 0 /\ shown = {} /\ farewells = 0
  /\ req = [r \in Conns |-> NoRequest]

Publishing(r) ==
  \/ \E src \in Sources, st \in Statuses : StartPublish(r, src, st)
  \/ Put(r) \/ Insert(r) \/ Refuse(r)
Updating(r) ==
  \/ \E src \in Sources \cup {NoSource}, st \in Statuses \cup {"keep"} :
       StartUpdate(r, src, st)
  \/ LockBlog(r) \/ (\E a \in Anchors : Trim(r, a)) \/ CheckPins(r) \/ CommitUpdate(r)
Archiving(r) == StartArchive(r) \/ ArchiveBlog(r) \/ CommitArchive(r)
Pinning(r)   == (\E a \in Anchors : PinHeading(r, a)) \/ CommitPin(r)
Reading(r)   == ReadEtag(r) \/ ReadRow(r) \/ Fetch(r)

Next ==
  \/ \E r \in Conns : \/ Publishing(r) \/ Updating(r) \/ Archiving(r) \/ Pinning(r)
                      \/ Reading(r) \/ Reply(r) \/ Crash(r)
  \/ \E a \in Anchors : Unpin(a)

Spec == Init /\ [][Next]_vars

-----------------------------------------------------------------------------
(* Properties.                                                             *)

\* Types, and the CHECK constraint on archived articles.
TypeOK ==
  /\ status \in Statuses \cup {"none"} /\ archivedAt \in BOOLEAN
  /\ body \in Bodies \cup {NoBody} /\ (body = NoBody <=> status = "none")
  /\ status = "archived" => archivedAt
  /\ sections \subseteq Section /\ pins \subseteq Anchors
  /\ store \in [Bodies -> Fronts \cup {NoFront}]
  /\ cache \in Copy
  /\ edits \in 0 .. MaxEdits /\ shown \subseteq Bodies /\ farewells \in Nat
  /\ req \in [Conns -> Request]

\* Whoever reads the row, now or a while ago, finds the object it names: no
\* failure or crash between the store and the database leaves a row without.
EveryRowHasItsObject ==
  /\ body # NoBody => store[body] # NoFront
  /\ \A r \in Conns : req[r].uri # NoBody => store[req[r].uri] # NoFront

\* However updates race, the headings on record are those of the body the row
\* names, and their positions are positions in that body.
SectionsMatchBody == body # NoBody => sections = HeadingsOf(body)

\* A pin leads to a heading of the body its readers are served, although pins
\* are stored while that body is being replaced.
PinsLandInTheBody == pins # {} => body # NoBody /\ pins \subseteq body

\* The two together: what is kept beside a body belongs to it.
BodyIsWhole == SectionsMatchBody /\ PinsLandInTheBody

\* Seen from outside, an article is revised in single steps, none of which
\* drops a heading somebody points at.
Register == INSTANCE Shelf
ImplementsShelf == Register!Spec

\* Two archivals of one article tell its consumers once.
ArchivedIsToldOnce == farewells <= 1

\* Nobody but the admin is ever served a body the article had only as a draft.
OnlyPublishedBodiesAreServed == cache.body # NoBody => cache.body \in shown

\* The two together: what a reader asks for is there, and was published.
ReadersAreServed == EveryRowHasItsObject /\ OnlyPublishedBodiesAreServed

=============================================================================
