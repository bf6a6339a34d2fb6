--------------------------- MODULE ArticlesProofs ---------------------------
(* Theorems about an article, for any number of connections and edits and   *)
(* any sets of headings, bodies and files.                                  *)
EXTENDS Articles, TLAPS

(***************************************************************************)
(* The inductive invariant.  An update holds the row of blogs from before  *)
(* it looks at the headings until its commit, so the headings it has yet   *)
(* to delete or has deleted are those of the body in force that its own    *)
(* body lacks; and a pin in flight keeps its heading out of that set.      *)
(***************************************************************************)

\* What a request may rely on, given the tables, the store and the history.
SoundIn(q, st, ar, b, pn, sto, sh) ==
  /\ q.kind = "publish" => q.src \in Sources /\ st = "none"
  /\ q.kind \in {"update", "archive", "pin"} => st # "none"
  /\ q.pc = "put" => q.kind \in {"publish", "update"} /\ q.src \in Sources
  /\ q.src # NoSource => q.kind \in {"publish", "update"}
  /\ q.kind = "publish" => q.status # "keep"
  /\ q.pc \in {"begin", "trim", "commit"} /\ q.src # NoSource => sto[q.src.body] # NoFront
  /\ q.pc = "trim" => q.kind = "update" /\ q.src # NoSource
  /\ q.pc \in {"trim", "commit"} /\ q.kind = "update" =>
       /\ q.src # NoSource => q.doomed \cup q.cut = b \ q.src.body
       /\ q.status = "archived" => ar
  /\ q.pc = "commit" /\ q.kind = "update" => q.doomed = {} /\ q.cut \cap pn = {}
  /\ q.doomed # {} => q.pc = "trim"
  /\ q.cut # {} => Holding(q)
  /\ q.pc = "commit" => q.kind \in {"update", "archive", "pin"}
  /\ q.pc = "commit" /\ q.kind = "archive" => st # "archived"
  /\ q.pc = "commit" /\ q.kind = "pin" => q.pin # NoAnchor
  /\ q.pin # NoAnchor => q.kind = "pin" /\ q.pin \in b
  /\ q.pc \in {"reread", "fetch"} => st # "none" /\ q.etag \in Bodies
  /\ q.pc = "fetch" => q.uri # NoBody /\ q.uri \in sh
  /\ q.uri # NoBody => st # "none" /\ sto[q.uri] # NoFront

Sound(q)     == SoundIn(q, status, archivedAt, body, pins, store, shown)
SoundNext(q) == SoundIn(q, status', archivedAt', body', pins', store', shown')

\* What two requests may not share.
Apart(q, p) ==
  /\ ~(Holding(q) /\ Holding(p))
  /\ ~(q.kind = "publish" /\ p.kind = "publish")
  /\ q.pin \notin p.cut /\ p.pin \notin q.cut

\* The tables, the store and the histories against each other.
DataOK ==
  /\ status = "none" => sections = {} /\ pins = {} /\ cache.body = NoBody /\ ~archivedAt
  /\ body # NoBody => store[body] # NoFront
  /\ status = "published" => body \in shown
  /\ farewells = 0 \/ (farewells = 1 /\ status = "archived")
  /\ SectionsMatchBody /\ PinsLandInTheBody /\ OnlyPublishedBodiesAreServed

IInv ==
  /\ TypeOK
  /\ DataOK
  /\ \A r \in Conns : Sound(req[r])
  /\ \A r, s \in Conns : r # s => Apart(req[r], req[s])

LEMMA Idle ==
  /\ NoRequest \in Request
  /\ SoundNext(NoRequest)
  /\ ~Holding(NoRequest)
  /\ NoRequest.kind = "none" /\ NoRequest.cut = {} /\ NoRequest.pin = NoAnchor
  BY DEF NoRequest, Request, SoundNext, SoundIn, Holding

LEMMA InitInv == Init => IInv
<1> SUFFICES ASSUME Init PROVE IInv
  OBVIOUS
<1> USE ArticlesAssumption DEF Init
<1>1. TypeOK
  <2>1. req \in [Conns -> Request]
    BY Idle
  <2>2. cache \in Copy
    BY DEF Copy, NoCopy
  <2>3. edits \in 0 .. MaxEdits /\ farewells \in Nat
    OBVIOUS
  <2> QED
    BY <2>1, <2>2, <2>3 DEF TypeOK, Statuses
<1>2. DataOK
  BY DEF DataOK, SectionsMatchBody, PinsLandInTheBody, OnlyPublishedBodiesAreServed, NoCopy
<1>3. ASSUME NEW r \in Conns PROVE Sound(req[r])
  BY DEF Sound, SoundIn, NoRequest, Holding
<1>4. ASSUME NEW r \in Conns, NEW s \in Conns PROVE Apart(req[r], req[s])
  BY DEF Apart, NoRequest, Holding
<1> QED
  BY <1>1, <1>2, <1>3, <1>4 DEF IInv

(***************************************************************************)
(* A step of one request, to the record q.                                 *)
(***************************************************************************)

\* The new tables are consistent, every other request stays sound, and q is
\* sound and apart from all of them.
LEMMA RequestStep ==
  ASSUME IInv, NEW r \in Conns, NEW q, req' = [req EXCEPT ![r] = q], q \in Request,
         TypeOK', DataOK',
         SoundNext(q),
         \A s \in Conns \ {r} : SoundNext(req[s]),
         \A s \in Conns \ {r} : Apart(q, req[s])
  PROVE  IInv'
<1>1. req \in [Conns -> Request] /\ req' \in [Conns -> Request]
  BY DEF IInv, TypeOK
<1>2. \A s \in Conns : req'[s] = IF s = r THEN q ELSE req[s]
  BY <1>1
<1>3. ASSUME NEW s \in Conns PROVE SoundNext(req'[s])
  BY <1>2
<1>4. ASSUME NEW s \in Conns, NEW t \in Conns, s # t PROVE Apart(req'[s], req'[t])
  <2>1. CASE s # r /\ t # r
    BY <1>2, <2>1, <1>4 DEF IInv
  <2>2. CASE s = r \/ t = r
    BY <1>2, <2>2, <1>4 DEF Apart
  <2> QED
    BY <2>1, <2>2
<1>5. ASSUME NEW s \in Conns PROVE Sound(req[s])'
  BY <1>3, <1>5 DEF Sound, SoundNext
<1>6. ASSUME NEW s \in Conns, NEW t \in Conns, s # t PROVE Apart(req[s], req[t])'
  BY <1>4, <1>6 DEF Apart, Holding
<1> QED
  BY <1>5, <1>6 DEF IInv

\* A request with nothing in hand is apart from any other.
LEMMA ApartFromIdle ==
  ASSUME IInv, NEW s \in Conns, NEW q, q.cut = {}, q.pin = NoAnchor, ~Holding(q),
         q.kind # "publish"
  PROVE  Apart(q, req[s])
<1>1. req[s].cut \subseteq Anchors
  BY DEF IInv, TypeOK, Request
<1> QED
  BY <1>1, ArticlesAssumption DEF Apart

\* The typing of the tables carries over when none of them changes.
LEMMA Unchanged ==
  ASSUME IInv, UNCHANGED <<tables, pins, store, cache, shown, farewells>>,
         edits' \in 0 .. MaxEdits, req' \in [Conns -> Request]
  PROVE  /\ TypeOK' /\ DataOK'
         /\ \A s \in Conns : SoundNext(req[s])
<1>1. TypeOK'
  BY DEF IInv, TypeOK, tables
<1>2. DataOK'
  BY DEF IInv, DataOK, SectionsMatchBody, PinsLandInTheBody, OnlyPublishedBodiesAreServed,
         tables
<1>3. ASSUME NEW s \in Conns PROVE SoundNext(req[s])
  BY DEF IInv, Sound, SoundNext, tables
<1> QED
  BY <1>1, <1>2, <1>3

\* A step that changes nothing but its own request.
LEMMA QuietStep ==
  ASSUME IInv, NEW r \in Conns, NEW q, req' = [req EXCEPT ![r] = q], q \in Request,
         UNCHANGED <<tables, pins, store, cache, shown, farewells>>,
         edits' \in 0 .. MaxEdits,
         Sound(q),
         \A s \in Conns \ {r} : Apart(q, req[s])
  PROVE  IInv'
<1>1. req' \in [Conns -> Request]
  BY DEF IInv, TypeOK
<1>2. /\ TypeOK' /\ DataOK'
      /\ \A s \in Conns : SoundNext(req[s])
  BY <1>1, Unchanged
<1>3. SoundNext(q)
  BY DEF Sound, SoundNext, tables
<1> QED
  BY <1>2, <1>3, RequestStep

\* A request that ends, in whatever way, without a trace.
LEMMA FinishStep ==
  ASSUME IInv, NEW r \in Conns, Finish(r), UNCHANGED <<tables, pins, store, cache, hist>>
  PROVE  IInv'
<1>1. Sound(NoRequest)
  BY DEF Sound, SoundIn, NoRequest, Holding
<1>2. \A s \in Conns \ {r} : Apart(NoRequest, req[s])
  BY Idle, ApartFromIdle
<1>3. edits' \in 0 .. MaxEdits /\ UNCHANGED <<shown, farewells>>
  BY DEF IInv, TypeOK, hist
<1> QED
  BY <1>1, <1>2, <1>3, Idle, QuietStep DEF Finish

(***************************************************************************)
(* The actions that change nothing but their request.                      *)
(***************************************************************************)

LEMMA Ending ==
  ASSUME IInv, NEW r \in Conns, Refuse(r) \/ Reply(r) \/ Crash(r)
  PROVE  IInv'
  BY FinishStep DEF Refuse, Reply, Crash

LEMMA StartUpdateInv ==
  ASSUME IInv, NEW r \in Conns, NEW src \in Sources \cup {NoSource},
         NEW st \in Statuses \cup {"keep"}, StartUpdate(r, src, st)
  PROVE  IInv'
<1> DEFINE q == [NoRequest EXCEPT !.pc = IF src = NoSource THEN "begin" ELSE "put",
                                  !.kind = "update", !.src = src, !.status = st]
<1>1. q \in Request
  BY Idle DEF Request, NoRequest
<1>2. /\ q.kind = "update" /\ q.src = src /\ q.doomed = {} /\ q.cut = {} /\ q.pin = NoAnchor
      /\ q.uri = NoBody /\ q.pc = IF src = NoSource THEN "begin" ELSE "put"
  BY DEF NoRequest
<1>3. /\ req' = [req EXCEPT ![r] = q]
      /\ UNCHANGED <<tables, pins, store, cache, shown, farewells>>
      /\ status # "none"
  BY DEF StartUpdate
<1>4. edits' \in 0 .. MaxEdits
  BY ArticlesAssumption DEF StartUpdate, IInv, TypeOK
<1> HIDE DEF q
<1>5. Sound(q)
  BY <1>2, <1>3, ArticlesAssumption DEF Sound, SoundIn, Holding
<1>6. \A s \in Conns \ {r} : Apart(q, req[s])
  BY <1>2, ApartFromIdle DEF Holding
<1> QED
  BY <1>1, <1>3, <1>4, <1>5, <1>6, QuietStep

LEMMA StartArchiveInv ==
  ASSUME IInv, NEW r \in Conns, StartArchive(r)
  PROVE  IInv'
<1> DEFINE q == [NoRequest EXCEPT !.pc = "begin", !.kind = "archive"]
<1>1. q \in Request
  BY Idle DEF Request, NoRequest
<1>2. /\ q.kind = "archive" /\ q.src = NoSource /\ q.doomed = {} /\ q.cut = {}
      /\ q.pin = NoAnchor /\ q.uri = NoBody /\ q.pc = "begin"
  BY DEF NoRequest
<1>3. /\ req' = [req EXCEPT ![r] = q]
      /\ UNCHANGED <<tables, pins, store, cache, shown, farewells>>
      /\ status # "none"
  BY DEF StartArchive
<1>4. edits' \in 0 .. MaxEdits
  BY ArticlesAssumption DEF StartArchive, IInv, TypeOK
<1> HIDE DEF q
<1>5. Sound(q)
  BY <1>2, <1>3 DEF Sound, SoundIn, Holding
<1>6. \A s \in Conns \ {r} : Apart(q, req[s])
  BY <1>2, ApartFromIdle DEF Holding
<1> QED
  BY <1>1, <1>3, <1>4, <1>5, <1>6, QuietStep

\* The tables of a state the invariant holds in, as the actions read them.
LEMMA Facts ==
  ASSUME IInv, NEW r \in Conns
  PROVE  /\ req[r] \in Request /\ Sound(req[r])
         /\ \A s \in Conns \ {r} : Apart(req[r], req[s])
         /\ status # "none" => body \in Bodies /\ body \subseteq Anchors
         /\ status # "none" => sections = HeadingsOf(body) /\ Headings = body
<1>1. status # "none" => body \in Bodies /\ body # NoBody /\ body \subseteq Anchors
  BY ArticlesAssumption DEF IInv, TypeOK
<1>2. status # "none" => sections = HeadingsOf(body)
  BY <1>1 DEF IInv, DataOK, SectionsMatchBody
<1>3. status # "none" => Headings = body
  <2> SUFFICES ASSUME status # "none" PROVE Headings = body
    OBVIOUS
  <2>1. ASSUME NEW a \in Headings PROVE a \in body
    BY <1>2, <2>1 DEF Headings, HeadingsOf
  <2>2. ASSUME NEW a \in body PROVE a \in Headings
    <3>1. [anchor |-> a, of |-> body] \in sections
      BY <1>2, <2>2 DEF HeadingsOf
    <3>2. [anchor |-> a, of |-> body].anchor = a
      OBVIOUS
    <3> QED
      BY <3>1, <3>2 DEF Headings
  <2> QED
    BY <2>1, <2>2
<1> QED
  BY <1>1, <1>2, <1>3 DEF IInv, TypeOK

\* The lock on the row of blogs is what keeps the headings an update has yet
\* to delete those of the body in force.
LEMMA LockBlogInv ==
  ASSUME IInv, NEW r \in Conns, LockBlog(r)
  PROVE  IInv'
<1> DEFINE old == req[r]
           q == IF old.src = NoSource THEN [old EXCEPT !.pc = "commit"]
                ELSE [old EXCEPT !.pc = "trim", !.doomed = Headings \ old.src.body]
<1>1. /\ old \in Request /\ Sound(old) /\ old.pc = "begin" /\ old.kind = "update"
      /\ ~CheckRefuses(old.status) /\ ~LockedByOther(r)
      /\ \A s \in Conns \ {r} : Apart(old, req[s])
  BY Facts DEF LockBlog
<1>2. status # "none" /\ old.cut = {} /\ old.pin = NoAnchor /\ old.uri \in Bodies \cup {NoBody}
  BY <1>1 DEF Sound, SoundIn, Holding, Request
<1>3. Headings = body /\ body \subseteq Anchors
  BY <1>2, Facts
<1>4. /\ q.kind = "update" /\ q.src = old.src /\ q.cut = {} /\ q.pin = NoAnchor
      /\ q.status = old.status /\ q.uri = old.uri /\ q.etag = old.etag
      /\ q.pc = IF old.src = NoSource THEN "commit" ELSE "trim"
      /\ old.src # NoSource => q.doomed = body \ old.src.body
      /\ old.src = NoSource => q.doomed = old.doomed
  BY <1>1, <1>2, <1>3 DEF Request
<1>5. q \in Request
  BY <1>1, <1>3 DEF Request
<1>6. /\ req' = [req EXCEPT ![r] = q]
      /\ UNCHANGED <<tables, pins, store, cache, shown, farewells>>
      /\ edits' \in 0 .. MaxEdits
  BY DEF LockBlog, hist, IInv, TypeOK
<1> HIDE DEF q
<1>7. Sound(q)
  <2>1. old.src # NoSource => store[old.src.body] # NoFront
    BY <1>1 DEF Sound, SoundIn
  <2>2. q.status = "archived" => archivedAt
    BY <1>1, <1>4 DEF CheckRefuses
  <2>3. old.uri # NoBody => store[old.uri] # NoFront
    BY <1>1 DEF Sound, SoundIn
  <2>4. q.pc = "commit" => q.doomed = {}
    BY <1>1, <1>4 DEF Sound, SoundIn
  <2> QED
    BY <2>1, <2>2, <2>3, <2>4, <1>2, <1>4 DEF Sound, SoundIn, Holding
<1>8. \A s \in Conns \ {r} : Apart(q, req[s])
  <2>1. \A s \in Conns \ {r} : ~Holding(req[s])
    BY <1>1 DEF LockedByOther
  <2>2. \A s \in Conns \ {r} : q.pin \notin req[s].cut /\ req[s].pin \notin q.cut
    BY <1>1, <1>2, <1>4 DEF Apart
  <2> QED
    BY <1>4, <2>1, <2>2 DEF Apart
<1> QED
  BY <1>5, <1>6, <1>7, <1>8, QuietStep

LEMMA TrimInv ==
  ASSUME IInv, NEW r \in Conns, NEW a \in Anchors, Trim(r, a)
  PROVE  IInv'
<1> DEFINE old == req[r]
           q == [old EXCEPT !.doomed = @ \ {a}, !.cut = @ \cup {a}]
<1>1. /\ old \in Request /\ Sound(old) /\ old.pc = "trim" /\ a \in old.doomed
      /\ \A s \in Conns \ {r} : Apart(old, req[s]) /\ req[s].pin # a
  BY Facts DEF Trim
<1>2. old.kind = "update" /\ old.src # NoSource /\ old.pin = NoAnchor
  BY <1>1 DEF Sound, SoundIn
<1>3. /\ q.kind = old.kind /\ q.pc = old.pc /\ q.src = old.src /\ q.status = old.status
      /\ q.pin = old.pin /\ q.etag = old.etag /\ q.uri = old.uri
      /\ q.doomed = old.doomed \ {a} /\ q.cut = old.cut \cup {a}
  BY <1>1 DEF Request
<1>4. q \in Request
  BY <1>1 DEF Request
<1>5. /\ req' = [req EXCEPT ![r] = q]
      /\ UNCHANGED <<tables, pins, store, cache, shown, farewells>>
      /\ edits' \in 0 .. MaxEdits
  BY <1>1 DEF Trim, hist, IInv, TypeOK
<1> HIDE DEF q
<1>6. Sound(q)
  <2>1. q.doomed \cup q.cut = old.doomed \cup old.cut
    BY <1>1, <1>3
  <2> QED
    BY <1>1, <1>2, <1>3, <2>1 DEF Sound, SoundIn, Holding
<1>7. \A s \in Conns \ {r} : Apart(q, req[s])
  <2>1. \A s \in Conns \ {r} : NoAnchor \notin req[s].cut
    BY ArticlesAssumption DEF IInv, TypeOK, Request
  <2> QED
    BY <1>1, <1>2, <1>3, <2>1 DEF Apart, Holding
<1> QED
  BY <1>4, <1>5, <1>6, <1>7, QuietStep

LEMMA CheckPinsInv ==
  ASSUME IInv, NEW r \in Conns, CheckPins(r)
  PROVE  IInv'
<1> DEFINE old == req[r]
           q == [old EXCEPT !.pc = "commit"]
<1>1. CASE old.cut \cap pins # {}
  BY <1>1, FinishStep DEF CheckPins
<1>2. CASE old.cut \cap pins = {}
  <2>1. /\ old \in Request /\ Sound(old) /\ old.pc = "trim" /\ old.doomed = {}
        /\ \A s \in Conns \ {r} : Apart(old, req[s])
    BY Facts DEF CheckPins
  <2>2. old.kind = "update" /\ old.src # NoSource
    BY <2>1 DEF Sound, SoundIn
  <2>3. /\ q.kind = old.kind /\ q.pc = "commit" /\ q.src = old.src /\ q.status = old.status
        /\ q.pin = old.pin /\ q.etag = old.etag /\ q.uri = old.uri
        /\ q.doomed = {} /\ q.cut = old.cut
    BY <2>1 DEF Request
  <2>4. q \in Request
    BY <2>1 DEF Request
  <2>5. /\ req' = [req EXCEPT ![r] = q]
        /\ UNCHANGED <<tables, pins, store, cache, shown, farewells>>
        /\ edits' \in 0 .. MaxEdits
    BY <1>2, <2>1 DEF CheckPins, hist, IInv, TypeOK
  <2> HIDE DEF q
  <2>6. Sound(q)
    BY <1>2, <2>1, <2>2, <2>3 DEF Sound, SoundIn, Holding
  <2>7. \A s \in Conns \ {r} : Apart(q, req[s])
    BY <2>1, <2>2, <2>3 DEF Apart, Holding
  <2> QED
    BY <2>4, <2>5, <2>6, <2>7, QuietStep
<1> QED
  BY <1>1, <1>2

LEMMA ArchiveBlogInv ==
  ASSUME IInv, NEW r \in Conns, ArchiveBlog(r)
  PROVE  IInv'
<1> DEFINE old == req[r]
           q == [old EXCEPT !.pc = "commit"]
<1>1. CASE ~Archivable
  BY <1>1, FinishStep DEF ArchiveBlog
<1>2. CASE Archivable
  <2>1. /\ old \in Request /\ Sound(old) /\ old.pc = "begin" /\ old.kind = "archive"
        /\ ~LockedByOther(r)
        /\ \A s \in Conns \ {r} : Apart(old, req[s])
    BY Facts DEF ArchiveBlog
  <2>2. /\ q.kind = "archive" /\ q.pc = "commit" /\ q.src = old.src /\ q.status = old.status
        /\ q.pin = old.pin /\ q.etag = old.etag /\ q.uri = old.uri
        /\ q.doomed = old.doomed /\ q.cut = old.cut
    BY <2>1 DEF Request
  <2>3. q \in Request
    BY <2>1 DEF Request
  <2>4. /\ req' = [req EXCEPT ![r] = q]
        /\ UNCHANGED <<tables, pins, store, cache, shown, farewells>>
        /\ edits' \in 0 .. MaxEdits
    BY <1>2, <2>1 DEF ArchiveBlog, hist, IInv, TypeOK
  <2> HIDE DEF q
  <2>5. Sound(q)
    BY <1>2, <2>1, <2>2 DEF Sound, SoundIn, Holding, Archivable
  <2>6. \A s \in Conns \ {r} : Apart(q, req[s])
    BY <2>1, <2>2 DEF Apart, LockedByOther
  <2> QED
    BY <2>3, <2>4, <2>5, <2>6, QuietStep
<1> QED
  BY <1>1, <1>2

\* A pin in flight stays out of the rows deleted and not yet committed.
LEMMA PinHeadingInv ==
  ASSUME IInv, NEW r \in Conns, NEW a \in Anchors, PinHeading(r, a)
  PROVE  IInv'
<1> DEFINE q == [NoRequest EXCEPT !.pc = "commit", !.kind = "pin", !.pin = a]
<1>1. status # "none"
  <2>1. sections # {}
    BY DEF PinHeading, Headings
  <2> QED
    BY <2>1 DEF IInv, DataOK
<1>2. a \in body /\ a # NoAnchor
  BY <1>1, Facts, ArticlesAssumption DEF PinHeading
<1>3. q \in Request
  BY Idle DEF Request, NoRequest
<1>4. /\ q.kind = "pin" /\ q.pc = "commit" /\ q.src = NoSource /\ q.doomed = {}
      /\ q.cut = {} /\ q.pin = a /\ q.uri = NoBody
  BY DEF NoRequest
<1>5. /\ req' = [req EXCEPT ![r] = q]
      /\ UNCHANGED <<tables, pins, store, cache, shown, farewells>>
      /\ edits' \in 0 .. MaxEdits
      /\ \A s \in Conns : a \notin req[s].cut
  BY DEF PinHeading, hist, IInv, TypeOK
<1> HIDE DEF q
<1>6. Sound(q)
  BY <1>1, <1>2, <1>4 DEF Sound, SoundIn, Holding
<1>7. \A s \in Conns \ {r} : Apart(q, req[s])
  BY <1>4, <1>5 DEF Apart, Holding
<1> QED
  BY <1>3, <1>5, <1>6, <1>7, QuietStep

LEMMA ReadEtagInv ==
  ASSUME IInv, NEW r \in Conns, ReadEtag(r)
  PROVE  IInv'
<1> DEFINE q == CASE status # "published" ->
                       [NoRequest EXCEPT !.pc = "done", !.kind = "read"]
                  [] status = "published" /\ cache.etag = body ->
                       [NoRequest EXCEPT !.pc = "done", !.kind = "read",
                                         !.answer = "not_modified"]
                  [] status = "published" /\ cache.etag # body ->
                       [NoRequest EXCEPT !.pc = "reread", !.kind = "read", !.etag = body]
<1>1. status = "published" => body \in Bodies
  BY Facts
<1>2. /\ q.kind = "read" /\ q.src = NoSource /\ q.doomed = {} /\ q.cut = {}
      /\ q.pin = NoAnchor /\ q.uri = NoBody
      /\ \/ q.pc = "done"
         \/ q.pc = "reread" /\ status = "published" /\ q.etag = body
  BY DEF NoRequest
<1>3. q \in Request
  BY <1>1, Idle DEF Request, NoRequest
<1>4. /\ req' = [req EXCEPT ![r] = q]
      /\ UNCHANGED <<tables, pins, store, cache, shown, farewells>>
      /\ edits' \in 0 .. MaxEdits
  BY DEF ReadEtag, hist, IInv, TypeOK
<1> HIDE DEF q
<1>5. Sound(q)
  BY <1>1, <1>2 DEF Sound, SoundIn, Holding
<1>6. \A s \in Conns \ {r} : Apart(q, req[s])
  BY <1>2, ApartFromIdle DEF Holding
<1> QED
  BY <1>3, <1>4, <1>5, <1>6, QuietStep

\* The body the row names while it is published is one it has been seen with.
LEMMA ReadRowInv ==
  ASSUME IInv, NEW r \in Conns, ReadRow(r)
  PROVE  IInv'
<1> DEFINE old == req[r]
           q == IF status = "published" THEN [old EXCEPT !.pc = "fetch", !.uri = body]
                                        ELSE [old EXCEPT !.pc = "done"]
<1>1. /\ old \in Request /\ Sound(old) /\ old.pc = "reread"
      /\ \A s \in Conns \ {r} : Apart(old, req[s])
  BY Facts DEF ReadRow
<1>2. status = "published" => body \in Bodies /\ body \in shown /\ store[body] # NoFront
  BY Facts, ArticlesAssumption DEF IInv, DataOK
<1>3. /\ q.kind = old.kind /\ q.src = old.src /\ q.status = old.status
      /\ q.pin = old.pin /\ q.etag = old.etag /\ q.doomed = old.doomed /\ q.cut = old.cut
      /\ \/ q.pc = "fetch" /\ q.uri = body /\ status = "published"
         \/ q.pc = "done" /\ q.uri = old.uri
  BY <1>1 DEF Request
<1>4. q \in Request
  BY <1>1, <1>2 DEF Request
<1>5. /\ req' = [req EXCEPT ![r] = q]
      /\ UNCHANGED <<tables, pins, store, cache, shown, farewells>>
      /\ edits' \in 0 .. MaxEdits
  BY DEF ReadRow, hist, IInv, TypeOK
<1> HIDE DEF q
<1>6. Sound(q)
  BY <1>1, <1>2, <1>3, ArticlesAssumption DEF Sound, SoundIn, Holding
<1>7. \A s \in Conns \ {r} : Apart(q, req[s])
  BY <1>1, <1>3 DEF Apart, Holding
<1> QED
  BY <1>4, <1>5, <1>6, <1>7, QuietStep

(***************************************************************************)
(* The actions that change the tables, the store or the browser's copy.    *)
(***************************************************************************)

\* Every such action but the first ends its request or leaves nothing in hand.
LEMMA EndStep ==
  ASSUME IInv, NEW r \in Conns, Finish(r), TypeOK', DataOK',
         \A s \in Conns \ {r} : SoundNext(req[s])
  PROVE  IInv'
<1>1. \A s \in Conns \ {r} : Apart(NoRequest, req[s])
  BY Idle, ApartFromIdle
<1> QED
  BY <1>1, Idle, RequestStep DEF Finish

LEMMA FinishTyped ==
  ASSUME IInv, NEW r \in Conns, Finish(r)
  PROVE  req' \in [Conns -> Request]
  BY Idle DEF Finish, IInv, TypeOK

\* Before the row is there, no request but a publication has anything in hand.
LEMMA StartPublishInv ==
  ASSUME IInv, NEW r \in Conns, NEW src \in Sources, NEW st \in Statuses,
         StartPublish(r, src, st)
  PROVE  IInv'
<1> DEFINE q == [NoRequest EXCEPT !.pc = "put", !.kind = "publish", !.src = src, !.status = st]
<1>1. q \in Request
  BY Idle DEF Request, NoRequest
<1>2. /\ q.kind = "publish" /\ q.src = src /\ q.status = st /\ q.doomed = {} /\ q.cut = {}
      /\ q.pin = NoAnchor /\ q.uri = NoBody /\ q.pc = "put"
  BY DEF NoRequest
<1>3. /\ req' = [req EXCEPT ![r] = q] /\ status = "none"
      /\ store' = [b \in Bodies |-> NoFront]
      /\ UNCHANGED <<tables, pins, cache, hist>>
      /\ \A s \in Conns : req[s].kind # "publish"
  BY DEF StartPublish
<1> HIDE DEF q
<1>4. req' \in [Conns -> Request]
  BY <1>1, <1>3 DEF IInv, TypeOK
<1>5. TypeOK'
  BY <1>3, <1>4 DEF IInv, TypeOK, tables, hist
<1>6. DataOK'
  BY <1>3 DEF IInv, TypeOK, DataOK, SectionsMatchBody, PinsLandInTheBody,
              OnlyPublishedBodiesAreServed, tables, hist
<1>7. SoundNext(q)
  BY <1>2, <1>3 DEF SoundNext, SoundIn, Holding, Statuses, tables
<1>8. ASSUME NEW s \in Conns PROVE SoundNext(req[s])
  <2>1. Sound(req[s]) /\ req[s].kind # "publish"
    BY <1>3 DEF IInv
  <2>2. req[s].src = NoSource /\ req[s].uri = NoBody
    BY <1>3, <2>1 DEF Sound, SoundIn
  <2> QED
    BY <1>3, <2>1, <2>2 DEF Sound, SoundNext, SoundIn, tables, hist
<1>9. ASSUME NEW s \in Conns PROVE Apart(q, req[s])
  <2>1. NoAnchor \notin req[s].cut
    BY ArticlesAssumption DEF IInv, TypeOK, Request
  <2> QED
    BY <1>2, <1>3, <2>1 DEF Apart, Holding
<1> QED
  BY <1>1, <1>3, <1>5, <1>6, <1>7, <1>8, <1>9, RequestStep

\* A put never takes an object away.
LEMMA PutInv ==
  ASSUME IInv, NEW r \in Conns, Put(r)
  PROVE  IInv'
<1> DEFINE old == req[r]
           q == [old EXCEPT !.pc = "begin"]
<1>1. CASE UNCHANGED store /\ Finish(r)
  BY <1>1, FinishStep DEF Put
<1>2. CASE store' = [store EXCEPT ![old.src.body] = old.src.front] /\ req' = [req EXCEPT ![r] = q]
  <2>1. /\ old \in Request /\ Sound(old) /\ old.pc = "put"
        /\ \A s \in Conns \ {r} : Apart(old, req[s])
    BY Facts DEF Put
  <2>2. old.kind \in {"publish", "update"} /\ old.src \in Sources
    BY <2>1 DEF Sound, SoundIn
  <2>3. old.src.body \in Bodies /\ old.src.front \in Fronts /\ old.src.front # NoFront
    BY <2>2, ArticlesAssumption DEF Sources
  <2>4. /\ q.kind = old.kind /\ q.pc = "begin" /\ q.src = old.src /\ q.status = old.status
        /\ q.pin = old.pin /\ q.etag = old.etag /\ q.uri = old.uri
        /\ q.doomed = old.doomed /\ q.cut = old.cut
    BY <2>1 DEF Request
  <2>5. q \in Request
    BY <2>1 DEF Request
  <2>6. UNCHANGED <<tables, pins, cache, hist>>
    BY DEF Put
  <2>7. store \in [Bodies -> Fronts \cup {NoFront}]
    BY DEF IInv, TypeOK
  <2>8. /\ store' \in [Bodies -> Fronts \cup {NoFront}]
        /\ store'[old.src.body] # NoFront
        /\ \A b \in Bodies : store[b] # NoFront => store'[b] # NoFront
    BY <1>2, <2>3, <2>7
  <2> HIDE DEF q
  <2>9. req' \in [Conns -> Request]
    BY <1>2, <2>5 DEF IInv, TypeOK
  <2>10. TypeOK'
    BY <2>6, <2>8, <2>9 DEF IInv, TypeOK, tables, hist
  <2>11. DataOK'
    BY <2>6, <2>8 DEF IInv, TypeOK, DataOK, SectionsMatchBody, PinsLandInTheBody,
                      OnlyPublishedBodiesAreServed, tables, hist
  <2>12. ASSUME NEW s \in Conns PROVE SoundNext(req[s])
    <3>1. Sound(req[s]) /\ req[s] \in Request
      BY DEF IInv, TypeOK
    <3>2. req[s].src # NoSource => req[s].src.body \in Bodies
      BY <3>1 DEF Request, Sources
    <3>3. req[s].uri \in Bodies \cup {NoBody}
      BY <3>1 DEF Request
    <3> QED
      BY <2>6, <2>8, <3>1, <3>2, <3>3 DEF Sound, SoundNext, SoundIn, tables, hist
  <2>13. SoundNext(q)
    BY <2>1, <2>2, <2>4, <2>6, <2>8, <2>12 DEF Sound, SoundNext, SoundIn, Holding, tables, hist
  <2>14. \A s \in Conns \ {r} : Apart(q, req[s])
    BY <2>1, <2>4 DEF Apart, Holding
  <2> QED
    BY <1>2, <2>5, <2>10, <2>11, <2>12, <2>13, <2>14, RequestStep
<1> QED
  BY <1>1, <1>2 DEF Put

LEMMA InsertInv ==
  ASSUME IInv, NEW r \in Conns, Insert(r)
  PROVE  IInv'
<1> DEFINE q == req[r]
<1>1. /\ q \in Request /\ Sound(q) /\ q.pc = "begin" /\ q.kind = "publish"
      /\ ~CheckRefuses(q.status)
      /\ \A s \in Conns \ {r} : Apart(q, req[s])
  BY Facts DEF Insert
<1>2. /\ q.src \in Sources /\ status = "none" /\ q.status \in Statuses
      /\ q.src # NoSource /\ store[q.src.body] # NoFront
  BY <1>1, ArticlesAssumption DEF Sound, SoundIn, Request
<1>3. /\ q.src.body \in Bodies /\ q.src.body # NoBody /\ q.src.body \subseteq Anchors
  BY <1>2, ArticlesAssumption DEF Sources
<1>4. /\ status' = q.status /\ body' = q.src.body /\ sections' = HeadingsOf(q.src.body)
      /\ shown' = IF q.status = "published" THEN {q.src.body} ELSE {}
      /\ UNCHANGED <<archivedAt, pins, store, cache, edits, farewells>>
      /\ Finish(r) /\ (q.status = "archived" => archivedAt)
  BY <1>1 DEF Insert, CheckRefuses
<1>5. HeadingsOf(q.src.body) \subseteq Section
  BY <1>3 DEF HeadingsOf, Section
<1>6. status' \in Statuses /\ status' # "none"
  BY <1>2, <1>4 DEF Statuses
<1> HIDE DEF q
<1>7. TypeOK'
  <2>1. req' \in [Conns -> Request]
    BY <1>4, FinishTyped
  <2> QED
    BY <1>3, <1>4, <1>5, <1>6, <2>1 DEF IInv, TypeOK
<1>8. DataOK'
  <2>1. pins = {} /\ cache.body = NoBody /\ farewells = 0
    BY <1>2 DEF IInv, DataOK
  <2> QED
    BY <1>2, <1>3, <1>4, <1>6, <2>1 DEF DataOK, SectionsMatchBody, PinsLandInTheBody,
                                        OnlyPublishedBodiesAreServed, HeadingsOf
<1>9. ASSUME NEW s \in Conns \ {r} PROVE SoundNext(req[s])
  <2>1. Sound(req[s]) /\ req[s].kind # "publish"
    BY <1>1 DEF IInv, Apart
  <2>2. req[s].src = NoSource /\ req[s].uri = NoBody
    BY <1>2, <2>1 DEF Sound, SoundIn
  <2> QED
    BY <1>2, <1>4, <2>1, <2>2 DEF Sound, SoundNext, SoundIn
<1> QED
  BY <1>4, <1>7, <1>8, <1>9, EndStep

\* What an update leaves of the headings is those of its own body: it deleted
\* the ones its body lacks, and the row was its own from before it looked.
LEMMA ReplacedIsNew ==
  ASSUME IInv, NEW r \in Conns, req[r].pc = "commit", req[r].kind = "update",
         req[r].src # NoSource
  PROVE  /\ Replaced(req[r]) = HeadingsOf(req[r].src.body)
         /\ req[r].cut = body \ req[r].src.body /\ req[r].cut \cap pins = {}
<1> DEFINE q == req[r]
<1>1. /\ status # "none"
      /\ q.doomed \cup q.cut = body \ q.src.body
      /\ q.doomed = {} /\ q.cut \cap pins = {}
  BY DEF IInv, Sound, SoundIn
<1>2. sections = HeadingsOf(body)
  BY <1>1, Facts
<1>3. \A s \in sections : s.anchor \in body
  BY <1>2 DEF HeadingsOf
<1>4. {s \in sections : s.anchor \notin q.cut \cup q.src.body} = {}
  BY <1>1, <1>3
<1> QED
  BY <1>1, <1>4 DEF Replaced

LEMMA CommitUpdateInv ==
  ASSUME IInv, NEW r \in Conns, CommitUpdate(r)
  PROVE  IInv'
<1> DEFINE q == req[r]
<1>1. /\ q \in Request /\ Sound(q) /\ q.pc = "commit" /\ q.kind = "update"
      /\ \A s \in Conns \ {r} : Apart(q, req[s])
  BY Facts DEF CommitUpdate
<1>2. /\ status # "none" /\ body \in Bodies /\ sections = HeadingsOf(body) /\ body # NoBody
      /\ (q.status = "archived" => archivedAt)
  <2>1. status # "none"
    BY <1>1 DEF Sound, SoundIn
  <2> QED
    BY <1>1, <2>1, Facts, ArticlesAssumption DEF Sound, SoundIn
<1>3. /\ status' = IF q.status = "keep" THEN status ELSE q.status
      /\ body' = IF q.src = NoSource THEN body ELSE q.src.body
      /\ sections' = IF q.src = NoSource THEN sections ELSE Replaced(q)
      /\ shown' = IF status' = "published" THEN shown \cup {body'} ELSE shown
      /\ farewells' = IF q.status = "keep" THEN farewells ELSE 0
      /\ UNCHANGED <<archivedAt, pins, store, cache, edits>> /\ Finish(r)
  BY DEF CommitUpdate
<1>4. status' \in Statuses /\ status' # "none" /\ (status' = "archived" => archivedAt)
  <2>1. status \in Statuses /\ (status = "archived" => archivedAt)
    BY <1>2 DEF IInv, TypeOK
  <2>2. q.status \in Statuses \cup {"keep"}
    BY <1>1 DEF Request
  <2> QED
    BY <1>2, <1>3, <2>1, <2>2 DEF Statuses
<1>5. /\ body' \in Bodies /\ body' # NoBody /\ body' \subseteq Anchors
      /\ sections' = HeadingsOf(body') /\ store[body'] # NoFront
      /\ pins \subseteq body'
      /\ \A a \in body \ body' : a \in q.cut
  <2>1. /\ store[body] # NoFront /\ pins \subseteq body
    BY <1>2 DEF IInv, DataOK, PinsLandInTheBody
  <2>2. CASE q.src = NoSource
    BY <1>2, <1>3, <2>1, <2>2, ArticlesAssumption
  <2>3. CASE q.src # NoSource
    <3>1. q.src.body \in Bodies
      BY <1>1, <2>3 DEF Request, Sources
    <3>2. store[q.src.body] # NoFront
      BY <1>1, <2>3 DEF Sound, SoundIn
    <3>3. /\ Replaced(q) = HeadingsOf(q.src.body)
          /\ q.cut = body \ q.src.body /\ q.cut \cap pins = {}
      BY <1>1, <2>3, ReplacedIsNew
    <3> HIDE DEF q
    <3> QED
      BY <1>3, <2>1, <2>3, <3>1, <3>2, <3>3, ArticlesAssumption
  <2> QED
    BY <2>2, <2>3
<1> HIDE DEF q
<1>6. TypeOK'
  <2>1. req' \in [Conns -> Request]
    BY <1>3, FinishTyped
  <2>2. HeadingsOf(body') \subseteq Section
    BY <1>5 DEF HeadingsOf, Section
  <2>3. shown' \subseteq Bodies
    BY <1>3, <1>5 DEF IInv, TypeOK
  <2>4. farewells' \in Nat
    BY <1>3 DEF IInv, TypeOK
  <2> QED
    BY <1>3, <1>4, <1>5, <2>1, <2>2, <2>3, <2>4 DEF IInv, TypeOK
<1>7. DataOK'
  <2>1. status' = "published" => body' \in shown'
    BY <1>3
  <2>2. farewells' = 0 \/ (farewells' = 1 /\ status' = "archived")
    BY <1>3 DEF IInv, DataOK
  <2>3. OnlyPublishedBodiesAreServed'
    BY <1>3 DEF IInv, DataOK, OnlyPublishedBodiesAreServed
  <2> QED
    BY <1>3, <1>4, <1>5, <2>1, <2>2, <2>3 DEF DataOK, SectionsMatchBody, PinsLandInTheBody
<1>8. ASSUME NEW s \in Conns \ {r} PROVE SoundNext(req[s])
  <2>1. Sound(req[s]) /\ Apart(q, req[s])
    BY <1>1 DEF IInv
  <2>2. ~Holding(req[s])
    BY <1>1, <2>1 DEF Apart, Holding
  <2>3. req[s].pin \in body => req[s].pin \in body'
    BY <1>5, <2>1 DEF Apart
  <2>4. shown \subseteq shown'
    BY <1>3
  <2>5. req[s].kind # "publish"
    BY <1>2, <2>1 DEF Sound, SoundIn
  <2> QED
    BY <1>2, <1>3, <1>4, <2>1, <2>2, <2>3, <2>4, <2>5 DEF Sound, SoundNext, SoundIn, Holding
<1> QED
  BY <1>3, <1>6, <1>7, <1>8, EndStep

\* The row was locked with a status other than archived, and stayed so.
LEMMA CommitArchiveInv ==
  ASSUME IInv, NEW r \in Conns, CommitArchive(r)
  PROVE  IInv'
<1> DEFINE q == req[r]
<1>1. /\ Sound(q) /\ q.pc = "commit" /\ q.kind = "archive"
      /\ \A s \in Conns \ {r} : Apart(q, req[s])
  BY Facts DEF CommitArchive
<1>2. /\ status # "none" /\ status # "archived" /\ farewells = 0
  BY <1>1 DEF Sound, SoundIn, IInv, DataOK
<1>3. /\ status' = "archived" /\ archivedAt' = TRUE /\ farewells' = 1
      /\ UNCHANGED <<body, sections, pins, store, cache, edits, shown>> /\ Finish(r)
  BY <1>2 DEF CommitArchive
<1> HIDE DEF q
<1>4. TypeOK'
  <2>1. req' \in [Conns -> Request]
    BY <1>3, FinishTyped
  <2> QED
    BY <1>2, <1>3, <2>1 DEF IInv, TypeOK, Statuses
<1>5. DataOK'
  BY <1>2, <1>3 DEF IInv, DataOK, SectionsMatchBody, PinsLandInTheBody,
                    OnlyPublishedBodiesAreServed
<1>6. ASSUME NEW s \in Conns \ {r} PROVE SoundNext(req[s])
  <2>1. Sound(req[s]) /\ ~Holding(req[s])
    BY <1>1 DEF IInv, Apart, Holding
  <2>2. req[s].kind # "publish"
    BY <1>2, <2>1 DEF Sound, SoundIn
  <2> QED
    BY <1>2, <1>3, <2>1, <2>2 DEF Sound, SoundNext, SoundIn, Holding
<1> QED
  BY <1>3, <1>4, <1>5, <1>6, EndStep

LEMMA CommitPinInv ==
  ASSUME IInv, NEW r \in Conns, CommitPin(r)
  PROVE  IInv'
<1> DEFINE q == req[r]
<1>1. /\ Sound(q) /\ q.pc = "commit" /\ q.kind = "pin"
      /\ \A s \in Conns \ {r} : Apart(q, req[s])
  BY Facts DEF CommitPin
<1>2. status # "none" /\ q.pin \in body
  BY <1>1 DEF Sound, SoundIn
<1>3. body \in Bodies /\ body # NoBody /\ q.pin \in Anchors
  BY <1>2, Facts, ArticlesAssumption
<1>4. pins' = pins \cup {q.pin} /\ Finish(r) /\ UNCHANGED <<tables, store, cache, hist>>
  BY DEF CommitPin
<1> HIDE DEF q
<1>5. TypeOK'
  <2>1. req' \in [Conns -> Request]
    BY <1>4, FinishTyped
  <2> QED
    BY <1>3, <1>4, <2>1 DEF IInv, TypeOK, tables, hist
<1>6. DataOK'
  BY <1>2, <1>3, <1>4 DEF IInv, DataOK, SectionsMatchBody, PinsLandInTheBody,
                          OnlyPublishedBodiesAreServed, tables, hist
<1>7. ASSUME NEW s \in Conns \ {r} PROVE SoundNext(req[s])
  <2>1. Sound(req[s]) /\ q.pin \notin req[s].cut
    BY <1>1 DEF IInv, Apart
  <2> QED
    BY <1>4, <2>1 DEF Sound, SoundNext, SoundIn, tables, hist
<1> QED
  BY <1>4, <1>5, <1>6, <1>7, EndStep

LEMMA UnpinInv ==
  ASSUME IInv, NEW a \in Anchors, Unpin(a)
  PROVE  IInv'
<1>1. pins' = pins \ {a} /\ UNCHANGED <<tables, store, cache, hist, req>>
  BY DEF Unpin
<1>2. TypeOK'
  BY <1>1 DEF IInv, TypeOK, tables, hist
<1>3. DataOK'
  BY <1>1 DEF IInv, DataOK, SectionsMatchBody, PinsLandInTheBody,
              OnlyPublishedBodiesAreServed, tables, hist
<1>4. ASSUME NEW s \in Conns PROVE Sound(req[s])'
  BY <1>1 DEF IInv, Sound, SoundIn, Holding, tables, hist
<1>5. ASSUME NEW s \in Conns, NEW t \in Conns, s # t PROVE Apart(req[s], req[t])'
  BY <1>1, <1>5 DEF IInv, Apart, Holding
<1> QED
  BY <1>2, <1>3, <1>4, <1>5 DEF IInv

LEMMA FetchInv ==
  ASSUME IInv, NEW r \in Conns, Fetch(r)
  PROVE  IInv'
<1> DEFINE old == req[r]
           q == [old EXCEPT !.pc = "done"]
<1>1. /\ old \in Request /\ Sound(old) /\ old.pc = "fetch"
      /\ \A s \in Conns \ {r} : Apart(old, req[s])
  BY Facts DEF Fetch
<1>2. /\ old.uri \in Bodies /\ old.uri \in shown /\ store[old.uri] # NoFront
      /\ old.etag \in Bodies /\ status # "none"
  BY <1>1 DEF Sound, SoundIn, Request
<1>3. /\ q.kind = old.kind /\ q.pc = "done" /\ q.src = old.src /\ q.status = old.status
      /\ q.pin = old.pin /\ q.etag = old.etag /\ q.uri = old.uri
      /\ q.doomed = old.doomed /\ q.cut = old.cut
  BY <1>1 DEF Request
<1>4. q \in Request
  BY <1>1 DEF Request
<1>5. /\ req' = [req EXCEPT ![r] = q]
      /\ cache' = [etag |-> old.etag, body |-> old.uri, front |-> store[old.uri]]
      /\ UNCHANGED <<tables, pins, store, hist>>
  BY DEF Fetch
<1> HIDE DEF q
<1>6. cache' \in Copy
  <2>1. store[old.uri] \in Fronts \cup {NoFront}
    BY <1>2 DEF IInv, TypeOK
  <2> QED
    BY <1>2, <1>5, <2>1 DEF Copy
<1>7. TypeOK'
  <2>1. req' \in [Conns -> Request]
    BY <1>4, <1>5 DEF IInv, TypeOK
  <2> QED
    BY <1>5, <1>6, <2>1 DEF IInv, TypeOK, tables, hist
<1>8. DataOK'
  BY <1>2, <1>5 DEF IInv, DataOK, SectionsMatchBody, PinsLandInTheBody,
                    OnlyPublishedBodiesAreServed, tables, hist
<1>9. /\ SoundNext(q)
      /\ \A s \in Conns \ {r} : SoundNext(req[s])
  <2>1. Sound(q)
    BY <1>1, <1>3 DEF Sound, SoundIn, Holding
  <2> QED
    BY <1>5, <2>1 DEF IInv, Sound, SoundNext, tables, hist
<1>10. \A s \in Conns \ {r} : Apart(q, req[s])
  BY <1>1, <1>3 DEF Apart, Holding
<1> QED
  BY <1>4, <1>5, <1>7, <1>8, <1>9, <1>10, RequestStep

(***************************************************************************)
(* The theorems.                                                           *)
(***************************************************************************)

LEMMA NextInv == IInv /\ [Next]_vars => IInv'
<1> SUFFICES ASSUME IInv, [Next]_vars PROVE IInv'
  OBVIOUS
<1>1. CASE UNCHANGED vars
  BY <1>1 DEF vars, tables, IInv, TypeOK, DataOK, Sound, SoundIn, Apart, Holding,
              SectionsMatchBody, PinsLandInTheBody, OnlyPublishedBodiesAreServed, HeadingsOf
<1>2. ASSUME NEW r \in Conns, Publishing(r) PROVE IInv'
  BY <1>2, StartPublishInv, PutInv, InsertInv, Ending DEF Publishing
<1>3. ASSUME NEW r \in Conns, Updating(r) PROVE IInv'
  BY <1>3, StartUpdateInv, LockBlogInv, TrimInv, CheckPinsInv, CommitUpdateInv DEF Updating
<1>4. ASSUME NEW r \in Conns, Archiving(r) PROVE IInv'
  BY <1>4, StartArchiveInv, ArchiveBlogInv, CommitArchiveInv DEF Archiving
<1>5. ASSUME NEW r \in Conns, Pinning(r) PROVE IInv'
  BY <1>5, PinHeadingInv, CommitPinInv DEF Pinning
<1>6. ASSUME NEW r \in Conns, Reading(r) PROVE IInv'
  BY <1>6, ReadEtagInv, ReadRowInv, FetchInv DEF Reading
<1>7. ASSUME NEW r \in Conns, Reply(r) \/ Crash(r) PROVE IInv'
  BY <1>7, Ending
<1>8. ASSUME NEW a \in Anchors, Unpin(a) PROVE IInv'
  BY <1>8, UnpinInv
<1> QED
  BY <1>1, <1>2, <1>3, <1>4, <1>5, <1>6, <1>7, <1>8 DEF Next

\* The inductive invariant holds in every reachable state.
THEOREM Invariance == Spec => []IInv
<1>1. Init => IInv
  BY InitInv
<1>2. IInv /\ [Next]_vars => IInv'
  BY NextInv
<1> QED
  BY <1>1, <1>2, PTL DEF Spec

\* Every variable keeps its type, and no row is archived without saying since
\* when (the CHECK of the table blogs).
THEOREM TypeCorrect == Spec => []TypeOK
<1>1. IInv => TypeOK
  BY DEF IInv
<1> QED
  BY <1>1, Invariance, PTL

\* However updates race, the headings on record are those of the body the row
\* names, and no pin outlives its heading, although pins are stored while the
\* body that has it is being replaced.
THEOREM BodyAgrees == Spec => []BodyIsWhole
<1>1. IInv => BodyIsWhole
  BY DEF IInv, DataOK, BodyIsWhole
<1> QED
  BY <1>1, Invariance, PTL

\* Any number of concurrent archivals send one BlogArchived event.
THEOREM ToldOnce == Spec => []ArchivedIsToldOnce
<1>1. IInv => ArchivedIsToldOnce
  BY DEF IInv, DataOK, ArchivedIsToldOnce
<1> QED
  BY <1>1, Invariance, PTL

\* No failure or crash between the object store and the database leaves a row,
\* or a reader who has read it, without the object it names; and no body the
\* article had only while it was not published reaches a reader.
THEOREM Served == Spec => []ReadersAreServed
<1>1. IInv => EveryRowHasItsObject
  BY DEF IInv, DataOK, Sound, SoundIn, EveryRowHasItsObject
<1>2. IInv => OnlyPublishedBodiesAreServed
  BY DEF IInv, DataOK
<1>3. IInv => ReadersAreServed
  BY <1>1, <1>2 DEF ReadersAreServed
<1> QED
  BY <1>3, Invariance, PTL

(***************************************************************************)
(* Refinement: only the commits show, and each is one step of the Shelf.   *)
(***************************************************************************)

LEMMA InsertPublishes ==
  ASSUME IInv, NEW r \in Conns, Insert(r)
  PROVE  Register!Next
<1>1. /\ req[r] \in Request /\ Sound(req[r]) /\ req[r].kind = "publish"
      /\ ~CheckRefuses(req[r].status)
  BY Facts DEF Insert
<1>2. /\ req[r].src.body \in Bodies /\ status = "none"
      /\ req[r].status \in Statuses
  BY <1>1 DEF Sound, SoundIn, Request, Sources
<1>3. req[r].status # "archived"
  BY <1>1, <1>2 DEF IInv, DataOK, CheckRefuses
<1>4. Register!Publish(req[r].src.body, req[r].status)
  BY <1>2, <1>3 DEF Insert, Register!Publish, Statuses
<1> QED
  BY <1>2, <1>4 DEF Register!Next, Statuses

LEMMA CommitUpdateRevises ==
  ASSUME IInv, NEW r \in Conns, CommitUpdate(r)
  PROVE  Register!Next
<1>1. IInv'
  BY CommitUpdateInv
<1>2. req[r].kind = "update" /\ Sound(req[r]) /\ pins' = pins
  BY Facts DEF CommitUpdate
<1>3. status # "none" /\ req[r] \in Request
  BY <1>2, Facts DEF Sound, SoundIn
<1>4. status' \in {"draft", "published", "archived"}
  <2>1. status \in Statuses
    BY <1>3 DEF IInv, TypeOK
  <2> QED
    BY <1>3, <2>1 DEF CommitUpdate, Request, Statuses
<1>5. body' \in Bodies /\ pins \subseteq body'
  <2>1. status' # "none"
    BY <1>4
  <2>2. body' \in Bodies /\ body' # NoBody
    BY <1>1, <2>1, ArticlesAssumption DEF IInv, TypeOK
  <2> QED
    BY <1>1, <1>2, <2>2 DEF IInv, DataOK, PinsLandInTheBody
<1>6. Register!Revise(body', status')
  BY <1>2, <1>3, <1>5 DEF Register!Revise
<1> QED
  BY <1>4, <1>5, <1>6 DEF Register!Next

LEMMA CommitArchiveArchives ==
  ASSUME IInv, NEW r \in Conns, CommitArchive(r)
  PROVE  Register!Next
<1>1. Sound(req[r]) /\ req[r].pc = "commit" /\ req[r].kind = "archive"
  BY Facts DEF CommitArchive
<1>2. status \in {"draft", "published"}
  BY <1>1 DEF Sound, SoundIn, IInv, TypeOK, Statuses
<1>3. Register!Archive
  BY <1>2 DEF CommitArchive, Register!Archive
<1> QED
  BY <1>3 DEF Register!Next

LEMMA CommitPinPins ==
  ASSUME IInv, NEW r \in Conns, CommitPin(r)
  PROVE  Register!Next \/ UNCHANGED Register!shelfVars
<1> DEFINE a == req[r].pin
<1>1. Sound(req[r]) /\ req[r].pc = "commit" /\ req[r].kind = "pin"
  BY Facts DEF CommitPin
<1>2. status # "none" /\ a \in body
  BY <1>1 DEF Sound, SoundIn
<1>3. body # NoBody /\ a \in Anchors
  BY <1>2, Facts, ArticlesAssumption
<1>4. pins' = pins \cup {a} /\ UNCHANGED <<status, body>>
  BY DEF CommitPin, tables
<1> HIDE DEF a
<1>5. CASE a \in pins
  BY <1>4, <1>5 DEF Register!shelfVars
<1>6. CASE a \notin pins
  <2>1. Register!Pin(a)
    BY <1>2, <1>3, <1>4, <1>6 DEF Register!Pin
  <2> QED
    BY <1>3, <2>1 DEF Register!Next
<1> QED
  BY <1>5, <1>6

\* Seen from outside, an article is published, revised and archived in single
\* steps, and none of them drops a heading somebody points at.
THEOREM Refinement == Spec => ImplementsShelf
<1>1. Init => Register!Init
  BY DEF Init, Register!Init
<1>2. IInv /\ [Next]_vars => [Register!Next]_(Register!shelfVars)
  <2> SUFFICES ASSUME IInv, [Next]_vars PROVE Register!Next \/ UNCHANGED Register!shelfVars
    OBVIOUS
  <2>1. CASE UNCHANGED vars
    BY <2>1 DEF vars, tables, Register!shelfVars
  <2>2. ASSUME NEW r \in Conns, Publishing(r)
        PROVE  Register!Next \/ UNCHANGED Register!shelfVars
    BY <2>2, InsertPublishes
       DEF Publishing, StartPublish, Put, Refuse, tables, Register!shelfVars
  <2>3. ASSUME NEW r \in Conns, Updating(r)
        PROVE  Register!Next \/ UNCHANGED Register!shelfVars
    BY <2>3, CommitUpdateRevises
       DEF Updating, StartUpdate, LockBlog, Trim, CheckPins, tables, Register!shelfVars
  <2>4. ASSUME NEW r \in Conns, Archiving(r)
        PROVE  Register!Next \/ UNCHANGED Register!shelfVars
    BY <2>4, CommitArchiveArchives
       DEF Archiving, StartArchive, ArchiveBlog, tables, Register!shelfVars
  <2>5. ASSUME NEW r \in Conns, Pinning(r)
        PROVE  Register!Next \/ UNCHANGED Register!shelfVars
    BY <2>5, CommitPinPins DEF Pinning, PinHeading, tables, Register!shelfVars
  <2>6. ASSUME NEW r \in Conns, Reading(r) \/ Reply(r) \/ Crash(r)
        PROVE  Register!Next \/ UNCHANGED Register!shelfVars
    BY <2>6 DEF Reading, ReadEtag, ReadRow, Fetch, Reply, Crash, tables, Register!shelfVars
  <2>7. ASSUME NEW a \in Anchors, Unpin(a)
        PROVE  Register!Next \/ UNCHANGED Register!shelfVars
    <3>1. Register!Unpin(a)
      BY <2>7 DEF Unpin, Register!Unpin, tables
    <3> QED
      BY <3>1 DEF Register!Next
  <2> QED
    BY <2>1, <2>2, <2>3, <2>4, <2>5, <2>6, <2>7 DEF Next
<1> QED
  BY <1>1, <1>2, Invariance, PTL DEF Spec, ImplementsShelf, Register!Spec

=============================================================================
