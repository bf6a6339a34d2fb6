------------------------- MODULE InteractionProofs --------------------------
(***************************************************************************)
(* Proofs about what readers do with articles: the collections they save   *)
(* them to (Catalogs), the lists they scroll through (Listing) and the     *)
(* comments under them (Discussion).  The three modules share nothing; one *)
(* module holds their proofs, a part for each.                             *)
(*                                                                         *)
(* Catalogs.  What a transaction has inserted is in nobody's way: neither  *)
(* a committed row nor a row of another transaction conflicts with it.     *)
(* That holds because an insert waits for the rows it might conflict with, *)
(* and it is what makes the uniqueness of the committed rows survive a     *)
(* commit.  A save without a default collection can then only have met the *)
(* user's own collection of that name.                                     *)
(*                                                                         *)
(* Listing.  Between two pages the scan has what lies at or above its      *)
(* cursor, and nothing below it: every row that has been in the list all   *)
(* the while is in one of the two places.  The rest is that the order of   *)
(* the ORDER BY is a strict one, and that the comparison of the WHERE      *)
(* clause is that order except that it skips rows without a stamp.         *)
(*                                                                         *)
(* Discussion.  What a request has seen stays true until it commits: the   *)
(* roots two of them are about to store are of different readers or        *)
(* articles, because the INSERT of one waits for the other; a row that is  *)
(* edited or deleted stays live, because its lock is held; and a parent    *)
(* stays a root.  A run of the script replies once, to a root that it has  *)
(* stored and nobody else's run knows.                                     *)
(***************************************************************************)
EXTENDS Catalogs, Listing, Discussion, WellFoundedInduction, TLAPS

(*-------------------------------------------------------------------------*)
(* Catalogs: the collections of a reader.                                  *)
(*-------------------------------------------------------------------------*)

\* A collection of the user's own making with the name of the default one.
Namesake == [name |-> Saved, default |-> FALSE]

Shape ==
  /\ readable \subseteq Blogs /\ catalogs \subseteq Catalog
  /\ items \subseteq catalogs \X Blogs
  /\ req \in [Conns -> Request]

OneOfAKind == \A c, d \in catalogs : Conflict(c, d) => c = d
DefaultIsSaved == \A c \in catalogs : c.default => c = Default

\* What a request may have inserted, and what it has found, given the table.
CatalogsSound(q, cats) ==
  /\ \A c, d \in q.made : c = d
  /\ \A c \in q.made : /\ c.default => c = Default
                       /\ \A d \in cats : ~Conflict(c, d)
  /\ q.pc \in {"idle", "ensure", "create", "done"} => q.made = {}
  /\ q.pc \in {"ensure", "read", "add"} => q.blog \in Blogs
  /\ q.pc = "create" => q.blog = NoBlog /\ q.catalog \in Catalog /\ ~q.catalog.default
  /\ q.pc \in {"add", "commit"} /\ q.blog # NoBlog => q.catalog \in cats \cup q.made
  /\ q.pc = "read" => Default \in cats \cup q.made \/ Namesake \in cats
  /\ q.answer = "no_default" => Namesake \in cats

CatalogsApart ==
  \A r, s \in Conns : r # s => \A c \in req[r].made, d \in req[s].made : ~Conflict(c, d)

CatalogsIInv ==
  /\ Shape /\ OneOfAKind /\ DefaultIsSaved /\ CatalogsApart
  /\ \A r \in Conns : CatalogsSound(req[r], catalogs)

-----------------------------------------------------------------------------

LEMMA CatalogsInitOK == Init => CatalogsIInv
<1> SUFFICES ASSUME Init PROVE CatalogsIInv
  OBVIOUS
<1>1. NoRequest \in Request
  BY DEF NoRequest, Request
<1>2. Shape /\ OneOfAKind /\ DefaultIsSaved /\ CatalogsApart
  BY <1>1 DEF Init, Shape, OneOfAKind, DefaultIsSaved, CatalogsApart, NoRequest
<1>3. ASSUME NEW r \in Conns PROVE CatalogsSound(req[r], catalogs)
  BY DEF Init, CatalogsSound, NoRequest
<1> QED BY <1>2, <1>3 DEF CatalogsIInv

\* A step of one request that commits nothing.
LEMMA RequestStep ==
  ASSUME CatalogsIInv, NEW r \in Conns, NEW q \in Request, req' = [req EXCEPT ![r] = q],
         catalogs' = catalogs, items' \subseteq items, readable' \subseteq readable,
         CatalogsSound(q, catalogs),
         \A s \in Conns \ {r} : \A c \in q.made, d \in req[s].made : ~Conflict(c, d)
  PROVE  CatalogsIInv'
<1>1. Shape' /\ OneOfAKind' /\ DefaultIsSaved'
  BY DEF CatalogsIInv, Shape, OneOfAKind, DefaultIsSaved
<1>2. \A s \in Conns : req'[s] = IF s = r THEN q ELSE req[s]
  BY DEF CatalogsIInv, Shape
<1>3. ASSUME NEW s \in Conns PROVE CatalogsSound(req'[s], catalogs')
  BY <1>2 DEF CatalogsIInv
<1>4. CatalogsApart'
  <2> SUFFICES ASSUME NEW s \in Conns, NEW t \in Conns, s # t,
                      NEW c \in req'[s].made, NEW d \in req'[t].made
               PROVE  ~Conflict(c, d)
    BY DEF CatalogsApart
  <2>1. CASE s = r
    BY <1>2, <2>1
  <2>2. CASE t = r
    <3>1. ~Conflict(d, c) BY <1>2, <2>2
    <3> QED BY <3>1 DEF Conflict
  <2>3. CASE s # r /\ t # r
    BY <1>2, <2>3 DEF CatalogsIInv, CatalogsApart
  <2> QED BY <2>1, <2>2, <2>3
<1> QED BY <1>1, <1>3, <1>4 DEF CatalogsIInv

\* The request ends, and what it inserted is in the table.
LEMMA CommitStep ==
  ASSUME CatalogsIInv, NEW r \in Conns, NEW q \in Request, req' = [req EXCEPT ![r] = q],
         catalogs' = catalogs \cup req[r].made, items' \subseteq catalogs' \X Blogs,
         readable' = readable, q.made = {}, q.pc = "done", q.answer # "no_default"
  PROVE  CatalogsIInv'
<1>0. req[r] \in Request /\ CatalogsSound(req[r], catalogs)
  BY DEF CatalogsIInv, Shape
<1>1. Shape'
  BY <1>0 DEF CatalogsIInv, Shape, Request
<1>2. \A s \in Conns : req'[s] = IF s = r THEN q ELSE req[s]
  BY DEF CatalogsIInv, Shape
<1>3. OneOfAKind'
  <2> SUFFICES ASSUME NEW c \in catalogs', NEW d \in catalogs', Conflict(c, d) PROVE c = d
    BY DEF OneOfAKind
  <2>1. Conflict(d, c) BY DEF Conflict
  <2>2. \A e, f \in req[r].made : e = f
    BY <1>0 DEF CatalogsSound
  <2>3. \A e \in req[r].made : \A f \in catalogs : ~Conflict(e, f)
    BY <1>0 DEF CatalogsSound
  <2> QED BY <2>1, <2>2, <2>3 DEF CatalogsIInv, OneOfAKind
<1>4. DefaultIsSaved'
  BY <1>0 DEF CatalogsIInv, DefaultIsSaved, CatalogsSound
<1>5. CatalogsApart'
  BY <1>2 DEF CatalogsIInv, CatalogsApart
<1>6. ASSUME NEW s \in Conns PROVE CatalogsSound(req'[s], catalogs')
  <2>1. CASE s = r
    BY <1>2, <2>1 DEF CatalogsSound
  <2>2. CASE s # r
    <3>1. CatalogsSound(req[s], catalogs) /\ req'[s] = req[s]
      BY <1>2, <2>2 DEF CatalogsIInv
    <3>2. \A c \in req[s].made : \A d \in catalogs' : ~Conflict(c, d)
      BY <2>2, <3>1 DEF CatalogsIInv, CatalogsApart, CatalogsSound
    <3> QED BY <3>1, <3>2 DEF CatalogsSound
  <2> QED BY <2>1, <2>2
<1> QED BY <1>1, <1>3, <1>4, <1>5, <1>6 DEF CatalogsIInv

\* A request that ends without having inserted anything.
LEMMA EndStep ==
  ASSUME CatalogsIInv, NEW r \in Conns, NEW q \in Request, req' = [req EXCEPT ![r] = q],
         UNCHANGED <<readable, catalogs, items>>, q.made = {}, q.pc \in {"idle", "done"},
         q.answer = "no_default" => Namesake \in catalogs
  PROVE  CatalogsIInv'
<1>1. CatalogsSound(q, catalogs)
  BY DEF CatalogsSound
<1> QED BY <1>1, RequestStep

\* The record of a request that is answered.
LEMMA FinishIs ==
  ASSUME CatalogsIInv, NEW r \in Conns,
         NEW ans \in {"saved", "created", "name_taken", "no_default"},
         Finish(r, ans)
  PROVE  \E q \in Request : /\ req' = [req EXCEPT ![r] = q]
                            /\ q.pc = "done" /\ q.answer = ans /\ q.made = {}
<1> DEFINE q == [NoRequest EXCEPT !.pc = "done", !.answer = ans,
                                  !.catalog = req[r].catalog, !.blog = req[r].blog]
<1>1. req[r] \in Request
  BY DEF CatalogsIInv, Shape
<1>2. q \in Request /\ q.pc = "done" /\ q.answer = ans /\ q.made = {}
  BY <1>1 DEF NoRequest, Request
<1> QED BY <1>2 DEF Finish

-----------------------------------------------------------------------------
(* The actions.                                                            *)

LEMMA StartSaveStep ==
  ASSUME CatalogsIInv, NEW r \in Conns, NEW b \in Blogs, NEW c \in Catalog \cup {NoCatalog},
         StartSave(r, b, c)
  PROVE  CatalogsIInv'
<1> DEFINE q == [NoRequest EXCEPT !.pc = IF c = NoCatalog THEN "ensure" ELSE "add",
                                  !.blog = b, !.catalog = c]
<1>1. q \in Request
  BY DEF NoRequest, Request
<1>2. q.made = {} /\ q.blog = b /\ q.catalog = c /\ q.answer = "none"
      /\ q.pc = IF c = NoCatalog THEN "ensure" ELSE "add"
  BY DEF NoRequest
<1>3. req' = [req EXCEPT ![r] = q] /\ UNCHANGED <<readable, catalogs, items>>
      /\ c \in catalogs \cup {NoCatalog}
  BY DEF StartSave
<1> HIDE DEF q
<1>4. CatalogsSound(q, catalogs)
  BY <1>2, <1>3 DEF CatalogsSound
<1> QED BY <1>1, <1>2, <1>3, <1>4, RequestStep

\* The row ensure_default inserts, or the row that is in its way.
LEMMA EnsureStep ==
  ASSUME CatalogsIInv, NEW r \in Conns, Ensure(r)
  PROVE  CatalogsIInv'
<1> DEFINE new == IF Taken(Default) THEN {} ELSE {Default}
           q   == [req[r] EXCEPT !.pc = "read", !.made = new]
<1>0. /\ req[r] \in Request /\ CatalogsSound(req[r], catalogs) /\ req[r].pc = "ensure"
      /\ Default \in Catalog
  BY CatalogsAssumption DEF CatalogsAssumption, CatalogsIInv, Shape, Ensure, Default,
     Catalog
<1>1. q \in Request
  BY <1>0 DEF Request
<1>2. req' = [req EXCEPT ![r] = q] /\ UNCHANGED <<readable, catalogs, items>>
  BY DEF Ensure
<1>3. q.made = new /\ q.pc = "read" /\ q.blog = req[r].blog /\ q.answer = req[r].answer
  BY <1>0 DEF Request
<1>4. \A s \in Conns \ {r} : \A c \in new, d \in req[s].made : ~Conflict(c, d)
  BY DEF Ensure, Waits, Rivals
<1>5. Default \in catalogs \cup new \/ Namesake \in catalogs
  <2>1. CASE ~Taken(Default) BY <2>1
  <2>2. CASE Taken(Default)
    <3>1. PICK d \in catalogs : Conflict(Default, d)
      BY <2>2 DEF Taken
    <3>2. d \in Catalog /\ (d.default => d = Default)
      BY DEF CatalogsIInv, Shape, DefaultIsSaved
    <3>3. d = Default \/ d = Namesake
      <4>1. CASE d.default BY <3>2, <4>1
      <4>2. CASE ~d.default
        <5>1. d.name = Saved /\ d.default = FALSE
          BY <3>1, <3>2, <4>2 DEF Conflict, Default, Catalog
        <5> QED BY <3>2, <5>1 DEF Catalog, Namesake
      <4> QED BY <4>1, <4>2
    <3> QED BY <3>3
  <2> QED BY <2>1, <2>2
<1>6. \A c \in new : c = Default /\ \A d \in catalogs : ~Conflict(c, d)
  BY DEF Taken
<1> HIDE DEF q, new
<1>7. CatalogsSound(q, catalogs)
  BY <1>0, <1>3, <1>5, <1>6 DEF CatalogsSound
<1> QED BY <1>1, <1>2, <1>3, <1>4, <1>7, RequestStep

LEMMA ReadDefaultStep ==
  ASSUME CatalogsIInv, NEW r \in Conns, ReadDefault(r)
  PROVE  CatalogsIInv'
<1>0. /\ req[r] \in Request /\ CatalogsSound(req[r], catalogs) /\ req[r].pc = "read"
      /\ UNCHANGED <<readable, catalogs, items>> /\ Default \in Catalog
  BY CatalogsAssumption DEF CatalogsAssumption, CatalogsIInv, Shape, ReadDefault, Default,
     Catalog
<1>1. CASE Default \in catalogs \cup req[r].made
  <2> DEFINE q == [req[r] EXCEPT !.pc = "add", !.catalog = Default]
  <2>1. req' = [req EXCEPT ![r] = q]
    BY <1>1 DEF ReadDefault
  <2>2. q \in Request
    BY <1>0 DEF Request
  <2>3. /\ q.made = req[r].made /\ q.pc = "add" /\ q.blog = req[r].blog
        /\ q.catalog = Default /\ q.answer = req[r].answer
    BY <1>0 DEF Request
  <2> HIDE DEF q
  <2>4. CatalogsSound(q, catalogs)
    BY <1>0, <1>1, <2>3 DEF CatalogsSound
  <2>5. \A s \in Conns \ {r} : \A c \in q.made, d \in req[s].made : ~Conflict(c, d)
    BY <2>3 DEF CatalogsIInv, CatalogsApart
  <2> QED BY <1>0, <2>1, <2>2, <2>4, <2>5, RequestStep
<1>2. CASE Default \notin catalogs \cup req[r].made
  <2>1. Finish(r, "no_default")
    BY <1>2 DEF ReadDefault
  <2>2. Namesake \in catalogs
    BY <1>0, <1>2 DEF CatalogsSound
  <2> QED BY <1>0, <2>1, <2>2, FinishIs, EndStep
<1> QED BY <1>1, <1>2

LEMMA AddItemStep ==
  ASSUME CatalogsIInv, NEW r \in Conns, AddItem(r)
  PROVE  CatalogsIInv'
<1> DEFINE q == [req[r] EXCEPT !.pc = "commit"]
<1>0. req[r] \in Request /\ CatalogsSound(req[r], catalogs) /\ req[r].pc = "add"
  BY DEF CatalogsIInv, Shape, AddItem
<1>1. req' = [req EXCEPT ![r] = q] /\ UNCHANGED <<readable, catalogs, items>>
  BY DEF AddItem
<1>2. /\ q \in Request /\ q.made = req[r].made /\ q.pc = "commit" /\ q.blog = req[r].blog
      /\ q.catalog = req[r].catalog /\ q.answer = req[r].answer
  BY <1>0 DEF Request
<1> HIDE DEF q
<1>3. CatalogsSound(q, catalogs)
  BY <1>0, <1>2 DEF CatalogsSound
<1>4. \A s \in Conns \ {r} : \A c \in q.made, d \in req[s].made : ~Conflict(c, d)
  BY <1>2 DEF CatalogsIInv, CatalogsApart
<1> QED BY <1>1, <1>2, <1>3, <1>4, RequestStep

LEMMA CommitSaveStep ==
  ASSUME CatalogsIInv, NEW r \in Conns, CommitSave(r)
  PROVE  CatalogsIInv'
<1>0. /\ req[r] \in Request /\ CatalogsSound(req[r], catalogs)
      /\ req[r].pc = "commit" /\ req[r].blog # NoBlog
      /\ catalogs' = catalogs \cup req[r].made /\ readable' = readable
      /\ items' = items \cup {<<req[r].catalog, req[r].blog>>} /\ Finish(r, "saved")
  BY DEF CatalogsIInv, Shape, CommitSave
<1>1. req[r].catalog \in catalogs' /\ req[r].blog \in Blogs
  BY <1>0 DEF CatalogsSound, Request
<1>2. items' \subseteq catalogs' \X Blogs
  BY <1>0, <1>1 DEF CatalogsIInv, Shape
<1> QED BY <1>0, <1>2, FinishIs, CommitStep

LEMMA StartCreateStep ==
  ASSUME CatalogsIInv, NEW r \in Conns, NEW n \in Names, StartCreate(r, n)
  PROVE  CatalogsIInv'
<1> DEFINE q == [NoRequest EXCEPT !.pc = "create", !.catalog = [name |-> n, default |-> FALSE]]
<1>1. q \in Request
  BY DEF NoRequest, Request, Catalog
<1>2. /\ q.made = {} /\ q.blog = NoBlog /\ q.pc = "create" /\ q.answer = "none"
      /\ q.catalog \in Catalog /\ ~q.catalog.default
  BY DEF NoRequest, Catalog
<1>3. req' = [req EXCEPT ![r] = q] /\ UNCHANGED <<readable, catalogs, items>>
  BY DEF StartCreate
<1> HIDE DEF q
<1>4. CatalogsSound(q, catalogs)
  BY <1>2 DEF CatalogsSound
<1> QED BY <1>1, <1>2, <1>3, <1>4, RequestStep

LEMMA CreateStep ==
  ASSUME CatalogsIInv, NEW r \in Conns, Create(r)
  PROVE  CatalogsIInv'
<1>0. /\ req[r] \in Request /\ CatalogsSound(req[r], catalogs) /\ req[r].pc = "create"
      /\ ~Waits(r, req[r].catalog) /\ UNCHANGED <<readable, catalogs, items>>
  BY DEF CatalogsIInv, Shape, Create
<1>1. CASE Taken(req[r].catalog)
  BY <1>0, <1>1, FinishIs, EndStep DEF Create
<1>2. CASE ~Taken(req[r].catalog)
  <2> DEFINE q == [req[r] EXCEPT !.pc = "commit", !.made = {req[r].catalog}]
  <2>1. req' = [req EXCEPT ![r] = q]
    BY <1>2 DEF Create
  <2>2. /\ q \in Request /\ q.made = {req[r].catalog} /\ q.pc = "commit"
        /\ q.blog = NoBlog /\ q.answer = req[r].answer
    BY <1>0 DEF Request, CatalogsSound
  <2> HIDE DEF q
  <2>3. CatalogsSound(q, catalogs)
    BY <1>0, <1>2, <2>2 DEF CatalogsSound, Taken
  <2>4. \A s \in Conns \ {r} : \A c \in q.made, d \in req[s].made : ~Conflict(c, d)
    BY <1>0, <2>2 DEF Waits, Rivals
  <2> QED BY <1>0, <2>1, <2>2, <2>3, <2>4, RequestStep
<1> QED BY <1>1, <1>2

LEMMA CommitCreateStep ==
  ASSUME CatalogsIInv, NEW r \in Conns, CommitCreate(r)
  PROVE  CatalogsIInv'
<1>1. items' \subseteq catalogs' \X Blogs
  BY DEF CatalogsIInv, Shape, CommitCreate
<1> QED BY <1>1, FinishIs, CommitStep DEF CommitCreate

LEMMA BackStep ==
  ASSUME CatalogsIInv, NEW r \in Conns, Reply(r) \/ RollBack(r)
  PROVE  CatalogsIInv'
<1>1. NoRequest \in Request /\ NoRequest.made = {} /\ NoRequest.pc = "idle"
      /\ NoRequest.answer = "none"
  BY DEF NoRequest, Request
<1>2. req' = [req EXCEPT ![r] = NoRequest] /\ UNCHANGED <<readable, catalogs, items>>
  BY DEF Reply, RollBack
<1> QED BY <1>1, <1>2, EndStep

\* Steps that touch no request and no collection.
LEMMA QuietStep ==
  ASSUME CatalogsIInv, UNCHANGED <<catalogs, req>>, items' \subseteq items,
         readable' \subseteq readable
  PROVE  CatalogsIInv'
<1>1. Shape' /\ OneOfAKind' /\ DefaultIsSaved' /\ CatalogsApart'
  BY DEF CatalogsIInv, Shape, OneOfAKind, DefaultIsSaved, CatalogsApart
<1> QED BY <1>1 DEF CatalogsIInv

LEMMA CatalogsStep == CatalogsIInv /\ [Next]_vars => CatalogsIInv'
<1> SUFFICES ASSUME CatalogsIInv, [Next]_vars PROVE CatalogsIInv'
  OBVIOUS
<1>1. CASE UNCHANGED vars
  <2>1. UNCHANGED <<catalogs, req>> /\ items' \subseteq items /\ readable' \subseteq readable
    BY <1>1 DEF vars
  <2> QED BY <2>1, QuietStep
<1>2. ASSUME NEW r \in Conns, Saving(r) PROVE CatalogsIInv'
  BY <1>2, StartSaveStep, EnsureStep, ReadDefaultStep, AddItemStep, CommitSaveStep
     DEF Saving
<1>3. ASSUME NEW r \in Conns, Creating(r) PROVE CatalogsIInv'
  BY <1>3, StartCreateStep, CreateStep, CommitCreateStep DEF Creating
<1>4. ASSUME NEW r \in Conns, Reply(r) \/ RollBack(r) PROVE CatalogsIInv'
  BY <1>4, BackStep
<1>5. ASSUME NEW b \in Blogs, Archive(b) PROVE CatalogsIInv'
  BY <1>5, QuietStep DEF Archive
<1>6. ASSUME NEW b \in Blogs, NEW c \in Catalog, RemoveItem(c, b) PROVE CatalogsIInv'
  BY <1>6, QuietStep DEF RemoveItem
<1> QED BY <1>1, <1>2, <1>3, <1>4, <1>5, <1>6 DEF Next

-----------------------------------------------------------------------------
(* The theorems.                                                           *)

\* The invariant the rest follows from.
THEOREM CatalogsInvariance == Spec => []CatalogsIInv
<1> QED BY CatalogsInitOK, CatalogsStep, PTL DEF Spec

\* Types; every saved item is in a collection; and no two collections,
\* committed or not, that an index forbids together.
THEOREM CatalogsTypeCorrect == Spec => []TypeOK
<1>1. ASSUME CatalogsIInv PROVE TypeOK
  <2> DEFINE all == catalogs \cup UNION {req[r].made : r \in Conns}
  <2>1. ASSUME NEW c \in all, NEW d \in all, Conflict(c, d) PROVE c = d
    <3>0. Conflict(d, c)
      BY <2>1 DEF Conflict
    <3>1. ASSUME NEW r \in Conns, NEW e \in req[r].made, NEW f \in catalogs
          PROVE  ~Conflict(e, f)
      BY <1>1 DEF CatalogsIInv, CatalogsSound
    <3>2. ASSUME NEW r \in Conns, NEW s \in Conns, NEW e \in req[r].made, NEW f \in req[s].made,
                 Conflict(e, f)
          PROVE  e = f
      BY <1>1, <3>2 DEF CatalogsIInv, CatalogsSound, CatalogsApart
    <3>3. CASE c \in catalogs /\ d \in catalogs
      BY <1>1, <2>1, <3>3 DEF CatalogsIInv, OneOfAKind
    <3>4. CASE c \notin catalogs /\ d \in catalogs
      BY <2>1, <3>1, <3>4
    <3>5. CASE c \in catalogs /\ d \notin catalogs
      BY <3>0, <3>1, <3>5
    <3>6. CASE c \notin catalogs /\ d \notin catalogs
      <4>1. PICK r \in Conns : c \in req[r].made BY <3>6
      <4>2. PICK s \in Conns : d \in req[s].made BY <3>6
      <4> QED BY <2>1, <3>2, <4>1, <4>2
    <3> QED BY <3>3, <3>4, <3>5, <3>6
  <2> QED BY <1>1, <2>1 DEF CatalogsIInv, Shape, TypeOK
<1> QED BY <1>1, CatalogsInvariance, PTL

\* However many first saves race, for any number of users' collections: all
\* of them find the default collection, unless the user has made another of
\* the same name.
THEOREM Converges == Spec => []FirstSaveConverges
<1>1. CatalogsIInv => FirstSaveConverges
  BY DEF CatalogsIInv, CatalogsSound, FirstSaveConverges, Namesake
<1> QED BY <1>1, CatalogsInvariance, PTL

(*-------------------------------------------------------------------------*)
(* Listing: pages of a list that changes.                                  *)
(*-------------------------------------------------------------------------*)

\* The status of a row the scan vouches for is the one it asks for.
SteadyInList == \A i \in steady : InList(i)

\* Where the rows of the list are, seen from the cursor.
Beyond(k) == cursor = NoCursor \/ BelowCursor(k)

Progress ==
  outcome = "reading" =>
    /\ \A i \in steady : KeyOf(i) \in got \/ Beyond(KeyOf(i))
    /\ \A k \in got : ~Beyond(k)

ListingIInv == ListingTypeOK /\ SteadyInList /\ Progress /\ ScanIsExact

-----------------------------------------------------------------------------
(* The order.                                                              *)

\* Ids and stamps are numbers.
LEMMA Numbers ==
  RowIds \subseteq Nat /\ Stamps \subseteq Nat /\ NoStamp \notin Stamps /\ 0 \in Stamps
BY ListingAssumption DEF ListingAssumption, Stamps

\* ORDER BY is irreflexive, asymmetric and transitive.
LEMMA AboveIsStrict ==
  ASSUME NEW k \in Key, NEW l \in Key, NEW m \in Key
  PROVE  /\ ~Above(k, k)
         /\ Above(k, l) => ~Above(l, k)
         /\ Above(k, l) /\ Above(l, m) => Above(k, m)
<1>1. /\ k.id \in Nat /\ l.id \in Nat /\ m.id \in Nat
      /\ k.at # NoStamp => k.at \in Nat
      /\ l.at # NoStamp => l.at \in Nat
      /\ m.at # NoStamp => m.at \in Nat
  BY Numbers DEF Key
<1>2. ~Above(k, k)
  BY <1>1 DEF Above
<1>3. Above(k, l) => ~Above(l, k)
  BY <1>1 DEF Above
<1>4. Above(k, l) /\ Above(l, m) => Above(k, m)
  BY <1>1 DEF Above
<1> QED BY <1>2, <1>3, <1>4

\* A row after one that has a stamp has one.
LEMMA StampsEndFirst ==
  ASSUME NEW k, NEW m, k.at # NoStamp, Above(k, m)
  PROVE  m.at # NoStamp
BY DEF Above

-----------------------------------------------------------------------------
(* Writers.                                                                *)

LEMMA ListingInitOK == ListingInit => ListingIInv
<1> SUFFICES ASSUME ListingInit PROVE ListingIInv
  OBVIOUS
<1>1. ListingTypeOK
  BY Numbers DEF ListingInit, ListingTypeOK, Statuses, Row
<1> QED BY <1>1 DEF ListingInit, ListingIInv, SteadyInList, Progress, ScanIsExact

\* A write that leaves the scan alone but for the rows it vouches for.
LEMMA WriteStep ==
  ASSUME ListingIInv, UNCHANGED scan, ListingTypeOK', steady' \subseteq steady,
         \A i \in steady' : rows'[i] = rows[i]
  PROVE  ListingIInv'
<1>1. \A i \in steady' : KeyOf(i)' = KeyOf(i) /\ (InList(i)' <=> InList(i))
  BY DEF KeyOf, InList, scan
<1>2. \A k : BelowCursor(k)' <=> BelowCursor(k)
  BY DEF BelowCursor, Above, scan
<1>3. SteadyInList'
  BY <1>1 DEF ListingIInv, SteadyInList
<1>4. Progress'
  BY <1>1, <1>2 DEF ListingIInv, Progress, Beyond, scan
<1>5. ScanIsExact'
  BY <1>1 DEF ListingIInv, ScanIsExact, scan
<1> QED BY <1>3, <1>4, <1>5 DEF ListingIInv

\* The types of a row that is rewritten.
LEMMA RowStep ==
  ASSUME ListingIInv, UNCHANGED <<kind, now, scan>>, NEW i \in RowIds, NEW st \in Statuses,
         NEW at \in Stamps \cup {NoStamp}, st = "shown" => at # NoStamp,
         NewRow(i, st, at), KeepSteady, begun' \in [RowIds -> Stamps \cup {NoStamp}]
  PROVE  ListingIInv'
<1>1. ListingTypeOK'
  <2>1. rows' \in [RowIds -> Row]
    BY DEF ListingIInv, ListingTypeOK, NewRow, Row
  <2>2. \A j \in RowIds : rows'[j].status = "shown" => rows'[j].at # NoStamp
    BY DEF ListingIInv, ListingTypeOK, NewRow
  <2> QED BY <2>1, <2>2 DEF ListingIInv, ListingTypeOK, KeepSteady, scan
<1>2. steady' \subseteq steady /\ \A j \in steady' : rows'[j] = rows[j]
  BY DEF KeepSteady
<1> QED BY <1>1, <1>2, WriteStep

LEMMA WritingStep ==
  ASSUME ListingIInv, NEW i \in RowIds, Writing(i)
  PROVE  ListingIInv'
<1> USE DEF ListingIInv, ListingTypeOK
<1>t. rows[i] \in Row /\ begun[i] \in Stamps \cup {NoStamp} /\ now \in Stamps
  OBVIOUS
<1>1. ASSUME BeginWrite(i) PROVE ListingIInv'
  <2>1. ListingTypeOK' BY <1>1, <1>t DEF BeginWrite, scan
  <2> QED BY <1>1, <2>1, WriteStep DEF BeginWrite
<1>2. ASSUME Abandon(i) PROVE ListingIInv'
  <2>1. ListingTypeOK' BY <1>2, <1>t DEF Abandon, Settle, scan
  <2> QED BY <1>2, <2>1, WriteStep DEF Abandon
<1>3. ASSUME Hide(i) PROVE ListingIInv'
  <2>1. rows[i].at \in Stamps \cup {NoStamp} BY <1>t DEF Row
  <2> QED BY <1>3, <2>1, RowStep DEF Hide, Statuses
<1>4. ASSUME Remove(i) PROVE ListingIInv'
  BY <1>4, RowStep DEF Remove, Statuses
<1>5. ASSUME NEW st \in {"draft", "shown"}, InsertRow(i, st) PROVE ListingIInv'
  <2>1. begun' \in [RowIds -> Stamps \cup {NoStamp}] BY <1>5 DEF InsertRow, Settle
  <2>2. CASE st = "draft" BY <1>5, <2>1, <2>2, RowStep DEF InsertRow, Statuses
  <2>3. CASE st = "shown" BY <1>5, <1>t, <2>1, <2>3, RowStep DEF InsertRow, Statuses
  <2> QED BY <2>2, <2>3
<1>6. ASSUME NEW st \in {"draft", "shown"}, SetRowStatus(i, st) PROVE ListingIInv'
  <2>1. begun' \in [RowIds -> Stamps \cup {NoStamp}] BY <1>6 DEF SetRowStatus, Settle
  <2>2. /\ StampAfter(i, st) \in Stamps \cup {NoStamp}
        /\ st = "shown" => StampAfter(i, st) # NoStamp
    BY <1>6, <1>t DEF SetRowStatus, StampAfter, Row
  <2> QED BY <1>6, <2>1, <2>2, RowStep DEF SetRowStatus, Statuses
<1> QED BY <1>1, <1>2, <1>3, <1>4, <1>5, <1>6 DEF Writing

LEMMA TickStep ==
  ASSUME ListingIInv, Tick
  PROVE  ListingIInv'
<1>1. ListingTypeOK'
  BY ListingAssumption DEF ListingAssumption, ListingIInv, ListingTypeOK, Tick, Stamps, scan
<1> QED BY <1>1, WriteStep DEF Tick

-----------------------------------------------------------------------------
(* The reader.                                                             *)

LEMMA OpenStep ==
  ASSUME ListingIInv, NEW st \in Statuses, OpenList(st)
  PROVE  ListingIInv'
BY DEF ListingIInv, ListingTypeOK, SteadyInList, Progress, ScanIsExact, OpenList, Beyond,
   InList

LEMMA CloseStep ==
  ASSUME ListingIInv, CloseList
  PROVE  ListingIInv'
BY DEF ListingIInv, ListingTypeOK, SteadyInList, Progress, ScanIsExact, CloseList, Statuses

\* What the query returns and leaves, for rows the scan vouches for.
LEMMA CandidatesAre ==
  ASSUME ListingIInv, outcome = "reading"
  PROVE  /\ Candidates \subseteq Key
         /\ \A k \in Candidates : Beyond(k) /\ (filter = "shown" => k.at # NoStamp)
         /\ \A i \in steady : KeyOf(i) \in got \cup Candidates
         /\ Candidates \cap got = {}
<1>1. ASSUME NEW k \in Candidates
      PROVE  k \in Key /\ Beyond(k) /\ (filter = "shown" => k.at # NoStamp)
  <2>1. PICK i \in RowIds : /\ k = KeyOf(i) /\ InList(i)
                            /\ cursor # NoCursor => BelowCursor(KeyOf(i))
    BY DEF Candidates
  <2>2. k \in Key
    BY <2>1 DEF ListingIInv, ListingTypeOK, KeyOf, Key, Row
  <2> QED BY <2>1, <2>2 DEF ListingIInv, ListingTypeOK, Beyond, KeyOf, InList
<1>2. ASSUME NEW i \in steady PROVE KeyOf(i) \in got \cup Candidates
  <2>1. i \in RowIds /\ InList(i)
    BY DEF ListingIInv, ListingTypeOK, SteadyInList
  <2> QED BY <2>1 DEF ListingIInv, Progress, Beyond, Candidates
<1>3. Candidates \cap got = {}
  BY <1>1 DEF ListingIInv, Progress
<1> QED BY <1>1, <1>2, <1>3

LEMMA ReadStep ==
  ASSUME ListingIInv, NEW n \in Limits, ReadPage(n)
  PROVE  ListingIInv'
<1>1. PICK page \in SUBSET Candidates :
        /\ FirstOf(page, n, Candidates)
        /\ IF page = Candidates
           THEN cursor' = cursor /\ outcome' = "complete"
           ELSE \E last \in page :
                  /\ \A k \in page \ {last} : Above(k, last)
                  /\ IF last.at = NoStamp
                     THEN cursor' = cursor /\ outcome' = "failed"
                     ELSE cursor' = last /\ outcome' = "reading"
        /\ IF outcome' = "failed"
           THEN UNCHANGED <<got, again>>
           ELSE got' = got \cup page /\ again' = (again \/ page \cap got # {})
  BY DEF ReadPage
<1>2. outcome = "reading" /\ UNCHANGED <<kind, rows, begun, now, filter, steady>>
  BY DEF ReadPage
<1>3. /\ Candidates \subseteq Key
      /\ \A k \in Candidates : Beyond(k) /\ (filter = "shown" => k.at # NoStamp)
      /\ \A i \in steady : KeyOf(i) \in got \cup Candidates
      /\ Candidates \cap got = {}
  BY <1>2, CandidatesAre
<1>4. SteadyInList' /\ \A i : KeyOf(i)' = KeyOf(i)
  BY <1>2 DEF ListingIInv, SteadyInList, InList, KeyOf
<1>5. got' \subseteq Key /\ again' = FALSE
  BY <1>1, <1>3 DEF ListingIInv, ListingTypeOK, ScanIsExact
<1>6. CASE page = Candidates
  <2>1. got' = got \cup Candidates /\ outcome' = "complete" /\ cursor' = cursor
    BY <1>1, <1>6
  <2> QED BY <1>2, <1>3, <1>4, <1>5, <2>1 DEF ListingIInv, ListingTypeOK, Progress, ScanIsExact
<1>7. CASE page # Candidates
  <2>1. PICK last \in page :
          /\ \A k \in page \ {last} : Above(k, last)
          /\ IF last.at = NoStamp
             THEN cursor' = cursor /\ outcome' = "failed"
             ELSE cursor' = last /\ outcome' = "reading"
    BY <1>1, <1>7
  <2>2. last \in Candidates /\ last \in Key
    BY <1>3
  <2>3. CASE last.at = NoStamp
    BY <1>2, <1>3, <1>4, <1>5, <2>1, <2>2, <2>3 DEF ListingIInv, ListingTypeOK, Progress,
       ScanIsExact
  <2>4. CASE last.at # NoStamp
    <3>1. cursor' = last /\ outcome' = "reading" /\ got' = got \cup page
      BY <1>1, <2>1, <2>4
    <3>2. last # NoCursor
      BY <2>2, NoCursorAssumption DEF NoCursorAssumption
    <3>3. ASSUME NEW m \in Candidates \ page PROVE Beyond(m)'
      <4>1. Above(last, m)
        BY <1>1 DEF FirstOf
      <4>2. m.at # NoStamp
        BY <4>1, <2>4, StampsEndFirst
      <4> QED BY <3>1, <4>1, <4>2 DEF Beyond, BelowCursor, Above
    <3>4. ASSUME NEW k \in page PROVE ~Beyond(k)'
      <4>1. k \in Key
        BY <1>3
      <4>2. ~Above(last, k)
        <5>1. CASE k = last BY <5>1, <2>2, AboveIsStrict
        <5>2. CASE k # last
          <6>1. Above(k, last) BY <2>1, <5>2
          <6> QED BY <6>1, <4>1, <2>2, AboveIsStrict
        <5> QED BY <5>1, <5>2
      <4> QED BY <3>1, <3>2, <4>2 DEF Beyond, BelowCursor, Above
    <3>5. ASSUME NEW k \in got PROVE ~Beyond(k)'
      <4>1. cursor # NoCursor /\ ~BelowCursor(k) /\ cursor \in Key /\ k \in Key
        BY <1>2 DEF ListingIInv, ListingTypeOK, Progress, Beyond
      <4>2. Above(cursor, last)
        BY <1>3, <2>2, <4>1 DEF Beyond, BelowCursor
      <4>3. ASSUME k.at # NoStamp, Above(last, k) PROVE FALSE
        <5>1. Above(cursor, k) BY <4>1, <4>2, <4>3, <2>2, AboveIsStrict
        <5> QED BY <4>1, <4>3, <5>1 DEF BelowCursor
      <4> QED BY <3>1, <3>2, <4>3 DEF Beyond, BelowCursor, Above
    <3>6. Progress'
      <4>1. ASSUME NEW i \in steady' PROVE (KeyOf(i) \in got \/ Beyond(KeyOf(i)))'
        BY <1>2, <1>3, <1>4, <3>1, <3>3
      <4>2. \A k \in got' : ~Beyond(k)'
        BY <3>1, <3>4, <3>5
      <4> QED BY <4>1, <4>2 DEF Progress
    <3>7. ListingTypeOK'
      BY <1>2, <1>5, <2>2, <3>1 DEF ListingIInv, ListingTypeOK
    <3>8. ScanIsExact'
      BY <1>5, <3>1 DEF ScanIsExact
    <3> QED BY <1>4, <3>6, <3>7, <3>8 DEF ListingIInv
  <2> QED BY <2>3, <2>4
<1> QED BY <1>6, <1>7

-----------------------------------------------------------------------------
(* The theorems.                                                           *)

LEMMA ListingStep == ListingIInv /\ [ListingNext]_listingVars => ListingIInv'
<1> SUFFICES ASSUME ListingIInv, [ListingNext]_listingVars PROVE ListingIInv'
  OBVIOUS
<1>1. CASE UNCHANGED listingVars
  <2>1. ListingTypeOK' BY <1>1 DEF ListingIInv, ListingTypeOK, listingVars, scan
  <2>2. UNCHANGED scan /\ steady' = steady /\ rows' = rows
    BY <1>1 DEF listingVars, scan
  <2> QED BY <2>1, <2>2, WriteStep
<1>2. CASE ListingNext
  BY <1>2, WritingStep, OpenStep, ReadStep, CloseStep, TickStep DEF ListingNext
<1> QED BY <1>1, <1>2

\* The invariant the rest follows from.
THEOREM ListingInvariance == ListingSpec => []ListingIInv
<1> QED BY ListingInitOK, ListingStep, PTL DEF ListingSpec

\* Types, and that everything published says since when.
THEOREM ListingTypeCorrect == ListingSpec => []ListingTypeOK
<1>1. ListingIInv => ListingTypeOK
  BY DEF ListingIInv
<1> QED BY <1>1, ListingInvariance, PTL

\* Whatever is published, revised, archived or deleted while somebody reads on,
\* for lists, pages and clocks of any size: no row twice, none that stayed is
\* missing, and the public lists never fail.
THEOREM Exactness == ListingSpec => []ScanIsExact
<1>1. ListingIInv => ScanIsExact
  BY DEF ListingIInv
<1> QED BY <1>1, ListingInvariance, PTL

(*-------------------------------------------------------------------------*)
(* Discussion: comments, and the sample thread.                            *)
(*-------------------------------------------------------------------------*)

\* What a request has written, or is about to write, against the table.
DiscussionSound(p) ==
  LET q == talk[p] IN
  /\ q.pc = "idle" => q = NoPosting
  /\ q.pc = "insert" => q.id \in Ids \ Used
  /\ q.pc \in {"edit", "delete"} => q.id \in Used /\ p \in Sessions /\ q.by # NoReader
  /\ q.pc \in {"insert", "commit"} => q.row \in Comment
  /\ q.pc \in {"insert", "commit"} /\ q.id \notin Used =>
       q.row.deletedBy = NoReader /\ (p \in Sessions => q.row.text = "plain")
  /\ q.pc = "commit" => q.id \in Ids
  /\ q.pc = "commit" /\ q.id \notin Used => ~Refused(q.row)
  /\ q.pc = "commit" /\ q.id \in Used =>
       /\ Live(q.id)
       /\ q.row.author = comments[q.id].author /\ q.row.blog = comments[q.id].blog
       /\ q.row.parent = comments[q.id].parent
       /\ q.row.text \in {"plain", comments[q.id].text}

\* Two requests write different rows, and two new roots are of different
\* readers or articles.
DiscussionApart ==
  \A p, q \in Clients : p # q /\ talk[p].pc \in {"insert", "commit"}
                              /\ talk[q].pc \in {"insert", "commit"} =>
    /\ talk[p].id # talk[q].id
    /\ talk[p].pc = "commit" /\ talk[q].pc = "commit" /\ talk[p].id \notin Used
         /\ talk[q].id \notin Used /\ talk[p].row.parent = NoId /\ talk[q].row.parent = NoId
       => talk[p].row.author # talk[q].row.author \/ talk[p].row.blog # talk[q].row.blog

\* The thread a run has started, and what it is about to add to it.
Replied(i) == \E j \in Used : comments[j].parent = i /\ comments[j].text = "sample"

Scripted(s) ==
  LET q == talk[s]
      d == seed[s] IN
  /\ d.pc \in {"off", "look"} => q.pc = "idle"
  /\ d.pc # "off" => d.blog \in Articles
  /\ q.pc # "idle" =>
       /\ q.id \notin Used /\ q.row.blog = d.blog
       /\ d.pc = "root" => q.row.parent = NoId /\ q.row.author = SeedAuthor
       /\ d.pc = "reply" => q.row.parent = d.root
  /\ d.pc = "reply" =>
       /\ Root(d.root) /\ comments[d.root].author = SeedAuthor /\ comments[d.root].blog = d.blog
       /\ ~Replied(d.root)

ThreadsApart ==
  \A s, t \in Scripts : seed[s].pc = "reply" /\ seed[t].pc = "reply" /\ seed[s].root = seed[t].root
                          => s = t

\* A sample reply is the only one of its thread, which is the script's.
OneSample ==
  \A i, j \in Used :
    ~Root(i) /\ comments[i].text = "sample" =>
      /\ comments[comments[i].parent].author = SeedAuthor
      /\ comments[j].text = "sample" /\ comments[j].parent = comments[i].parent => i = j

DiscussionIInv ==
  /\ DiscussionTypeOK /\ OneVoicePerReader /\ DiscussionApart /\ ThreadsApart /\ OneSample
  /\ \A p \in Clients : DiscussionSound(p)
  /\ \A s \in Scripts : Scripted(s)

-----------------------------------------------------------------------------
(* Rows and ids.                                                           *)

\* A set of numbers that is not empty has a least one.
LEMMA LeastNat ==
  ASSUME NEW T, T \subseteq Nat, T # {}
  PROVE  \E x \in T : \A y \in T : x <= y
<1> DEFINE R == OpToRel(<, Nat)
<1>1. IsWellFoundedOn(R, Nat)
  BY NatLessThanWellFounded
<1>2. \A x, y \in Nat : <<y, x>> \in R <=> y < x
  BY DEF OpToRel
<1> HIDE DEF R
<1>3. PICK x \in T : \A y \in T : <<y, x>> \notin R
  BY <1>1, WFMin
<1>4. x \in Nat /\ \A y \in T : y \in Nat /\ ~(y < x)
  BY <1>2, <1>3
<1> QED BY <1>4

\* new_id() is the id of no row and of no transaction.
LEMMA NewIdIsFresh == Fresh # {} => NewId \in Fresh
<1>1. Fresh \subseteq Nat
  BY DEF Fresh, Ids
<1> QED BY <1>1, LeastNat DEF NewId

LEMMA NoIdIsNone == NoId \notin Ids /\ NoId \notin Used
BY DEF NoId, Ids, Used

LEMMA NoCommentIsNone == NoComment \notin Comment
BY DiscussionAssumption DEF NoComment, Comment, DiscussionAssumption

LEMMA NoPostingIsOne == NoPosting \in Posting /\ NoPosting.pc = "idle" /\ NoRun \in Run
BY DEF NoPosting, Posting, NoRun, Run

\* What is in the table is a comment.
LEMMA UsedAreComments ==
  ASSUME DiscussionTypeOK
  PROVE  Used \subseteq Ids /\ \A i \in Used : comments[i] \in Comment
BY DEF DiscussionTypeOK, Used

LEMMA DiscussionInitOK == DiscussionInit => DiscussionIInv
<1> SUFFICES ASSUME DiscussionInit PROVE DiscussionIInv
  OBVIOUS
<1>1. Used = {}
  BY DEF DiscussionInit, Used
<1>2. DiscussionTypeOK
  BY NoPostingIsOne, DiscussionAssumption DEF DiscussionInit, DiscussionTypeOK, NoPosting,
     NoRun, DiscussionAssumption
<1>3. OneVoicePerReader /\ OneSample
  BY <1>1 DEF OneVoicePerReader, OneSample
<1>4. DiscussionApart /\ ThreadsApart
  BY DEF DiscussionInit, DiscussionApart, ThreadsApart, NoPosting, NoRun
<1>5. \A p \in Clients : DiscussionSound(p)
  BY DEF DiscussionInit, DiscussionSound, NoPosting
<1>6. \A s \in Scripts : Scripted(s)
  BY DEF DiscussionInit, Scripted, Clients, NoPosting, NoRun
<1> QED BY <1>2, <1>3, <1>4, <1>5, <1>6 DEF DiscussionIInv

-----------------------------------------------------------------------------
(* Steps that leave the table alone.                                       *)

\* A step of one client.
LEMMA ClientStep ==
  ASSUME DiscussionIInv, NEW p \in Clients, NEW q \in Posting, talk' = [talk EXCEPT ![p] = q],
         comments' = comments, published' \subseteq Articles, asked' \in 0 .. MaxAsked,
         runs' \in 0 .. MaxRuns, seed' \in [Scripts -> Run],
         \A s \in Scripts : s # p => seed'[s] = seed[s],
         p \in Scripts /\ seed'[p].pc = "reply" =>
           seed[p].pc = "reply" /\ seed'[p].root = seed[p].root,
         DiscussionSound(p)', p \in Scripts => Scripted(p)',
         \A r \in Clients \ {p} :
           q.pc \in {"insert", "commit"} /\ talk[r].pc \in {"insert", "commit"} =>
             /\ q.id # talk[r].id
             /\ q.pc = "commit" /\ talk[r].pc = "commit"
              /\ q.id \notin Used /\ talk[r].id \notin Used
                  /\ q.row.parent = NoId /\ talk[r].row.parent = NoId
                => q.row.author # talk[r].row.author \/ q.row.blog # talk[r].row.blog
  PROVE  DiscussionIInv'
<1>1. \A r \in Clients : talk'[r] = IF r = p THEN q ELSE talk[r]
  BY DEF DiscussionIInv, DiscussionTypeOK
<1>2. Used' = Used /\ \A i : Root(i)' <=> Root(i)
  BY DEF Used, Root
<1>3. \A i : (Live(i)' <=> Live(i)) /\ (Replied(i)' <=> Replied(i))
  BY <1>2 DEF Live, Replied
<1>4. \A row : Refused(row)' <=> Refused(row)
  BY <1>2, <1>3 DEF Refused, Standing
<1>5. ASSUME NEW r \in Clients PROVE DiscussionSound(r)'
  <2>1. CASE r # p
    <3>1. DiscussionSound(r)
      BY DEF DiscussionIInv
    <3> QED BY <1>1, <1>2, <1>3, <1>4, <2>1, <3>1 DEF DiscussionSound
  <2> QED BY <2>1
<1>6. ASSUME NEW s \in Scripts PROVE Scripted(s)'
  <2>1. CASE s # p
    BY <1>1, <1>2, <1>3, <2>1 DEF DiscussionIInv, Scripted, Clients
  <2> QED BY <2>1
<1>7. DiscussionTypeOK'
  <2>1. \A r \in Clients : talk'[r].pc \in {"insert", "commit"} => talk'[r].row # NoComment
    BY <1>5, NoCommentIsNone DEF DiscussionSound
  <2>2. \A s \in Scripts : seed'[s].pc = "reply" => seed'[s].root \in Used'
    BY <1>6 DEF Scripted, Root
  <2>3. talk' \in [Clients -> Posting]
    BY DEF DiscussionIInv, DiscussionTypeOK
  <2> QED BY <2>1, <2>2, <2>3 DEF DiscussionIInv, DiscussionTypeOK
<1>8. OneVoicePerReader' /\ OneSample'
  BY <1>2, <1>3 DEF DiscussionIInv, OneVoicePerReader, OneSample
<1>9. DiscussionApart'
  BY <1>1, <1>2 DEF DiscussionIInv, DiscussionApart
<1>10. ThreadsApart'
  BY DEF DiscussionIInv, ThreadsApart
<1> QED BY <1>5, <1>6, <1>7, <1>8, <1>9, <1>10 DEF DiscussionIInv

\* The request ends without having stored anything, and a run with it.
LEMMA RefusedStep ==
  ASSUME DiscussionIInv, NEW p \in Clients, Answer(p, FALSE),
         UNCHANGED <<published, comments, runs>>,
         asked' \in 0 .. MaxAsked
  PROVE  DiscussionIInv'
<1>1. talk' = [talk EXCEPT ![p] = NoPosting] /\ talk'[p] = NoPosting
  BY DEF Answer, DiscussionIInv, DiscussionTypeOK
<1>2. /\ seed' \in [Scripts -> Run]
      /\ \A s \in Scripts : s # p => seed'[s] = seed[s]
      /\ p \in Scripts => seed'[p] = NoRun
  BY NoPostingIsOne, DiscussionAssumption DEF Answer, DiscussionIInv, DiscussionTypeOK,
     DiscussionAssumption
<1>3. DiscussionSound(p)'
  BY <1>1 DEF DiscussionSound, NoPosting
<1>4. p \in Scripts => Scripted(p)'
  BY <1>1, <1>2 DEF Scripted, NoPosting, NoRun
<1>5. published' \subseteq Articles /\ runs' \in 0 .. MaxRuns
  BY DEF DiscussionIInv, DiscussionTypeOK
<1>6. p \in Scripts => seed'[p].pc # "reply"
  BY <1>2 DEF NoRun
<1>7. NoPosting \in Posting /\ NoPosting.pc \notin {"insert", "commit"}
  BY NoPostingIsOne
<1> QED BY <1>1, <1>2, <1>3, <1>4, <1>5, <1>6, <1>7, ClientStep

\* A request begins to write a comment: in words of their own if it is a
\* reader's, and as the run of the script goes if it is the script's.
LEMMA BeginStep ==
  ASSUME DiscussionIInv, NEW p \in Clients, NEW u \in Readers, NEW b \in Articles,
         NEW parent \in Ids \cup {NoId}, NEW text \in {"plain", "sample"},
         Begin(p, u, b, parent, text), asked' \in 0 .. MaxAsked,
         p \in Sessions => text = "plain",
         p \in Scripts =>
           /\ seed[p].pc \in {"root", "reply"} /\ b = seed[p].blog
           /\ seed[p].pc = "root" => parent = NoId /\ u = SeedAuthor
           /\ seed[p].pc = "reply" => parent = seed[p].root
  PROVE  DiscussionIInv'
<1>1. CASE ~Readable(b)
  BY <1>1, RefusedStep DEF Begin
<1>2. CASE Readable(b)
  <2> DEFINE row == [author |-> u, blog |-> b, parent |-> parent, text |-> text,
                     deletedBy |-> NoReader]
             q == [pc |-> "insert", by |-> u, id |-> NewId, row |-> row]
  <2>1. NewId \in Ids \ Used /\ \A r \in Clients : talk[r].id # NewId
    BY <1>2, NewIdIsFresh DEF Begin, Fresh
  <2>2. row \in Comment /\ row.deletedBy = NoReader /\ row.text = text /\ row.blog = b
        /\ row.parent = parent /\ row.author = u
    BY DEF Comment
  <2>3. talk' = [talk EXCEPT ![p] = q] /\ UNCHANGED <<published, comments, runs, seed>>
    BY <1>2 DEF Begin
  <2> HIDE DEF row
  <2>4. q \in Posting /\ q.pc = "insert" /\ q.id = NewId /\ q.row = row
    BY <2>1, <2>2 DEF Posting
  <2> HIDE DEF q
  <2>5. talk'[p] = q /\ Used' = Used
    BY <2>3 DEF DiscussionIInv, DiscussionTypeOK, Used
  <2>6. DiscussionSound(p)'
    BY <1>2, <2>1, <2>2, <2>4, <2>5 DEF DiscussionSound
  <2>7. p \in Scripts => Scripted(p)'
    <3>1. ASSUME p \in Scripts PROVE Scripted(p)'
      <4>1. Scripted(p)
        BY <3>1 DEF DiscussionIInv
      <4>2. \A i : (Root(i)' <=> Root(i)) /\ (Replied(i)' <=> Replied(i))
        BY <2>3, <2>5 DEF Root, Replied
      <4> QED BY <2>1, <2>2, <2>3, <2>4, <2>5, <3>1, <4>1, <4>2 DEF Scripted
    <3> QED BY <3>1
  <2>8. published' \subseteq Articles /\ runs' \in 0 .. MaxRuns /\ seed' \in [Scripts -> Run]
    BY <2>3 DEF DiscussionIInv, DiscussionTypeOK
  <2> QED BY <2>1, <2>3, <2>4, <2>6, <2>7, <2>8, ClientStep
<1> QED BY <1>1, <1>2

LEMMA InsertOK ==
  ASSUME DiscussionIInv, NEW p \in Clients, Insert(p)
  PROVE  DiscussionIInv'
<1> asked' \in 0 .. MaxAsked /\ UNCHANGED <<published, comments, runs>>
  BY DEF Insert, DiscussionIInv, DiscussionTypeOK
<1>1. CASE Refused(talk[p].row)
  BY <1>1, RefusedStep DEF Insert, Refuse
<1>2. CASE ~Refused(talk[p].row)
  <2> DEFINE q == [talk[p] EXCEPT !.pc = "commit"]
  <2>1. /\ q \in Posting /\ q.pc = "commit" /\ q.id = talk[p].id /\ q.row = talk[p].row
        /\ talk' = [talk EXCEPT ![p] = q] /\ seed' = seed /\ talk[p].pc = "insert"
    BY <1>2 DEF Insert, DiscussionIInv, DiscussionTypeOK, Posting
  <2> HIDE DEF q
  <2>2. talk'[p] = q /\ Used' = Used
    BY <2>1 DEF DiscussionIInv, DiscussionTypeOK, Used
  <2>3. \A i : (Root(i)' <=> Root(i)) /\ (Live(i)' <=> Live(i)) /\ (Replied(i)' <=> Replied(i))
    BY <2>2 DEF Root, Live, Replied
  <2>4. \A row : Refused(row)' <=> Refused(row)
    BY <2>2, <2>3 DEF Refused, Standing
  <2>5. DiscussionSound(p) /\ q.id \in Ids \ Used /\ q.row \in Comment
    BY <2>1 DEF DiscussionIInv, DiscussionSound
  <2>6. DiscussionSound(p)'
    BY <1>2, <2>1, <2>2, <2>4, <2>5 DEF DiscussionSound
  <2>7. p \in Scripts => Scripted(p)'
    BY <2>1, <2>2, <2>3 DEF DiscussionIInv, Scripted
  <2>8. ASSUME NEW r \in Clients \ {p}, talk[r].pc = "commit", talk[r].id \notin Used,
               q.row.parent = NoId, talk[r].row.parent = NoId
        PROVE  q.row.author # talk[r].row.author \/ q.row.blog # talk[r].row.blog
    BY <2>1, <2>8 DEF Insert, MustWait, Others
  <2>9. \A r \in Clients \ {p} : talk[r].pc \in {"insert", "commit"} => q.id # talk[r].id
    BY <2>1 DEF DiscussionIInv, DiscussionApart
  <2>10. published' \subseteq Articles /\ runs' \in 0 .. MaxRuns /\ seed' \in [Scripts -> Run]
    BY <2>1 DEF DiscussionIInv, DiscussionTypeOK
  <2> QED BY <2>1, <2>6, <2>7, <2>8, <2>9, <2>10, ClientStep
<1> QED BY <1>1, <1>2

-----------------------------------------------------------------------------
(* Commits.                                                                *)

\* What a commit makes of the table: one row, of one id.
Stores(p, i, row) ==
  /\ talk[p].pc = "commit" /\ i = talk[p].id /\ row = talk[p].row
  /\ comments' = [comments EXCEPT ![i] = row]

LEMMA CommitFacts ==
  ASSUME DiscussionIInv, NEW p \in Clients, NEW i, NEW row, Stores(p, i, row)
  PROVE  /\ i \in Ids /\ row \in Comment /\ Used' = Used \cup {i}
         /\ \A j \in Ids : comments'[j] = IF j = i THEN row ELSE comments[j]
         /\ \A j \in Used : comments'[j].author = comments[j].author
                            /\ comments'[j].blog = comments[j].blog
                            /\ comments'[j].parent = comments[j].parent
         /\ \A j \in Used : comments'[j].deletedBy = NoReader => comments[j].deletedBy = NoReader
<1>1. /\ DiscussionSound(p) /\ talk[p].pc = "commit" /\ i = talk[p].id /\ row = talk[p].row
      /\ comments' = [comments EXCEPT ![i] = row]
  BY DEF DiscussionIInv, Stores
<1>2. i \in Ids /\ row \in Comment /\ row # NoComment
  BY <1>1, NoCommentIsNone DEF DiscussionSound
<1>3. \A j \in Ids : comments'[j] = IF j = i THEN row ELSE comments[j]
  BY <1>1, <1>2 DEF DiscussionIInv, DiscussionTypeOK
<1>4. Used' = Used \cup {i}
  BY <1>2, <1>3 DEF Used
<1>5. i \in Used => /\ Live(i) /\ row.author = comments[i].author /\ row.blog = comments[i].blog
                    /\ row.parent = comments[i].parent
  BY <1>1 DEF DiscussionSound
<1>6. \A j \in Used : comments'[j].author = comments[j].author
                      /\ comments'[j].blog = comments[j].blog
                      /\ comments'[j].parent = comments[j].parent
  BY <1>3, <1>5 DEF Used
<1>7. \A j \in Used : comments'[j].deletedBy = NoReader => comments[j].deletedBy = NoReader
  BY <1>3, <1>5 DEF Used, Live
<1> QED BY <1>2, <1>3, <1>4, <1>6, <1>7

\* The uniqueness of live roots and the foreign key of replies survive, because
\* a new row conflicts with nothing that is there.
LEMMA CommitVoice ==
  ASSUME DiscussionIInv, NEW p \in Clients, NEW i, NEW row, Stores(p, i, row)
  PROVE  OneVoicePerReader'
<1>1. /\ i \in Ids /\ row \in Comment /\ Used' = Used \cup {i}
      /\ \A j \in Ids : comments'[j] = IF j = i THEN row ELSE comments[j]
      /\ \A j \in Used : comments'[j].author = comments[j].author
                         /\ comments'[j].blog = comments[j].blog
                         /\ comments'[j].parent = comments[j].parent
      /\ \A j \in Used : comments'[j].deletedBy = NoReader => comments[j].deletedBy = NoReader
  BY CommitFacts
<1>0. \A j \in Used : (Root(j)' <=> Root(j)) /\ (Live(j)' => Live(j))
  BY <1>1 DEF Root, Live
<1>2. i \notin Used => ~Refused(row)
  BY DEF DiscussionIInv, DiscussionSound, Stores
<1>3. i \notin Used => (Root(i)' <=> row.parent = NoId) /\ comments'[i] = row
  BY <1>1 DEF Root
<1>4. ASSUME NEW j \in Used, NEW k \in Used, Root(j)', Root(k)', Live(j)', Live(k)',
             comments'[j].author = comments'[k].author, comments'[j].blog = comments'[k].blog
      PROVE  j = k
  BY <1>0, <1>1, <1>4 DEF DiscussionIInv, OneVoicePerReader
<1>5. ASSUME i \notin Used, NEW k \in Used, Root(i)', Root(k)', Live(k)',
             comments'[i].author = comments'[k].author, comments'[i].blog = comments'[k].blog
      PROVE  FALSE
  <2>1. row.parent = NoId /\ Root(k) /\ Live(k)
        /\ comments[k].author = row.author /\ comments[k].blog = row.blog
    BY <1>0, <1>1, <1>3, <1>5
  <2>2. k \in Standing(row.author, row.blog)
    BY <2>1 DEF Standing
  <2> QED BY <1>2, <1>5, <2>1, <2>2 DEF Refused
<1>6. ASSUME NEW j \in Used', ~Root(j)'
      PROVE  (Root(comments[j].parent) /\ comments[comments[j].parent].blog = comments[j].blog)'
  <2>1. CASE j \in Used
    <3>1. /\ ~Root(j) /\ Root(comments[j].parent)
          /\ comments[comments[j].parent].blog = comments[j].blog
      BY <1>0, <1>1, <1>6, <2>1 DEF DiscussionIInv, OneVoicePerReader
    <3>2. comments[j].parent \in Used
      BY <3>1 DEF Root
    <3> QED BY <1>0, <1>1, <2>1, <3>1, <3>2
  <2>2. CASE j = i /\ i \notin Used
    <3>1. Root(row.parent) /\ comments[row.parent].blog = row.blog
      BY <1>2, <1>3, <1>6, <2>2 DEF Refused
    <3>2. row.parent \in Used
      BY <3>1 DEF Root
    <3> QED BY <1>0, <1>1, <1>3, <2>2, <3>1, <3>2
  <2> QED BY <1>0, <1>1, <2>1, <2>2
<1>7. ASSUME NEW j \in Used', NEW k \in Used', Root(j)', Root(k)', Live(j)', Live(k)',
             comments'[j].author = comments'[k].author, comments'[j].blog = comments'[k].blog
      PROVE  j = k
  <2>1. CASE j \in Used /\ k \in Used
    BY <1>4, <1>7, <2>1
  <2>2. CASE j \in Used /\ k \notin Used
    BY <1>0, <1>1, <1>5, <1>7, <2>2
  <2>3. CASE j \notin Used /\ k \in Used
    BY <1>0, <1>1, <1>5, <1>7, <2>3
  <2>4. CASE j \notin Used /\ k \notin Used
    BY <1>0, <1>1, <2>4
  <2> QED BY <2>1, <2>2, <2>3, <2>4
<1> QED BY <1>6, <1>7 DEF OneVoicePerReader

\* The thread of a new sample reply is the one its run has started, and
\* nobody else's.
LEMMA NewSample ==
  ASSUME DiscussionIInv, NEW p \in Clients, talk[p].pc = "commit", talk[p].id \notin Used,
         talk[p].row.text = "sample", talk[p].row.parent # NoId
  PROVE  /\ p \in Scripts /\ seed[p].pc = "reply" /\ talk[p].row.parent = seed[p].root
         /\ Root(seed[p].root) /\ comments[seed[p].root].author = SeedAuthor
         /\ ~Replied(seed[p].root)
<1>1. p \in Scripts
  BY DEF DiscussionIInv, DiscussionSound, Clients
<1>2. Scripted(p) /\ seed[p] \in Run
  BY <1>1 DEF DiscussionIInv, DiscussionTypeOK
<1>3. seed[p].pc = "reply"
  BY <1>2 DEF Scripted, Run
<1> QED BY <1>1, <1>2, <1>3 DEF Scripted

\* An update of a row that is there gives nobody the script's words.
LEMMA OldSample ==
  ASSUME DiscussionIInv, NEW p \in Clients, talk[p].pc = "commit", talk[p].id \in Used
  PROVE  talk[p].row.text = "sample" => comments[talk[p].id].text = "sample"
BY DEF DiscussionIInv, DiscussionSound

LEMMA CommitSample ==
  ASSUME DiscussionIInv, NEW p \in Clients, NEW i, NEW row, Stores(p, i, row)
  PROVE  OneSample'
<1>1. /\ i \in Ids /\ row \in Comment /\ Used' = Used \cup {i}
      /\ \A j \in Ids : comments'[j] = IF j = i THEN row ELSE comments[j]
      /\ \A j \in Used : comments'[j].author = comments[j].author
                         /\ comments'[j].blog = comments[j].blog
                         /\ comments'[j].parent = comments[j].parent
  BY CommitFacts
<1>0. \A j \in Used : Root(j)' <=> Root(j)
  BY <1>1 DEF Root
<1>2. \A j \in Used : j \in Ids /\ (comments'[j].text = "sample" => comments[j].text = "sample")
  BY <1>1, OldSample DEF Used, Stores
<1>3. i \notin Used => (Root(i)' <=> row.parent = NoId) /\ comments'[i] = row
  BY <1>1 DEF Root
<1>4. i \notin Used /\ row.text = "sample" /\ row.parent # NoId =>
        /\ Root(row.parent) /\ comments[row.parent].author = SeedAuthor /\ ~Replied(row.parent)
  BY NewSample DEF Stores
<1>5. ASSUME NEW j \in Used', ~Root(j)', comments'[j].text = "sample"
      PROVE  comments'[comments'[j].parent].author = SeedAuthor
  <2>1. CASE j \in Used
    <3>1. ~Root(j) /\ comments[comments[j].parent].author = SeedAuthor /\ Root(comments[j].parent)
      BY <1>0, <1>1, <1>2, <1>5, <2>1 DEF DiscussionIInv, OneSample, OneVoicePerReader
    <3>2. comments[j].parent \in Used
      BY <3>1 DEF Root
    <3> QED BY <1>0, <1>1, <2>1, <3>1, <3>2
  <2>2. CASE j = i /\ i \notin Used
    <3>1. Root(row.parent) /\ comments[row.parent].author = SeedAuthor
      BY <1>3, <1>4, <1>5, <2>2
    <3>2. row.parent \in Used
      BY <3>1 DEF Root
    <3> QED BY <1>0, <1>1, <1>3, <2>2, <3>1, <3>2
  <2> QED BY <1>0, <1>1, <2>1, <2>2
<1>6. ASSUME NEW j \in Used', NEW k \in Used', ~Root(j)', comments'[j].text = "sample",
             comments'[k].text = "sample", comments'[k].parent = comments'[j].parent
      PROVE  j = k
  <2>1. CASE j \in Used /\ k \in Used
    BY <1>0, <1>1, <1>2, <1>6, <2>1 DEF DiscussionIInv, OneSample
  <2>2. CASE j \in Used /\ k \notin Used
    <3>1. k = i /\ i \notin Used /\ comments[j].parent = row.parent /\ ~Root(j)
          /\ comments[j].text = "sample" /\ row.text = "sample"
      BY <1>0, <1>1, <1>2, <1>3, <1>6, <2>2
    <3>2. row.parent # NoId
      BY <2>2, <3>1 DEF Root
    <3> QED BY <1>4, <2>2, <3>1, <3>2 DEF Replied
  <2>3. CASE j \notin Used /\ k \in Used
    <3>1. j = i /\ i \notin Used /\ comments[k].parent = row.parent /\ row.parent # NoId
          /\ comments[k].text = "sample" /\ row.text = "sample"
      BY <1>0, <1>1, <1>2, <1>3, <1>6, <2>3
    <3> QED BY <1>4, <2>3, <3>1 DEF Replied
  <2>4. CASE j \notin Used /\ k \notin Used
    BY <1>0, <1>1, <2>4
  <2> QED BY <2>1, <2>2, <2>3, <2>4
<1> QED BY <1>5, <1>6 DEF OneSample

\* What the others have in hand is as good after a commit as it was before.
LEMMA CommitOthers ==
  ASSUME DiscussionIInv, NEW p \in Clients, NEW i, NEW row, Stores(p, i, row),
         NEW r \in Clients, r # p, talk'[r] = talk[r]
  PROVE  DiscussionSound(r)'
<1>1. /\ i \in Ids /\ row \in Comment /\ Used' = Used \cup {i}
      /\ \A j \in Ids : comments'[j] = IF j = i THEN row ELSE comments[j]
      /\ \A j \in Used : comments'[j].author = comments[j].author
                         /\ comments'[j].blog = comments[j].blog
                         /\ comments'[j].parent = comments[j].parent
      /\ \A j \in Used : comments'[j].deletedBy = NoReader => comments[j].deletedBy = NoReader
  BY CommitFacts
<1>2. \A j \in Used : (Root(j)' <=> Root(j)) /\ (Live(j)' => Live(j)) /\ j \in Ids
  BY <1>1 DEF Root, Live, Used
<1>3. DiscussionSound(r) /\ talk[r] \in Posting
  BY DEF DiscussionIInv, DiscussionTypeOK
<1>4. talk[r].pc \in {"insert", "commit"} => talk[r].id # i
  BY DEF DiscussionIInv, DiscussionApart, Stores
<1>5. ASSUME talk[r].pc = "commit", talk[r].id \notin Used PROVE ~Refused(talk[r].row)'
  <2> DEFINE new == talk[r].row
  <2>1. ~Refused(new)
    BY <1>3, <1>5 DEF DiscussionSound
  <2>2. CASE new.parent # NoId
    <3>1. Root(new.parent) /\ comments[new.parent].blog = new.blog
      BY <2>1, <2>2 DEF Refused
    <3>2. new.parent \in Used
      BY <3>1 DEF Root
    <3>3. (Root(talk[r].row.parent) /\ comments[talk[r].row.parent].blog = talk[r].row.blog)'
      BY <1>1, <1>2, <3>1, <3>2 DEF Root
    <3> QED BY <2>2, <3>3 DEF Refused
  <2>3. CASE new.parent = NoId
    <3>1. Standing(new.author, new.blog) = {}
      BY <2>1, <2>3 DEF Refused
    <3>2. ASSUME NEW j \in Used', Root(j)', Live(j)', comments'[j].author = new.author,
                 comments'[j].blog = new.blog
          PROVE  FALSE
      <4>1. CASE j \in Used
        <5>1. Root(j) /\ Live(j) /\ comments[j].author = new.author /\ comments[j].blog = new.blog
          BY <1>1, <1>2, <3>2, <4>1
        <5> QED BY <3>1, <4>1, <5>1 DEF Standing
      <4>2. CASE j \notin Used
        <5>1. j = i /\ i \notin Used /\ row.parent = NoId /\ row.author = new.author
              /\ row.blog = new.blog
          BY <1>1, <3>2, <4>2 DEF Root
        <5>2. talk[p].pc = "commit" /\ talk[p].id \notin Used /\ talk[p].row = row
          BY <5>1 DEF Stores
        <5> QED BY <1>5, <2>3, <5>1, <5>2 DEF DiscussionIInv, DiscussionApart
      <4> QED BY <4>1, <4>2
    <3>3. Standing(talk[r].row.author, talk[r].row.blog)' = {}
      BY <3>2 DEF Standing
    <3> QED BY <2>3, <3>3 DEF Refused
  <2> QED BY <2>2, <2>3
<1>6. ASSUME talk[r].pc = "commit", talk[r].id \in Used
      PROVE  Live(talk[r].id)' /\ comments'[talk[r].id] = comments[talk[r].id]
  <2>1. Live(talk[r].id) /\ talk[r].id \in Ids
    BY <1>3, <1>6 DEF DiscussionSound, Used
  <2> QED BY <1>1, <1>4, <1>6, <2>1 DEF Live
<1>7. talk[r].pc \in {"insert", "commit"} => (talk[r].id \in Used' <=> talk[r].id \in Used)
  BY <1>1, <1>4
<1>8. talk[r].pc \in {"edit", "delete"} => talk[r].id \in Used'
  BY <1>1, <1>3 DEF DiscussionSound
<1>9. talk'[r].pc = "commit" /\ talk'[r].id \notin Used' => ~Refused(talk[r].row)'
  BY <1>5, <1>7
<1>10. talk'[r].pc = "commit" /\ talk'[r].id \in Used' =>
         /\ Live(talk[r].id)'
         /\ talk'[r].row.author = comments'[talk[r].id].author
         /\ talk'[r].row.blog = comments'[talk[r].id].blog
         /\ talk'[r].row.parent = comments'[talk[r].id].parent
         /\ talk'[r].row.text \in {"plain", comments'[talk[r].id].text}
  BY <1>3, <1>6, <1>7 DEF DiscussionSound
<1>11. talk'[r].pc \in {"insert", "commit"} /\ talk'[r].id \notin Used' =>
         talk'[r].row.deletedBy = NoReader /\ (r \in Sessions => talk'[r].row.text = "plain")
  BY <1>3, <1>7 DEF DiscussionSound
<1> QED BY <1>3, <1>7, <1>8, <1>9, <1>10, <1>11 DEF DiscussionSound

\* A run that has just stored its root, and the runs that are not concerned.
LEMMA CommitRuns ==
  ASSUME DiscussionIInv, NEW p \in Clients, NEW i, NEW row, Stores(p, i, row), Answer(p, TRUE),
         NEW s \in Scripts
  PROVE  Scripted(s)'
<1>1. /\ i \in Ids /\ row \in Comment /\ Used' = Used \cup {i}
      /\ \A j \in Ids : comments'[j] = IF j = i THEN row ELSE comments[j]
      /\ \A j \in Used : comments'[j].author = comments[j].author
                         /\ comments'[j].blog = comments[j].blog
                         /\ comments'[j].parent = comments[j].parent
      /\ \A j \in Used : comments'[j].deletedBy = NoReader => comments[j].deletedBy = NoReader
  BY CommitFacts
<1>2. \A j \in Used : (Root(j)' <=> Root(j)) /\ j \in Ids
  BY <1>1 DEF Root, Used
<1>3. Scripted(s) /\ seed[s] \in Run /\ s \in Clients \ Sessions
  BY DiscussionAssumption DEF DiscussionIInv, DiscussionTypeOK, Clients,
     DiscussionAssumption
<1>4. talk' = [talk EXCEPT ![p] = NoPosting] /\ \A r \in Clients : r # p => talk'[r] = talk[r]
  BY DEF Answer, DiscussionIInv, DiscussionTypeOK
<1>5. CASE s # p
  <2>1. seed'[s] = seed[s] /\ talk'[s] = talk[s]
    BY <1>3, <1>4, <1>5 DEF Answer, DiscussionIInv, DiscussionTypeOK
  <2>2. talk[s].pc # "idle" => talk[s].pc \in {"insert", "commit"}
    BY <1>3 DEF DiscussionIInv, DiscussionSound, DiscussionTypeOK, Posting
  <2>3. talk[s].pc # "idle" => talk[s].id \notin Used'
    BY <1>1, <1>3, <1>5, <2>2 DEF Scripted, DiscussionIInv, DiscussionApart, Stores
  <2>4. ASSUME seed[s].pc = "reply"
        PROVE  /\ Root(seed[s].root)' /\ comments'[seed[s].root].author = SeedAuthor
               /\ comments'[seed[s].root].blog = seed[s].blog
               /\ \A j \in Used' :
                     ~(comments'[j].parent = seed[s].root /\ comments'[j].text = "sample")
    <3>1. /\ Root(seed[s].root) /\ seed[s].root \in Used
          /\ seed[s].root # NoId /\ ~Replied(seed[s].root)
      BY <1>3, <2>4, NoIdIsNone DEF Scripted, Root
    <3>2. Root(seed[s].root)'
      BY <1>1, <2>1, <3>1 DEF Root
    <3>3. ASSUME NEW j \in Used', comments'[j].parent = seed[s].root, comments'[j].text = "sample"
          PROVE  FALSE
      <4>1. CASE j \in Used
        <5>1. comments[j].parent = seed[s].root /\ comments[j].text = "sample"
          <6>1. comments'[j].text = "sample" => comments[j].text = "sample"
            BY <1>1, <1>2, <4>1, OldSample DEF Stores
          <6> QED BY <1>1, <3>3, <4>1, <6>1
        <5> QED BY <3>1, <4>1, <5>1 DEF Replied
      <4>2. CASE j \notin Used
        <5>1. i \notin Used /\ row.parent = seed[s].root /\ row.text = "sample"
          BY <1>1, <3>3, <4>2
        <5>2. p \in Scripts /\ seed[p].pc = "reply" /\ seed[p].root = seed[s].root
          BY <3>1, <5>1, NewSample DEF Stores
        <5> QED BY <1>5, <2>4, <5>2 DEF DiscussionIInv, ThreadsApart
      <4> QED BY <4>1, <4>2
    <3> QED BY <1>1, <1>3, <2>4, <3>1, <3>2, <3>3 DEF Scripted
  <2>5. seed[s].pc = "reply" =>
          /\ Root(seed[s].root)' /\ comments'[seed[s].root].author = SeedAuthor
          /\ comments'[seed[s].root].blog = seed[s].blog /\ ~Replied(seed[s].root)'
    BY <2>1, <2>4 DEF Replied
  <2> QED BY <1>3, <2>1, <2>3, <2>5 DEF Scripted
<1>6. CASE s = p
  <2>1. talk'[s] = NoPosting
    BY <1>4, <1>6 DEF DiscussionIInv, DiscussionTypeOK
  <2>2. talk[s].pc = "commit" /\ i = talk[s].id /\ row = talk[s].row
    BY <1>6 DEF Stores
  <2>3. i \notin Used /\ row.blog = seed[s].blog /\ seed[s].pc \in {"root", "reply"}
    BY <1>3, <2>2 DEF Scripted, Run
  <2>4. CASE seed[s].pc = "root"
    <3> DEFINE d == [seed[s] EXCEPT !.pc = "reply", !.root = i]
    <3>1. seed'[s] = d /\ d.pc = "reply" /\ d.root = i /\ d.blog = seed[s].blog
      BY <1>3, <1>6, <2>2, <2>4 DEF Answer, DiscussionIInv, DiscussionTypeOK, Run
    <3> HIDE DEF d
    <3>2. row.parent = NoId /\ row.author = SeedAuthor /\ seed[s].blog \in Articles
      BY <1>3, <2>2, <2>4 DEF Scripted
    <3>3. Root(i)' /\ comments'[i].author = SeedAuthor /\ comments'[i].blog = seed[s].blog
      BY <1>1, <2>3, <3>2 DEF Root
    <3>4. ASSUME NEW j \in Used', comments'[j].parent = i PROVE FALSE
      <4>1. CASE j \in Used
        <5>1. comments[j].parent = i /\ i # NoId
          BY <1>1, <3>4, <4>1, NoIdIsNone
        <5>2. Root(i)
          BY <4>1, <5>1 DEF DiscussionIInv, OneVoicePerReader, Root
        <5> QED BY <2>3, <5>2 DEF Root
      <4>2. CASE j \notin Used
        BY <1>1, <3>2, <3>4, <4>2, NoIdIsNone
      <4> QED BY <4>1, <4>2
    <3>5. ~Replied(i)'
      BY <3>4 DEF Replied
    <3> QED BY <2>1, <3>1, <3>2, <3>3, <3>5 DEF Scripted, NoPosting
  <2>5. CASE seed[s].pc = "reply"
    <3>1. seed'[s] = NoRun
      BY <1>3, <1>6, <2>5 DEF Answer, DiscussionIInv, DiscussionTypeOK
    <3> QED BY <2>1, <3>1 DEF Scripted, NoRun, NoPosting
  <2> QED BY <2>3, <2>4, <2>5
<1> QED BY <1>5, <1>6

LEMMA StoreOK ==
  ASSUME DiscussionIInv, NEW p \in Clients, NEW i, NEW row, Stores(p, i, row), Answer(p, TRUE),
         UNCHANGED <<published, asked, runs>>
  PROVE  DiscussionIInv'
<1>1. i = talk[p].id /\ row = talk[p].row /\ talk[p].pc = "commit"
  BY DEF Stores
<1>2. /\ talk' = [talk EXCEPT ![p] = NoPosting] /\ talk'[p] = NoPosting
      /\ \A r \in Clients : r # p => talk'[r] = talk[r]
  BY DEF Answer, DiscussionIInv, DiscussionTypeOK
<1>3. i \in Ids /\ row \in Comment /\ Used' = Used \cup {i}
  BY CommitFacts
<1>4. ASSUME NEW r \in Clients PROVE DiscussionSound(r)'
  <2>1. CASE r = p
    <3>1. talk'[r] = NoPosting
      BY <1>2, <2>1
    <3> QED BY <3>1, NoPostingIsOne DEF DiscussionSound
  <2>2. CASE r # p
    <3>1. talk'[r] = talk[r] /\ r \in Clients \ {p}
      BY <1>2, <2>2
    <3> QED BY <3>1, CommitOthers
  <2> QED BY <2>1, <2>2
<1>5. ASSUME NEW s \in Scripts PROVE Scripted(s)'
  BY CommitRuns
<1>6. OneVoicePerReader' /\ OneSample'
  BY CommitVoice, CommitSample
<1>7. DiscussionApart'
  BY <1>2, <1>3 DEF DiscussionIInv, DiscussionApart, NoPosting
<1>8. seed' \in [Scripts -> Run]
  <2>1. \A s \in Scripts : [seed[s] EXCEPT !.pc = "reply", !.root = i] \in Run
    BY <1>3 DEF DiscussionIInv, DiscussionTypeOK, Run
  <2> QED BY <1>1, <2>1, NoPostingIsOne DEF Answer, DiscussionIInv, DiscussionTypeOK
<1>9. ThreadsApart'
  <2> SUFFICES ASSUME NEW s \in Scripts, NEW t \in Scripts, s # t, seed'[s].pc = "reply",
                      seed'[t].pc = "reply", seed'[s].root = seed'[t].root
               PROVE  FALSE
    BY DEF ThreadsApart
  <2>1. \A u \in Scripts : /\ u # p => seed'[u] = seed[u]
                           /\ u = p /\ seed'[u].pc = "reply" => seed'[u].root = i /\ i \notin Used
    <3>1. ASSUME NEW u \in Scripts, u # p PROVE seed'[u] = seed[u]
      BY <1>1, <3>1 DEF Answer, DiscussionIInv, DiscussionTypeOK
    <3>2. ASSUME NEW u \in Scripts, u = p, seed'[u].pc = "reply"
          PROVE  seed'[u].root = i /\ i \notin Used
      <4>1. u \notin Sessions /\ seed[u] \in Run /\ Scripted(u) /\ talk[u].pc = "commit"
        BY <1>1, <3>2, DiscussionAssumption DEF DiscussionAssumption, DiscussionIInv,
           DiscussionTypeOK, Stores
      <4>2. seed'[u] = IF seed[u].pc = "root" THEN [seed[u] EXCEPT !.pc = "reply", !.root = i]
                       ELSE NoRun
        BY <1>1, <3>2, <4>1 DEF Answer, DiscussionIInv, DiscussionTypeOK
      <4>3. seed'[u].root = i
        BY <3>2, <4>1, <4>2 DEF Run, NoRun
      <4>4. i \notin Used
        BY <1>1, <3>2, <4>1 DEF Scripted
      <4> QED BY <4>3, <4>4
    <3> QED BY <3>1, <3>2
  <2>2. \A u \in Scripts : seed[u].pc = "reply" => seed[u].root \in Used
    BY DEF DiscussionIInv, Scripted, Root
  <2>3. CASE s # p /\ t # p
    BY <2>1, <2>3 DEF DiscussionIInv, ThreadsApart
  <2>4. CASE s = p \/ t = p
    BY <2>1, <2>2, <2>4
  <2> QED BY <2>3, <2>4
<1>10. DiscussionTypeOK'
  <2>1. \A r \in Clients : talk'[r].pc \in {"insert", "commit"} => talk'[r].row # NoComment
    BY <1>4, NoCommentIsNone DEF DiscussionSound
  <2>2. \A s \in Scripts : seed'[s].pc = "reply" => seed'[s].root \in Used'
    BY <1>5 DEF Scripted, Root
  <2>3. comments' \in [Ids -> Comment \cup {NoComment}] /\ talk' \in [Clients -> Posting]
    BY <1>1, <1>2, <1>3, NoPostingIsOne DEF Stores, DiscussionIInv, DiscussionTypeOK
  <2> QED BY <1>1, <1>8, <2>1, <2>2, <2>3 DEF DiscussionIInv, DiscussionTypeOK
<1> QED BY <1>4, <1>5, <1>6, <1>7, <1>9, <1>10 DEF DiscussionIInv

LEMMA CommitOK ==
  ASSUME DiscussionIInv, NEW p \in Clients, Commit(p)
  PROVE  DiscussionIInv'
<1>1. \E i, row : Stores(p, i, row)
  BY DEF Commit, Stores
<1> QED BY <1>1, StoreOK DEF Commit

-----------------------------------------------------------------------------
(* Requests of readers.                                                    *)

LEMMA StartTouchOK ==
  ASSUME DiscussionIInv, NEW p \in Sessions, NEW u \in Readers \cup {Admin}, NEW i \in Ids,
         NEW what \in {"edit", "delete"}, StartTouch(p, u, i, what), asked' \in 0 .. MaxAsked
  PROVE  DiscussionIInv'
<1> DEFINE q == [NoPosting EXCEPT !.pc = what, !.by = u, !.id = i]
<1>1. q \in Posting /\ q.pc = what /\ q.id = i /\ q.by = u
  BY DEF NoPosting, Posting
<1>2. talk' = [talk EXCEPT ![p] = q] /\ UNCHANGED <<published, comments, seed, runs>> /\ i \in Used
  BY DEF StartTouch
<1> HIDE DEF q
<1>3. p \in Clients \ Scripts /\ u # NoReader
  BY DiscussionAssumption DEF Clients, DiscussionAssumption
<1>4. talk'[p] = q /\ Used' = Used
  BY <1>2, <1>3 DEF DiscussionIInv, DiscussionTypeOK, Used
<1>5. DiscussionSound(p)'
  BY <1>1, <1>2, <1>3, <1>4 DEF DiscussionSound
<1>6. published' \subseteq Articles /\ runs' \in 0 .. MaxRuns /\ seed' \in [Scripts -> Run]
  BY <1>2 DEF DiscussionIInv, DiscussionTypeOK
<1> QED BY <1>1, <1>2, <1>3, <1>5, <1>6, ClientStep

LEMMA TouchOK ==
  ASSUME DiscussionIInv, NEW p \in Clients, Touch(p)
  PROVE  DiscussionIInv'
<1> asked' \in 0 .. MaxAsked /\ UNCHANGED <<published, comments, runs>>
  BY DEF Touch, DiscussionIInv, DiscussionTypeOK
<1>1. CASE ~MayTouch(talk[p])
  BY <1>1, RefusedStep DEF Touch
<1>2. CASE MayTouch(talk[p])
  <2> DEFINE row == Touched(talk[p])
             q == [talk[p] EXCEPT !.pc = "commit", !.row = row]
  <2>1. /\ talk[p] \in Posting /\ talk[p].pc \in {"edit", "delete"} /\ p \in Sessions \ Scripts
        /\ talk[p].id \in Used /\ talk[p].by # NoReader /\ talk[p].by \in Readers \cup {Admin}
    BY DiscussionAssumption DEF Touch, DiscussionIInv, DiscussionTypeOK, DiscussionSound,
       Posting, DiscussionAssumption
  <2>2. comments[talk[p].id] \in Comment /\ Live(talk[p].id)
    BY <1>2, <2>1, UsedAreComments DEF DiscussionIInv, MayTouch
  <2>3. /\ row \in Comment /\ row.author = comments[talk[p].id].author
        /\ row.blog = comments[talk[p].id].blog /\ row.parent = comments[talk[p].id].parent
        /\ row.text \in {"plain", comments[talk[p].id].text}
    BY <2>1, <2>2 DEF Touched, Comment
  <2>4. talk' = [talk EXCEPT ![p] = q] /\ seed' = seed
    BY <1>2 DEF Touch, DiscussionIInv, DiscussionTypeOK
  <2> HIDE DEF row
  <2>5. q \in Posting /\ q.pc = "commit" /\ q.id = talk[p].id /\ q.row = row
    BY <2>1, <2>3 DEF Posting
  <2> HIDE DEF q
  <2>6. talk'[p] = q /\ Used' = Used /\ Live(q.id) /\ q.id \in Ids
    BY <2>1, <2>2, <2>4, <2>5 DEF DiscussionIInv, DiscussionTypeOK, Used, Live
  <2>7. DiscussionSound(p)'
    BY <2>1, <2>3, <2>5, <2>6 DEF DiscussionSound, Live
  <2>8. ASSUME NEW r \in Clients \ {p}, talk[r].pc \in {"insert", "commit"}
        PROVE  q.id # talk[r].id
    <3>1. CASE talk[r].pc = "commit"
      BY <2>5, <3>1 DEF Touch, Others
    <3>2. CASE talk[r].pc = "insert"
      BY <2>1, <2>5, <3>2 DEF DiscussionIInv, DiscussionSound
    <3> QED BY <2>8, <3>1, <3>2
  <2>9. published' \subseteq Articles /\ runs' \in 0 .. MaxRuns /\ seed' \in [Scripts -> Run]
    BY <2>4 DEF DiscussionIInv, DiscussionTypeOK
  <2> QED BY <2>1, <2>4, <2>5, <2>7, <2>8, <2>9, ClientStep
<1> QED BY <1>1, <1>2

LEMMA RollBackPostingOK ==
  ASSUME DiscussionIInv, NEW p \in Clients, RollBackPosting(p)
  PROVE  DiscussionIInv'
<1>1. asked' \in 0 .. MaxAsked
  BY DEF RollBackPosting, DiscussionIInv, DiscussionTypeOK
<1> QED BY <1>1, RefusedStep DEF RollBackPosting

-----------------------------------------------------------------------------
(* The script.                                                             *)

\* A step of a run between its calls that does not begin a reply.
LEMMA RunStep ==
  ASSUME DiscussionIInv, NEW s \in Scripts, NEW d \in Run, seed' = [seed EXCEPT ![s] = d],
         UNCHANGED <<published, comments, talk, asked>>, runs' \in 0 .. MaxRuns,
         talk[s].pc = "idle", d.pc # "reply", d.pc # "off" => d.blog \in Articles
  PROVE  DiscussionIInv'
<1>1. /\ s \in Clients /\ talk[s] \in Posting /\ DiscussionSound(s)
      /\ talk' = [talk EXCEPT ![s] = talk[s]]
  BY DEF Clients, DiscussionIInv, DiscussionTypeOK
<1>2. seed' \in [Scripts -> Run] /\ seed'[s] = d /\ \A t \in Scripts : t # s => seed'[t] = seed[t]
  BY DEF DiscussionIInv, DiscussionTypeOK
<1>3. Used' = Used /\ talk'[s] = talk[s]
  BY DEF Used
<1>4. DiscussionSound(s)'
  BY <1>1, <1>3 DEF DiscussionSound
<1>5. Scripted(s)'
  BY <1>2, <1>3 DEF Scripted
<1>6. published' \subseteq Articles /\ asked' \in 0 .. MaxAsked
  BY DEF DiscussionIInv, DiscussionTypeOK
<1> QED BY <1>1, <1>2, <1>4, <1>5, <1>6, ClientStep

LEMMA SeedingOK ==
  ASSUME DiscussionIInv, NEW s \in Scripts, Seeding(s)
  PROVE  DiscussionIInv'
<1>0. s \in Clients /\ seed[s] \in Run /\ Scripted(s) /\ s \notin Sessions
  BY DiscussionAssumption DEF Clients, DiscussionIInv, DiscussionTypeOK,
     DiscussionAssumption
<1>1. ASSUME NEW b \in Articles, StartSeed(s, b) PROVE DiscussionIInv'
  <2>1. [NoRun EXCEPT !.pc = "look", !.blog = b] \in Run
    BY DEF NoRun, Run
  <2>2. runs' \in 0 .. MaxRuns /\ talk[s].pc = "idle"
    BY <1>0, <1>1, DiscussionAssumption DEF StartSeed, DiscussionIInv, DiscussionTypeOK,
       Scripted, DiscussionAssumption
  <2> QED BY <1>1, <2>1, <2>2, RunStep DEF StartSeed, NoRun
<1>2. CASE Look(s)
  <2>1. talk[s].pc = "idle" /\ seed[s].blog \in Articles
    BY <1>0, <1>2 DEF Look, Scripted
  <2>2. [seed[s] EXCEPT !.pc = "root"] \in Run
    BY <1>0 DEF Run
  <2>3. runs' \in 0 .. MaxRuns
    BY <1>2 DEF Look, DiscussionIInv, DiscussionTypeOK
  <2>4. CASE Discussed(seed[s].blog)
    BY <1>2, <2>1, <2>3, <2>4, RunStep, NoPostingIsOne DEF Look, NoRun
  <2>5. CASE ~Discussed(seed[s].blog)
    <3> DEFINE d == [seed[s] EXCEPT !.pc = "root"]
    <3>1. d.pc = "root" /\ d.blog = seed[s].blog /\ seed' = [seed EXCEPT ![s] = d]
      BY <1>0, <1>2, <2>5 DEF Look, Run, DiscussionIInv, DiscussionTypeOK
    <3> HIDE DEF d
    <3> QED BY <1>2, <2>1, <2>2, <2>3, <3>1, RunStep DEF Look, d
  <2> QED BY <2>4, <2>5
<1>3. CASE PostRoot(s)
  <2>1. seed[s].blog \in Articles /\ asked' \in 0 .. MaxAsked /\ SeedAuthor \in Readers
    BY <1>0, <1>3, DiscussionAssumption DEF PostRoot, Scripted, DiscussionIInv,
       DiscussionTypeOK, DiscussionAssumption
  <2> QED BY <1>0, <1>3, <2>1, BeginStep DEF PostRoot
<1>4. CASE PostReply(s)
  <2>1. seed[s].blog \in Articles /\ asked' \in 0 .. MaxAsked /\ SeedGuest \in Readers
    BY <1>0, <1>4, DiscussionAssumption DEF PostReply, Scripted, DiscussionIInv,
       DiscussionTypeOK, DiscussionAssumption
  <2>2. seed[s].root \in Ids \cup {NoId}
    BY <1>0 DEF Run
  <2> QED BY <1>0, <1>4, <2>1, <2>2, BeginStep DEF PostReply, Parent
<1>5. CASE Kill(s)
  <2>1. runs' \in 0 .. MaxRuns
    BY <1>5 DEF Kill, DiscussionIInv, DiscussionTypeOK
  <2> QED BY <1>5, <2>1, RunStep, NoPostingIsOne DEF Kill, NoRun
<1> QED BY <1>1, <1>2, <1>3, <1>4, <1>5 DEF Seeding

-----------------------------------------------------------------------------
(* Every step.                                                             *)

\* Publishing and archiving concern nobody who is being read from: a request
\* that has begun goes on.
LEMMA SetStatusOK ==
  ASSUME DiscussionIInv, NEW b \in Articles, SetStatus(b)
  PROVE  DiscussionIInv'
<1>1. published' \subseteq Articles /\ UNCHANGED <<comments, talk, seed, asked, runs>>
  BY DEF SetStatus, DiscussionIInv, DiscussionTypeOK
<1>2. Used' = Used /\ \A i : (Root(i)' <=> Root(i)) /\ (Live(i)' <=> Live(i))
  BY <1>1 DEF Used, Root, Live
<1>3. \A i : Replied(i)' <=> Replied(i)
  BY <1>1, <1>2 DEF Replied
<1>4. \A row : Refused(row)' <=> Refused(row)
  BY <1>1, <1>2 DEF Refused, Standing
<1>5. DiscussionTypeOK'
  BY <1>1, <1>2 DEF DiscussionIInv, DiscussionTypeOK
<1>6. OneVoicePerReader' /\ OneSample' /\ DiscussionApart' /\ ThreadsApart'
  BY <1>1, <1>2 DEF DiscussionIInv, OneVoicePerReader, OneSample, DiscussionApart,
     ThreadsApart
<1>7. ASSUME NEW r \in Clients PROVE DiscussionSound(r)'
  BY <1>1, <1>2, <1>4 DEF DiscussionIInv, DiscussionSound
<1>8. ASSUME NEW s \in Scripts PROVE Scripted(s)'
  BY <1>1, <1>2, <1>3 DEF DiscussionIInv, Scripted
<1> QED BY <1>5, <1>6, <1>7, <1>8 DEF DiscussionIInv

LEMMA DiscussionStutterOK ==
  ASSUME DiscussionIInv, UNCHANGED discussionVars
  PROVE  DiscussionIInv'
<1>1. UNCHANGED <<published, comments, talk, seed, asked, runs>>
  BY DEF discussionVars
<1>2. Used' = Used /\ \A i : (Root(i)' <=> Root(i)) /\ (Live(i)' <=> Live(i))
  BY <1>1 DEF Used, Root, Live
<1>3. \A i : Replied(i)' <=> Replied(i)
  BY <1>1, <1>2 DEF Replied
<1>4. \A row : Refused(row)' <=> Refused(row)
  BY <1>1, <1>2 DEF Refused, Standing
<1>5. DiscussionTypeOK'
  BY <1>1, <1>2 DEF DiscussionIInv, DiscussionTypeOK
<1>6. OneVoicePerReader' /\ OneSample' /\ DiscussionApart' /\ ThreadsApart'
  BY <1>1, <1>2 DEF DiscussionIInv, OneVoicePerReader, OneSample, DiscussionApart,
     ThreadsApart
<1>7. ASSUME NEW r \in Clients PROVE DiscussionSound(r)'
  BY <1>1, <1>2, <1>4 DEF DiscussionIInv, DiscussionSound
<1>8. ASSUME NEW s \in Scripts PROVE Scripted(s)'
  BY <1>1, <1>2, <1>3 DEF DiscussionIInv, Scripted
<1> QED BY <1>5, <1>6, <1>7, <1>8 DEF DiscussionIInv

LEMMA AskingOK ==
  ASSUME DiscussionIInv, NEW c \in Sessions, Asking(c)
  PROVE  DiscussionIInv'
<1>1. asked' \in 0 .. MaxAsked /\ c \in Clients \ Scripts
  BY DiscussionAssumption DEF Asking, DiscussionIInv, DiscussionTypeOK, Clients,
     DiscussionAssumption
<1>2. ASSUME NEW u \in Readers, NEW b \in Articles, NEW i \in Used \cup {NoId},
             Begin(c, u, b, i, "plain")
      PROVE  DiscussionIInv'
  <2>1. i \in Ids \cup {NoId}
    BY DEF Used
  <2> QED BY <1>1, <1>2, <2>1, BeginStep
<1>3. ASSUME NEW u \in Readers \cup {Admin}, NEW i \in Ids, NEW what \in {"edit", "delete"},
             StartTouch(c, u, i, what)
      PROVE  DiscussionIInv'
  BY <1>1, <1>3, StartTouchOK
<1> QED BY <1>2, <1>3 DEF Asking

LEMMA DiscussionNextOK == DiscussionIInv /\ [DiscussionNext]_discussionVars => DiscussionIInv'
<1> SUFFICES ASSUME DiscussionIInv, [DiscussionNext]_discussionVars PROVE DiscussionIInv'
  OBVIOUS
<1>1. ASSUME NEW c \in Sessions, Asking(c) PROVE DiscussionIInv'
  BY <1>1, AskingOK
<1>2. ASSUME NEW p \in Clients, Serving(p) PROVE DiscussionIInv'
  BY <1>2, InsertOK, TouchOK, CommitOK, RollBackPostingOK DEF Serving
<1>3. ASSUME NEW s \in Scripts, Seeding(s) PROVE DiscussionIInv'
  BY <1>3, SeedingOK
<1>4. ASSUME NEW b \in Articles, SetStatus(b) PROVE DiscussionIInv'
  BY <1>4, SetStatusOK
<1>5. CASE UNCHANGED discussionVars
  BY <1>5, DiscussionStutterOK
<1> QED BY <1>1, <1>2, <1>3, <1>4, <1>5 DEF DiscussionNext

\* What requests and runs have seen stays true until they use it.
THEOREM DiscussionInvariance == DiscussionSpec => []DiscussionIInv
BY DiscussionInitOK, DiscussionNextOK, PTL DEF DiscussionSpec

\* Types, and a run replies to a root that was stored.
THEOREM DiscussionTypeCorrect == DiscussionSpec => []DiscussionTypeOK
<1>1. DiscussionIInv => DiscussionTypeOK
  BY DEF DiscussionIInv
<1> QED BY <1>1, DiscussionInvariance, PTL

\* However posting, deleting and rolling back race, a reader has one live
\* comment of their own under an article, and a reply hangs from a root of
\* its own article.
THEOREM OneVoice == DiscussionSpec => []OneVoicePerReader
<1>1. DiscussionIInv => OneVoicePerReader
  BY DEF DiscussionIInv
<1> QED BY <1>1, DiscussionInvariance, PTL

\* The roots of two sample threads are of one reader: at most one of them is
\* live under an article, and it has one reply of the script's.
LEMMA ShownOnce == DiscussionIInv => SampleIsShownOnce
<1> SUFFICES ASSUME DiscussionIInv, NEW i \in Used, NEW j \in Used, Shown(i), Shown(j),
                    comments[i].text = "sample", comments[j].text = "sample",
                    comments[i].blog = comments[j].blog
             PROVE  i = j
  BY DEF SampleIsShownOnce
<1> DEFINE a == comments[i].parent
           b == comments[j].parent
<1>1. Live(a) /\ Live(b) /\ a \in Used /\ b \in Used
  BY DEF Shown, Live
<1>2. Root(a) /\ Root(b) /\ comments[a].blog = comments[i].blog
      /\ comments[b].blog = comments[j].blog
  BY DEF DiscussionIInv, OneVoicePerReader, Shown
<1>3. comments[a].author = SeedAuthor /\ comments[b].author = SeedAuthor
  BY DEF DiscussionIInv, OneSample, Shown
<1>4. a = b
  BY <1>1, <1>2, <1>3 DEF DiscussionIInv, OneVoicePerReader
<1> QED BY <1>4 DEF DiscussionIInv, OneSample, Shown

\* A reply of the sample thread is shown once.
THEOREM SampleOnce == DiscussionSpec => []SampleIsShownOnce
BY ShownOnce, DiscussionInvariance, PTL

\* Whoever is about to store over a row has found it live, and holds its lock.
LEMMA TombstoneStep ==
  ASSUME DiscussionIInv, [DiscussionNext]_discussionVars, NEW i \in Used, ~Live(i)
  PROVE  comments'[i] = comments[i]
<1>1. ASSUME NEW p \in Clients, Commit(p) PROVE comments'[i] = comments[i]
  <2>1. DiscussionSound(p) /\ talk[p].id # i
    BY <1>1 DEF DiscussionIInv, DiscussionSound, Commit
  <2> QED BY <1>1, <2>1 DEF Commit, DiscussionIInv, DiscussionTypeOK, Used
<1>2. ASSUME NEW p \in Clients, Insert(p) \/ Touch(p) \/ RollBackPosting(p)
      PROVE  comments'[i] = comments[i]
  BY <1>2 DEF Insert, Touch, RollBackPosting
<1>3. ASSUME NEW c \in Sessions, Asking(c) PROVE comments'[i] = comments[i]
  BY <1>3 DEF Asking, Begin, StartTouch
<1>4. ASSUME NEW s \in Scripts, Seeding(s) PROVE comments'[i] = comments[i]
  BY <1>4 DEF Seeding, StartSeed, Look, PostRoot, PostReply, Kill, Begin
<1>5. ASSUME NEW b \in Articles, SetStatus(b) PROVE comments'[i] = comments[i]
  BY <1>5 DEF SetStatus
<1>6. CASE UNCHANGED discussionVars
  BY <1>6 DEF discussionVars
<1> QED BY <1>1, <1>2, <1>3, <1>4, <1>5, <1>6 DEF DiscussionNext, Serving

\* What a reader has deleted stays deleted, and as it was.
THEOREM Tombstones == DiscussionSpec => TombstonesStay
<1>1. DiscussionIInv /\ [DiscussionNext]_discussionVars =>
        [\A i \in Used : ~Live(i) => comments'[i] = comments[i]]_discussionVars
  BY TombstoneStep
<1> QED BY <1>1, DiscussionInvariance, PTL DEF DiscussionSpec, TombstonesStay

=============================================================================
