------------------------------ MODULE Catalogs ------------------------------
(***************************************************************************)
(* The collections one user saves articles to: InteractionService over the *)
(* repository of catalogs.  The default collection, called "Saved", is     *)
(* made by the first save that names none.  Two unique indexes guard the   *)
(* table: one default for a user, and no name twice.                       *)
(*                                                                         *)
(* Every request is one READ COMMITTED transaction; the tables show what   *)
(* is committed, and the record of a request what it has written so far.   *)
(***************************************************************************)
EXTENDS Naturals, FiniteSets

CONSTANTS Conns,
          Blogs,
          Names,     \* names of collections, up to case and spaces
          Saved,     \* the name ensure_default gives
          NoName, NoBlog

\* A row of catalogs: its name, and whether it is the default one.
Catalog == [name : Names, default : BOOLEAN]
Default == [name |-> Saved, default |-> TRUE]
NoCatalog == [name |-> NoName, default |-> FALSE]

ASSUME CatalogsAssumption ==
  /\ Saved \in Names /\ NoName \notin Names /\ NoBlog \notin Blogs

VARIABLES
  readable,   \* articles that are published
  catalogs,   \* rows of catalogs
  items,      \* rows of catalog_items, as pairs <<catalog, article>>
  req

vars == <<readable, catalogs, items, req>>

Request == [pc      : {"idle", "ensure", "read", "add", "create", "commit", "done"},
            blog    : Blogs \cup {NoBlog},
            catalog : Catalog \cup {NoCatalog},
            made    : SUBSET Catalog,    \* the row inserted
            answer  : {"none", "saved", "created", "name_taken", "no_default"}]

NoRequest == [pc |-> "idle", blog |-> NoBlog, catalog |-> NoCatalog, made |-> {},
              answer |-> "none"]

Rivals(r)        == {req[s] : s \in Conns \ {r}}
Finish(r, ans)   == req' = [req EXCEPT ![r] = [NoRequest EXCEPT !.pc = "done", !.answer = ans,
                                                !.catalog = req[r].catalog, !.blog = req[r].blog]]

\* Rows no table may hold together, by either of the indexes.
Conflict(c, d)   == c.name = d.name \/ (c.default /\ d.default)
Waits(r, c)      == \E q \in Rivals(r) : \E d \in q.made : Conflict(c, d)
Taken(c)         == \E d \in catalogs : Conflict(c, d)

-----------------------------------------------------------------------------
(* Saving.                                                                 *)

\* save_to_catalog: the article has to be readable, and a collection that is
\* named has to be one of the user's.
StartSave(r, b, c) ==
  /\ req[r].pc = "idle" /\ b \in readable
  /\ c \in catalogs \cup {NoCatalog}
  /\ req' = [req EXCEPT ![r] = [NoRequest EXCEPT
               !.pc = IF c = NoCatalog THEN "ensure" ELSE "add", !.blog = b, !.catalog = c]]
  /\ UNCHANGED <<readable, catalogs, items>>

\* Mutant: DO NOTHING does not wait for the row it conflicts with.
EnsureUnwaited(r) ==
  /\ req[r].pc = "ensure"
  /\ req' = [req EXCEPT ![r].pc = "read",
                        ![r].made = IF Taken(Default) \/ Waits(r, Default) THEN {} ELSE {Default}]
  /\ UNCHANGED <<readable, catalogs, items>>

\* The INSERT of ensure_default waits while a row in its way is uncommitted;
\* ON CONFLICT DO NOTHING then holds for a conflict with either index.
Ensure(r) ==
  /\ req[r].pc = "ensure"
  /\ ~Waits(r, Default)
  /\ req' = [req EXCEPT ![r].pc = "read",
                        ![r].made = IF Taken(Default) THEN {} ELSE {Default}]
  /\ UNCHANGED <<readable, catalogs, items>>

\* The SELECT that follows has a snapshot of its own; `assert row is not None'.
ReadDefault(r) ==
  /\ req[r].pc = "read"
  /\ IF Default \in catalogs \cup req[r].made
     THEN req' = [req EXCEPT ![r].pc = "add", ![r].catalog = Default]
     ELSE Finish(r, "no_default")
  /\ UNCHANGED <<readable, catalogs, items>>

\* The upsert of add_item waits for an open one of the same item.
AddItem(r) ==
  LET q == req[r] IN
  /\ q.pc = "add"
  /\ \A p \in Rivals(r) : ~(p.pc = "commit" /\ p.blog = q.blog /\ p.catalog = q.catalog)
  /\ req' = [req EXCEPT ![r].pc = "commit"]
  /\ UNCHANGED <<readable, catalogs, items>>

CommitSave(r) ==
  LET q == req[r] IN
  /\ q.pc = "commit" /\ q.blog # NoBlog
  /\ catalogs' = catalogs \cup q.made
  /\ items' = items \cup {<<q.catalog, q.blog>>}
  /\ Finish(r, "saved")
  /\ UNCHANGED readable

-----------------------------------------------------------------------------
(* The rest of a user's collections.                                       *)

StartCreate(r, n) ==
  /\ req[r].pc = "idle"
  /\ req' = [req EXCEPT ![r] = [NoRequest EXCEPT
               !.pc = "create", !.catalog = [name |-> n, default |-> FALSE]]]
  /\ UNCHANGED <<readable, catalogs, items>>

\* Mutant: the index on names sees only what is committed.
CreateUnwaited(r) ==
  LET q == req[r] IN
  /\ q.pc = "create"
  /\ IF Taken(q.catalog)
     THEN Finish(r, "name_taken")
     ELSE req' = [req EXCEPT ![r].pc = "commit", ![r].made = {q.catalog}]
  /\ UNCHANGED <<readable, catalogs, items>>

\* create(): the INSERT waits like ensure_default's, and is refused instead.
Create(r) ==
  LET q == req[r] IN
  /\ q.pc = "create"
  /\ ~Waits(r, q.catalog)
  /\ IF Taken(q.catalog)
     THEN Finish(r, "name_taken")
     ELSE req' = [req EXCEPT ![r].pc = "commit", ![r].made = {q.catalog}]
  /\ UNCHANGED <<readable, catalogs, items>>

CommitCreate(r) ==
  /\ req[r].pc = "commit" /\ req[r].blog = NoBlog
  /\ catalogs' = catalogs \cup req[r].made
  /\ Finish(r, "created")
  /\ UNCHANGED <<readable, items>>

\* remove_from_catalog; the DELETE does not see an item not yet committed.
RemoveItem(c, b) ==
  /\ <<c, b>> \in items
  /\ \A r \in Conns : ~(req[r].pc = "commit" /\ req[r].catalog = c /\ req[r].blog = b)
  /\ items' = items \ {<<c, b>>}
  /\ UNCHANGED <<readable, catalogs, req>>

Archive(b) ==
  /\ b \in readable
  /\ readable' = readable \ {b}
  /\ UNCHANGED <<catalogs, items, req>>

Reply(r) ==
  /\ req[r].pc = "done"
  /\ req' = [req EXCEPT ![r] = NoRequest]
  /\ UNCHANGED <<readable, catalogs, items>>

\* A lost connection or a crash: the transaction is rolled back.
RollBack(r) ==
  /\ req[r].pc \notin {"idle", "done"}
  /\ req' = [req EXCEPT ![r] = NoRequest]
  /\ UNCHANGED <<readable, catalogs, items>>

-----------------------------------------------------------------------------

Init ==
  /\ readable = Blogs /\ catalogs = {} /\ items = {}
  /\ req = [r \in Conns |-> NoRequest]

Saving(r) ==
  \/ \E b \in Blogs, c \in Catalog \cup {NoCatalog} : StartSave(r, b, c)
  \/ Ensure(r) \/ ReadDefault(r) \/ AddItem(r) \/ CommitSave(r)
Creating(r) == (\E n \in Names : StartCreate(r, n)) \/ Create(r) \/ CommitCreate(r)

Next ==
  \/ \E r \in Conns : Saving(r) \/ Creating(r) \/ Reply(r) \/ RollBack(r)
  \/ \E b \in Blogs : Archive(b) \/ \E c \in Catalog : RemoveItem(c, b)

Spec == Init /\ [][Next]_vars

-----------------------------------------------------------------------------
(* Properties.                                                             *)

\* Types; what is saved is saved somewhere; and no two rows, committed or not,
\* that an index forbids together.
TypeOK ==
  /\ readable \subseteq Blogs /\ catalogs \subseteq Catalog
  /\ items \subseteq catalogs \X Blogs
  /\ req \in [Conns -> Request]
  /\ \A c, d \in catalogs \cup UNION {req[r].made : r \in Conns} : Conflict(c, d) => c = d

\* First saves converge on one default collection however they race: a save
\* that names none is turned away only if the user has a collection of their
\* own making that is called like the default one.
FirstSaveConverges ==
  \A r \in Conns : req[r].answer = "no_default" =>
    [name |-> Saved, default |-> FALSE] \in catalogs

=============================================================================
