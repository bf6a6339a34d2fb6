------------------------------ MODULE Listing ------------------------------
(***************************************************************************)
(* One list that is read page by page while it changes: the articles of a  *)
(* status (the feed, the console's drafts), the threads below an article,  *)
(* or the items of a catalog.  The three use one scheme: newest first by   *)
(* (stamp, id), one row more than the page asks for, and a cursor made of  *)
(* the key of the last row.                                                *)
(*                                                                         *)
(* A stamp is taken when a write begins and seen when it commits, so rows  *)
(* do not appear in the order of their keys; stamps of different rows may  *)
(* be equal, and ids are in no order of their own.                         *)
(***************************************************************************)
EXTENDS Naturals, FiniteSets

CONSTANTS RowIds,       \* ids rows may have
          MaxTime,      \* bound: the clock stops there
          Limits,       \* page sizes a client asks for
          NoStamp, NoCursor

Stamps == 0 .. MaxTime

ASSUME ListingAssumption ==
  /\ RowIds \subseteq Nat /\ IsFiniteSet(RowIds)
  /\ MaxTime \in Nat /\ Limits \subseteq Nat \ {0}
  /\ NoStamp \notin Stamps

Kinds    == {"articles", "threads", "items"}
Statuses == {"none", "draft", "shown", "gone"}
Row == [status : Statuses, at : Stamps \cup {NoStamp}]
Key == [at : Stamps \cup {NoStamp}, id : RowIds]

ASSUME NoCursorAssumption == NoCursor \notin Key

VARIABLES
  kind,      \* which list this is
  rows,      \* "shown": published, live, saved; "gone": archived, deleted
  begun,     \* the stamp of a write to the row that has not committed
  now,
  filter,    \* the status a scan asks for; "none" between scans
  cursor,    \* where the next page starts
  got,       \* keys the scan has returned
  again,     \* history: the scan has returned a key a second time
  steady,    \* history: rows that have been in the list since the scan began
  outcome    \* of the scan: "reading", "complete" or "failed"

scan == <<filter, cursor, got, again, outcome>>
listingVars == <<kind, rows, begun, now, filter, cursor, got, again, steady, outcome>>

KeyOf(i)     == [at |-> rows[i].at, id |-> i]
InList(i)    == rows[i].status = filter
NewRow(i, st, at) == rows' = [rows EXCEPT ![i] = [status |-> st, at |-> at]]
Settle(i)    == begun' = [begun EXCEPT ![i] = NoStamp]
KeepSteady   == steady' = {i \in steady : rows'[i] = rows[i]}

\* ORDER BY stamp DESC, id DESC, where a missing stamp comes first.
Above(k, m) ==
  \/ k.at = NoStamp /\ m.at # NoStamp
  \/ k.at = m.at /\ k.id > m.id
  \/ k.at # NoStamp /\ m.at # NoStamp /\ k.at > m.at

-----------------------------------------------------------------------------
(* Writers.                                                                *)

\* A request reads the clock, or its transaction starts.
BeginWrite(i) ==
  /\ begun[i] = NoStamp
  /\ begun' = [begun EXCEPT ![i] = now]
  /\ UNCHANGED <<kind, rows, now, scan, steady>>

\* publish_from_markdown, create_root or add_item of a row that is not there.
\* A draft has no published_at; comments and items are stamped by the database.
InsertRow(i, st) ==
  /\ begun[i] # NoStamp /\ rows[i].status = "none"
  /\ st = "draft" => kind = "articles"
  /\ NewRow(i, st, IF st = "draft" THEN NoStamp ELSE begun[i])
  /\ Settle(i) /\ KeepSteady
  /\ UNCHANGED <<kind, now, scan>>

\* Mutant: an article first published by an update gets no published_at.
StampUnset(i, st) == rows[i].at

\* The CASE of update_metadata: published_at is set once.
StampAfter(i, st) ==
  IF st = "shown" /\ rows[i].at = NoStamp THEN begun[i] ELSE rows[i].at

\* BlogService.update with a status: to draft or published, from any.
SetRowStatus(i, st) ==
  /\ kind = "articles"
  /\ begun[i] # NoStamp /\ rows[i].status # "none"
  /\ NewRow(i, st, StampAfter(i, st))
  /\ Settle(i) /\ KeepSteady
  /\ UNCHANGED <<kind, now, scan>>

\* archive() of an article, soft_delete() of a comment.
Hide(i) ==
  /\ kind \in {"articles", "threads"}
  /\ rows[i].status \in {"draft", "shown"}
  /\ NewRow(i, "gone", rows[i].at)
  /\ KeepSteady
  /\ UNCHANGED <<kind, begun, now, scan>>

\* remove_item(): the row is deleted, and may come back under a new stamp.
Remove(i) ==
  /\ kind = "items" /\ rows[i].status = "shown"
  /\ NewRow(i, "none", NoStamp)
  /\ KeepSteady
  /\ UNCHANGED <<kind, begun, now, scan>>

\* Rolled back, refused, or a save of an item that is there, which keeps it.
Abandon(i) ==
  /\ begun[i] # NoStamp
  /\ Settle(i)
  /\ UNCHANGED <<kind, rows, now, scan, steady>>

Tick ==
  /\ now < MaxTime
  /\ now' = now + 1
  /\ UNCHANGED <<kind, rows, begun, scan, steady>>

-----------------------------------------------------------------------------
(* A reader, page after page.                                              *)

\* Threads and items have one list each; articles have one per status, of
\* which only that of published ones is public.
OpenList(st) ==
  /\ filter = "none" /\ st # "none"
  /\ kind # "articles" => st = "shown"
  /\ filter' = st /\ cursor' = NoCursor
  /\ got' = {} /\ again' = FALSE /\ outcome' = "reading"
  /\ steady' = {i \in RowIds : rows[i].status = st}
  /\ UNCHANGED <<kind, rows, begun, now>>

\* Mutant: the cursor compares stamps only.
BelowStamp(k) == k.at # NoStamp /\ cursor.at > k.at

\* (stamp, id) < (...): a comparison with NULL is not true.
BelowCursor(k) == k.at # NoStamp /\ Above(cursor, k)

\* What the WHERE clause lets through.
Candidates == {KeyOf(i) : i \in {j \in RowIds : InList(j) /\
                                   (cursor # NoCursor => BelowCursor(KeyOf(j)))}}

\* ORDER BY ... LIMIT: the first of them.
FirstOf(page, n, keys) ==
  /\ page \subseteq keys /\ Cardinality(page) <= n
  /\ page # keys => Cardinality(page) = n
  /\ \A k \in page, m \in keys \ page : Above(k, m)

\* There is another page if the query found a row beyond this one; its cursor
\* is the last key of this one, which cannot be written down without a stamp.
ReadPage(n) ==
  /\ outcome = "reading"
  /\ \E page \in SUBSET Candidates :
       /\ FirstOf(page, n, Candidates)
       /\ IF page = Candidates
          THEN cursor' = cursor /\ outcome' = "complete"
          ELSE \E last \in page :
                 /\ \A k \in page \ {last} : Above(k, last)
                 /\ IF last.at = NoStamp
                    THEN cursor' = cursor /\ outcome' = "failed"
                    ELSE cursor' = last /\ outcome' = "reading"
       /\ IF outcome' = "failed"
          THEN UNCHANGED <<got, again>>
          ELSE got' = got \cup page /\ again' = (again \/ page \cap got # {})
  /\ UNCHANGED <<kind, rows, begun, now, filter, steady>>

CloseList ==
  /\ outcome # "reading" /\ filter # "none"
  /\ filter' = "none" /\ cursor' = NoCursor
  /\ got' = {} /\ again' = FALSE /\ steady' = {} /\ outcome' = "complete"
  /\ UNCHANGED <<kind, rows, begun, now>>

-----------------------------------------------------------------------------

ListingInit ==
  /\ kind \in Kinds
  /\ rows = [i \in RowIds |-> [status |-> "none", at |-> NoStamp]]
  /\ begun = [i \in RowIds |-> NoStamp] /\ now = 0
  /\ filter = "none" /\ cursor = NoCursor /\ got = {} /\ again = FALSE
  /\ steady = {} /\ outcome = "complete"

Writing(i) ==
  \/ BeginWrite(i) \/ Abandon(i) \/ Hide(i) \/ Remove(i)
  \/ \E st \in {"draft", "shown"} : InsertRow(i, st) \/ SetRowStatus(i, st)

ListingNext ==
  \/ \E i \in RowIds : Writing(i)
  \/ (\E st \in Statuses : OpenList(st)) \/ (\E n \in Limits : ReadPage(n)) \/ CloseList
  \/ Tick

ListingSpec == ListingInit /\ [][ListingNext]_listingVars

-----------------------------------------------------------------------------
(* Properties.                                                             *)

\* Types, and the CHECK that whatever is published says since when.
ListingTypeOK ==
  /\ kind \in Kinds /\ rows \in [RowIds -> Row]
  /\ \A i \in RowIds : rows[i].status = "shown" => rows[i].at # NoStamp
  /\ begun \in [RowIds -> Stamps \cup {NoStamp}] /\ now \in Stamps
  /\ filter \in Statuses /\ cursor \in Key \cup {NoCursor} /\ got \subseteq Key
  /\ again \in BOOLEAN /\ steady \subseteq RowIds
  /\ outcome \in {"reading", "complete", "failed"}

\* "cannot skip or repeat a row when something is published mid-scroll": no
\* page repeats a row of an earlier one, and a scan that gets to its end has
\* returned every row that was in the list all the while.  It gets there
\* unless it is one of the console's: only there do rows lack a stamp.
ScanIsExact ==
  /\ ~again
  /\ outcome = "complete" => \A i \in steady : KeyOf(i) \in got
  /\ outcome = "failed" => filter # "shown"

=============================================================================
