------------------------------- MODULE Shelf -------------------------------
(***************************************************************************)
(* What authoring promises of one article, with no store, no heading table *)
(* and no transactions: it is published once, revised and archived in      *)
(* single steps, and keeps every heading another article points at.        *)
(***************************************************************************)

CONSTANTS Anchors, Bodies, NoBody

VARIABLES status, body, pins

shelfVars == <<status, body, pins>>

Init == status = "none" /\ body = NoBody /\ pins = {}

Publish(b, st) ==
  /\ status = "none" /\ st \in {"draft", "published"}
  /\ status' = st /\ body' = b
  /\ UNCHANGED pins

\* A revision may not drop a heading somebody points at.
Revise(b, st) ==
  /\ status # "none"
  /\ pins \subseteq b
  /\ status' = st /\ body' = b
  /\ UNCHANGED pins

Archive ==
  /\ status \in {"draft", "published"}
  /\ status' = "archived"
  /\ UNCHANGED <<body, pins>>

Pin(a) ==
  /\ body # NoBody /\ a \in body \ pins
  /\ pins' = pins \cup {a}
  /\ UNCHANGED <<status, body>>

Unpin(a) ==
  /\ a \in pins
  /\ pins' = pins \ {a}
  /\ UNCHANGED <<status, body>>

Next ==
  \/ \E b \in Bodies, st \in {"draft", "published", "archived"} : Publish(b, st) \/ Revise(b, st)
  \/ Archive
  \/ \E a \in Anchors : Pin(a) \/ Unpin(a)

Spec == Init /\ [][Next]_shelfVars

=============================================================================
