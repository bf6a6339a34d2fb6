----------------------------- MODULE EventRelay -----------------------------
(* What the outbox promises the rest of the system: an event exists once    *)
(* its change has committed, is handed to the subscribers at least once     *)
(* before it counts as published, and never changes again once it is        *)
(* published or buried in the dead-letter queue.                            *)
CONSTANT Events

VARIABLES recorded,   \* events whose change has committed
          sent,       \* events handed over at least once
          published,
          dead

vars == <<recorded, sent, published, dead>>

Init == recorded = {} /\ sent = {} /\ published = {} /\ dead = {}

Pending == recorded \ (published \cup dead)

Record(e) ==
  /\ e \notin recorded
  /\ recorded' = recorded \cup {e}
  /\ UNCHANGED <<sent, published, dead>>

\* A pending event may be handed over, and handed over again.
Send(e) ==
  /\ e \in Pending
  /\ sent' = sent \cup {e}
  /\ UNCHANGED <<recorded, published, dead>>

\* A batch is settled at once: some were handed over, on some the relay gives up.
Settle(good, bad) ==
  /\ good \subseteq Pending \cap sent
  /\ bad \subseteq Pending
  /\ good \cap bad = {}
  /\ published' = published \cup good
  /\ dead' = dead \cup bad
  /\ UNCHANGED <<recorded, sent>>

Next ==
  \/ \E e \in Events : Record(e) \/ Send(e)
  \/ \E good, bad \in SUBSET Events : Settle(good, bad)

Spec == Init /\ [][Next]_vars

=============================================================================
