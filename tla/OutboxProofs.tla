---------------------------- MODULE OutboxProofs ----------------------------
(* Theorems about the outbox and its relays, for any number of events and   *)
(* relays and every batch size.                                             *)
EXTENDS Outbox, FiniteSetTheorems, TLAPS

(***************************************************************************)
(* The inductive invariant.  The row locks make the batches of two relays  *)
(* disjoint; a claimed row stays pending while it is held; and an event    *)
(* that is neither published nor in the `succeeded' of a live transaction  *)
(* owes each of its deliveries to a crash.                                 *)
(***************************************************************************)

Batch(q) == q.todo \cup q.ok \cup q.failed

Consistent(q) ==
  /\ q.todo \cap q.ok = {} /\ q.todo \cap q.failed = {} /\ q.ok \cap q.failed = {}
  /\ q.pc # "publish" => Batch(q) = {}

WorkersOK ==
  \A w \in Workers : /\ Consistent(worker[w])
                     /\ Batch(worker[w]) \subseteq Pending \cap due
                     /\ \A e \in worker[w].ok : sent[e] > 0

Exclusive ==
  \A v, w \in Workers : v # w => Batch(worker[v]) \cap Batch(worker[w]) = {}

RowsOK ==
  /\ published \cap dead = {}
  /\ \A e \in published : sent[e] > 0
  /\ \A e \in Events \ recorded : attempts[e] = 0
  /\ BuriedAfterEveryAttempt

SentOK ==
  \A e \in Events :
    /\ sent[e] <= crashes + 1
    /\ e \notin published /\ (\A w \in Workers : e \notin worker[w].ok) => sent[e] <= crashes

IInv == TypeOK /\ WorkersOK /\ Exclusive /\ RowsOK /\ SentOK

LEMMA InitInv == Init => IInv
<1> SUFFICES ASSUME Init PROVE IInv
  OBVIOUS
<1> USE OutboxAssumption DEF Init
<1>1. NoRelay \in Relay
  BY DEF NoRelay, Relay
<1>2. TypeOK
  BY <1>1 DEF TypeOK
<1>3. WorkersOK /\ Exclusive
  BY DEF WorkersOK, Exclusive, Consistent, Batch, NoRelay, Pending
<1>4. RowsOK
  BY DEF RowsOK, BuriedAfterEveryAttempt
<1>5. SentOK
  BY DEF SentOK
<1> QED
  BY <1>2, <1>3, <1>4, <1>5 DEF IInv

(***************************************************************************)
(* A step that leaves the tables and `sent' alone preserves the invariant  *)
(* when it moves the batch of one relay only, to a consistent one that     *)
(* nobody else holds; and deliveries are forgotten at the price of a crash *)
(* only.                                                                   *)
(***************************************************************************)

Same(p, q) == p.pc = q.pc /\ p.todo = q.todo /\ p.ok = q.ok /\ p.failed = q.failed

Local(w) ==
  /\ UNCHANGED <<rows, sent>>
  /\ worker' \in [Workers -> Relay]
  /\ \A v \in Workers \ {w} : Same(worker[v], worker'[v])
  /\ advisory' \in Workers \cup {NoWorker}
  /\ crashes' \in Nat /\ stops' \in Nat /\ crashes' + stops' <= MaxEnds

LEMMA LocalStep ==
  ASSUME IInv, NEW w \in Workers, Local(w),
         Consistent(worker'[w]),
         Batch(worker'[w]) \subseteq Pending \cap due,
         \A v \in Workers \ {w} : Batch(worker[v]) \cap Batch(worker'[w]) = {},
         \A e \in worker'[w].ok : e \in worker[w].ok,
         \/ crashes' = crashes /\ worker[w].ok \subseteq worker'[w].ok
         \/ crashes' = crashes + 1
  PROVE  IInv'
<1> DEFINE p == worker[w]
           q == worker'[w]
<1>1. TypeOK'
  BY DEF TypeOK, IInv, Local, rows
<1>2. \A v \in Workers \ {w} : Batch(worker'[v]) = Batch(worker[v])
                               /\ Consistent(worker'[v]) = Consistent(worker[v])
                               /\ worker'[v].ok = worker[v].ok
  BY DEF Local, Same, Batch, Consistent
<1>3. (Pending \cap due)' = Pending \cap due /\ sent' = sent
  BY DEF Local, Pending, rows
<1>4. WorkersOK'
  <2> SUFFICES ASSUME NEW v \in Workers
               PROVE  /\ Consistent(worker'[v])
                      /\ Batch(worker'[v]) \subseteq Pending \cap due
                      /\ \A e \in worker'[v].ok : sent[e] > 0
    BY <1>3 DEF WorkersOK
  <2>1. CASE v = w
    BY <2>1 DEF IInv, WorkersOK
  <2>2. CASE v # w
    BY <2>2, <1>2 DEF IInv, WorkersOK
  <2> QED
    BY <2>1, <2>2
<1>5. Exclusive'
  <2> SUFFICES ASSUME NEW u \in Workers, NEW v \in Workers, u # v
               PROVE  Batch(worker'[u]) \cap Batch(worker'[v]) = {}
    BY DEF Exclusive
  <2>1. CASE u # w /\ v # w
    BY <2>1, <1>2 DEF IInv, Exclusive
  <2>2. CASE u = w \/ v = w
    BY <2>2, <1>2
  <2> QED
    BY <2>1, <2>2
<1>6. RowsOK'
  BY DEF IInv, RowsOK, BuriedAfterEveryAttempt, Local, rows
<1>7. SentOK'
  <2> SUFFICES ASSUME NEW e \in Events
               PROVE  /\ sent[e] <= crashes' + 1
                      /\ (e \notin published /\ \A v \in Workers : e \notin worker'[v].ok)
                           => sent[e] <= crashes'
    BY <1>3 DEF SentOK, Local, rows
  <2>1. sent[e] \in Nat /\ crashes \in Nat
    BY DEF IInv, TypeOK
  <2>2. sent[e] <= crashes + 1
    BY DEF IInv, SentOK
  <2>3. CASE crashes' = crashes + 1
    BY <2>1, <2>2, <2>3
  <2>4. CASE crashes' = crashes /\ worker[w].ok \subseteq worker'[w].ok
    <3>1. ASSUME e \notin published, \A v \in Workers : e \notin worker'[v].ok
          PROVE  sent[e] <= crashes
      <4>1. \A v \in Workers : e \notin worker[v].ok
        BY <3>1, <1>2, <2>4
      <4> QED
        BY <4>1, <3>1 DEF IInv, SentOK
    <3> QED
      BY <3>1, <2>4, <2>2
  <2> QED
    BY <2>3, <2>4
<1> QED
  BY <1>1, <1>4, <1>5, <1>6, <1>7 DEF IInv

\* The usual case: no batch moves at all.
LEMMA SameStep ==
  ASSUME IInv, NEW w \in Workers, Local(w), Same(worker[w], worker'[w]), crashes' = crashes
  PROVE  IInv'
<1>1. /\ Consistent(worker'[w])
      /\ Batch(worker'[w]) \subseteq Pending \cap due
      /\ \A v \in Workers \ {w} : Batch(worker[v]) \cap Batch(worker'[w]) = {}
  BY DEF IInv, WorkersOK, Exclusive, Same, Consistent, Batch
<1> QED
  BY <1>1, LocalStep DEF Same

\* A relay that ends takes its batch with it.
LEMMA LeaveStep ==
  ASSUME IInv, NEW w \in Workers, Leave(w), stops' = stops,
         \/ crashes' = crashes /\ worker[w].ok = {}
         \/ crashes' = crashes + 1 /\ crashes + stops < MaxEnds
  PROVE  IInv'
<1>1. NoRelay \in Relay /\ Batch(NoRelay) = {} /\ NoRelay.ok = {} /\ Consistent(NoRelay)
  BY DEF NoRelay, Relay, Batch, Consistent
<1>2. worker'[w] = NoRelay /\ \A v \in Workers \ {w} : worker'[v] = worker[v]
  BY DEF Leave, IInv, TypeOK
<1>3. Local(w)
  BY <1>1, <1>2, OutboxAssumption DEF Local, Leave, Same, IInv, TypeOK
<1> QED
  BY <1>1, <1>2, <1>3, LocalStep

(***************************************************************************)
(* The steps of a relay that leave the tables alone.                       *)
(***************************************************************************)

LEMMA ClaimStep == ASSUME IInv, NEW w \in Workers, Claim(w) PROVE IInv'
<1>1. PICK batch \in SUBSET Claimable(w) :
        worker' = [v \in Workers |->
            LET q == [worker[v] EXCEPT !.heard = @ \ batch] IN
            CASE v # w -> q
              [] v = w /\ batch = {} -> Idle(q)
              [] v = w /\ batch # {} -> [q EXCEPT !.pc = "publish", !.todo = batch]]
  BY DEF Claim
<1>2. /\ batch \subseteq Pending \cap due
      /\ \A v \in Workers \ {w} : batch \cap Batch(worker[v]) = {}
  BY DEF Claimable, Held, Batch
<1>3. worker[w] \in Relay /\ worker[w].pc = "drain" /\ Batch(worker[w]) = {}
  BY DEF Claim, IInv, TypeOK, WorkersOK, Consistent
<1>4. worker' \in [Workers -> Relay]
  <2> SUFFICES ASSUME NEW v \in Workers PROVE worker'[v] \in Relay
    BY <1>1
  <2>1. worker[v] \in Relay /\ batch \subseteq Events
    BY <1>2 DEF IInv, TypeOK, Pending
  <2> QED
    BY <1>1, <2>1 DEF Relay, Idle
<1>5. \A v \in Workers \ {w} : Same(worker[v], worker'[v])
  <2> SUFFICES ASSUME NEW v \in Workers \ {w} PROVE Same(worker[v], worker'[v])
    OBVIOUS
  <2>1. worker'[v] = [worker[v] EXCEPT !.heard = @ \ batch] /\ worker[v] \in Relay
    BY <1>1 DEF IInv, TypeOK
  <2> QED
    BY <2>1 DEF Same, Relay
<1>6. Local(w)
  BY <1>4, <1>5 DEF Local, Claim, IInv, TypeOK
<1>7. CASE batch = {}
  <2>1. worker'[w] = Idle([worker[w] EXCEPT !.heard = @ \ batch])
    BY <1>1, <1>7
  <2>2. /\ worker'[w].pc = "wait" /\ worker'[w].ok = worker[w].ok
        /\ worker'[w].todo = worker[w].todo /\ worker'[w].failed = worker[w].failed
    BY <2>1, <1>3 DEF Idle, Relay
  <2>3. Batch(worker'[w]) = {} /\ Consistent(worker'[w])
    BY <2>2, <1>3 DEF Batch, Consistent
  <2> QED
    BY <1>6, <2>2, <2>3, LocalStep DEF Claim
<1>8. CASE batch # {}
  <2>1. worker'[w] = [[worker[w] EXCEPT !.heard = @ \ batch]
                        EXCEPT !.pc = "publish", !.todo = batch]
    BY <1>1, <1>8
  <2>2. /\ worker'[w].pc = "publish" /\ worker'[w].todo = batch
        /\ worker'[w].ok = worker[w].ok /\ worker'[w].failed = worker[w].failed
    BY <2>1, <1>3 DEF Relay
  <2>3. Batch(worker'[w]) = batch /\ Consistent(worker'[w])
    BY <2>2, <1>3 DEF Batch, Consistent
  <2> QED
    BY <1>2, <1>6, <2>2, <2>3, LocalStep DEF Claim
<1> QED
  BY <1>7, <1>8

LEMMA FailStep ==
  ASSUME IInv, NEW w \in Workers, NEW e \in Events, Fail(w, e)
  PROVE  IInv'
<1>1. worker[w] \in Relay /\ worker[w].pc = "publish" /\ e \in worker[w].todo
  BY DEF Fail, IInv, TypeOK
<1>2. worker' = [worker EXCEPT ![w] = [worker[w] EXCEPT !.todo = @ \ {e},
                                                        !.failed = @ \cup {e}]]
  BY <1>1 DEF Fail, IInv, TypeOK
<1>3. /\ worker'[w].pc = "publish" /\ worker'[w].todo = worker[w].todo \ {e}
      /\ worker'[w].ok = worker[w].ok /\ worker'[w].failed = worker[w].failed \cup {e}
      /\ worker'[w] \in Relay
  BY <1>1, <1>2 DEF Relay, IInv, TypeOK
<1>4. \A v \in Workers \ {w} : worker'[v] = worker[v]
  BY <1>2 DEF IInv, TypeOK
<1>5. Local(w)
  BY <1>2, <1>3, <1>4 DEF Local, Same, Fail, IInv, TypeOK
<1>6. Batch(worker'[w]) = Batch(worker[w])
  BY <1>1, <1>3 DEF Batch
<1>7. Consistent(worker'[w])
  BY <1>1, <1>3 DEF Consistent, IInv, WorkersOK
<1>8. /\ Batch(worker'[w]) \subseteq Pending \cap due
      /\ \A v \in Workers \ {w} : Batch(worker[v]) \cap Batch(worker'[w]) = {}
  BY <1>6 DEF IInv, WorkersOK, Exclusive
<1> QED
  BY <1>3, <1>5, <1>7, <1>8, LocalStep DEF Fail

\* Start, waiting, stopping and the listener: the batch stays as it is.
LEMMA QuietStep ==
  ASSUME IInv, NEW w \in Workers,
         \/ Start(w) \/ Wake(w) \/ Poll(w) \/ Stop(w)
         \/ Listen(w) \/ Unlisten(w) \/ Hear(w)
  PROVE  IInv'
<1>1. worker[w] \in Relay /\ worker \in [Workers -> Relay] /\ Consistent(worker[w])
  BY DEF IInv, TypeOK, WorkersOK
<1>2. CASE Start(w) \/ Wake(w) \/ Poll(w)
  <2>1. /\ worker'[w] \in Relay
        /\ worker' \in [Workers -> Relay]
        /\ \A v \in Workers \ {w} : worker'[v] = worker[v]
        /\ worker'[w].pc = "drain" /\ worker'[w].todo = worker[w].todo
        /\ worker'[w].ok = worker[w].ok /\ worker'[w].failed = worker[w].failed
        /\ worker[w].pc # "publish"
    BY <1>1, <1>2 DEF Start, Wake, Poll, EndWait, Running, Relay
  <2>2. Local(w)
    BY <1>2, <2>1 DEF Local, Same, Start, Wake, Poll, EndWait, IInv, TypeOK
  <2>3. Batch(worker'[w]) = {} /\ Consistent(worker'[w])
    BY <1>1, <2>1 DEF Batch, Consistent
  <2>4. crashes' = crashes /\ worker'[w].ok = worker[w].ok
    BY <1>2, <2>1 DEF Start, Wake, Poll, EndWait
  <2>5. /\ Batch(worker'[w]) \subseteq Pending \cap due
        /\ \A v \in Workers \ {w} : Batch(worker[v]) \cap Batch(worker'[w]) = {}
    BY <2>3
  <2> QED
    BY <2>2, <2>3, <2>4, <2>5, LocalStep
<1>3. CASE Stop(w) \/ Listen(w) \/ Unlisten(w) \/ Hear(w)
  <2>1. /\ worker' \in [Workers -> Relay]
        /\ \A v \in Workers : Same(worker[v], worker'[v])
    <3>1. CASE Stop(w) \/ Listen(w)
      <4>1. CASE Stop(w)
        <5>1. worker' = [worker EXCEPT ![w].stopping = TRUE]
          BY <4>1 DEF Stop
        <5> QED
          BY <5>1, <1>1 DEF Relay, Same
      <4>2. CASE Listen(w)
        <5>1. worker' = [worker EXCEPT ![w].listening = TRUE]
          BY <4>2 DEF Listen
        <5> QED
          BY <5>1, <1>1 DEF Relay, Same
      <4> QED
        BY <3>1, <4>1, <4>2
    <3>2. CASE Unlisten(w)
      BY <3>2, <1>1 DEF Unlisten, Relay, Same
    <3>3. CASE Hear(w)
      BY <3>3, <1>1 DEF Hear, Relay, Same
    <3> QED
      BY <1>3, <3>1, <3>2, <3>3
  <2>2. Local(w) /\ crashes' = crashes
    BY <1>3, <2>1, OutboxAssumption DEF Local, Stop, Listen, Unlisten, Hear, IInv, TypeOK
  <2> QED
    BY <2>1, <2>2, SameStep
<1> QED
  BY <1>2, <1>3

(***************************************************************************)
(* The steps that change the tables or `sent'.                             *)
(***************************************************************************)

LEMMA PublishStep ==
  ASSUME IInv, NEW w \in Workers, NEW e \in Events, Publish(w, e)
  PROVE  IInv'
<1>1. worker[w] \in Relay /\ worker[w].pc = "publish" /\ e \in worker[w].todo
  BY DEF Publish, IInv, TypeOK
<1>2. worker' = [worker EXCEPT ![w] = [worker[w] EXCEPT !.todo = @ \ {e},
                                                        !.ok = @ \cup {e}]]
  BY <1>1 DEF Publish, IInv, TypeOK
<1>3. /\ worker'[w].pc = "publish" /\ worker'[w].todo = worker[w].todo \ {e}
      /\ worker'[w].failed = worker[w].failed /\ worker'[w].ok = worker[w].ok \cup {e}
      /\ worker'[w] \in Relay
  BY <1>1, <1>2 DEF Relay, IInv, TypeOK
<1>4. \A v \in Workers \ {w} : worker'[v] = worker[v]
  BY <1>2 DEF IInv, TypeOK
<1>5. /\ sent' = [sent EXCEPT ![e] = @ + 1]
      /\ UNCHANGED <<recorded, published, dead, attempts, due, advisory, crashes, stops>>
      /\ (Pending \cap due)' = Pending \cap due
  BY DEF Publish, rows, Pending
<1>6. sent \in [Events -> Nat] /\ crashes \in Nat
  BY DEF IInv, TypeOK
<1>7. TypeOK'
  BY <1>2, <1>3, <1>5, <1>6 DEF IInv, TypeOK
<1>8. Batch(worker'[w]) = Batch(worker[w])
  BY <1>1, <1>3 DEF Batch
<1>9. WorkersOK'
  <2> SUFFICES ASSUME NEW v \in Workers
               PROVE  /\ Consistent(worker'[v])
                      /\ Batch(worker'[v]) \subseteq Pending \cap due
                      /\ \A d \in worker'[v].ok : sent'[d] > 0
    BY <1>5 DEF WorkersOK
  <2>1. \A d \in Events : sent[d] > 0 => sent'[d] > 0
    BY <1>5, <1>6
  <2>2. worker[v].ok \subseteq Events /\ sent'[e] > 0
    BY <1>5, <1>6 DEF IInv, TypeOK, Relay
  <2>3. CASE v = w
    BY <2>1, <2>2, <2>3, <1>1, <1>3, <1>8 DEF IInv, WorkersOK, Consistent
  <2>4. CASE v # w
    BY <2>1, <2>2, <2>4, <1>4 DEF IInv, WorkersOK
  <2> QED
    BY <2>3, <2>4
<1>10. Exclusive'
  BY <1>4, <1>8 DEF IInv, Exclusive
<1>11. RowsOK'
  BY <1>5, <1>6 DEF IInv, TypeOK, RowsOK, BuriedAfterEveryAttempt
<1>12. SentOK'
  <2> SUFFICES ASSUME NEW d \in Events
               PROVE  /\ sent'[d] <= crashes + 1
                      /\ (d \notin published /\ \A v \in Workers : d \notin worker'[v].ok)
                           => sent'[d] <= crashes
    BY <1>5 DEF SentOK
  <2>1. CASE d = e
    <3>1. e \notin published
      BY <1>1 DEF IInv, WorkersOK, Batch, Pending
    <3>2. \A v \in Workers : e \notin worker[v].ok
      BY <1>1 DEF IInv, WorkersOK, Consistent, Exclusive, Batch
    <3>3. sent[e] <= crashes
      BY <3>1, <3>2 DEF IInv, SentOK
    <3> QED
      BY <2>1, <3>3, <1>3, <1>5, <1>6
  <2>2. CASE d # e
    <3>1. sent'[d] = sent[d]
      BY <2>2, <1>5, <1>6
    <3>2. \A v \in Workers : d \in worker[v].ok => d \in worker'[v].ok
      BY <1>3, <1>4
    <3> QED
      BY <3>1, <3>2 DEF IInv, SentOK
  <2> QED
    BY <2>1, <2>2
<1> QED
  BY <1>7, <1>9, <1>10, <1>11, <1>12 DEF IInv

LEMMA CommitStep == ASSUME IInv, NEW w \in Workers, CommitBatch(w) PROVE IInv'
<1> DEFINE good == worker[w].ok
           bad  == worker[w].failed
<1>1. worker[w] \in Relay /\ worker[w].todo = {} /\ worker \in [Workers -> Relay]
  BY DEF CommitBatch, IInv, TypeOK
<1>2. /\ good \subseteq Pending \cap due /\ bad \subseteq Pending \cap due
      /\ good \cap bad = {}
      /\ \A e \in good : sent[e] > 0
      /\ good \subseteq Events /\ bad \subseteq Events
  BY <1>1 DEF IInv, WorkersOK, Consistent, Batch, Relay
<1>3. /\ published' = published \cup good
      /\ dead' = dead \cup {e \in bad : attempts[e] + 1 >= MaxAttempts}
      /\ attempts' = [e \in Events |-> IF e \in bad THEN attempts[e] + 1 ELSE attempts[e]]
      /\ due' = due \ bad
      /\ UNCHANGED <<recorded, sent, advisory, crashes, stops>>
  BY DEF CommitBatch, Delivered, Exhausted
<1>4. /\ worker' \in [Workers -> Relay]
      /\ \A v \in Workers \ {w} : worker'[v] = worker[v]
      /\ worker'[w].todo = {} /\ worker'[w].ok = {} /\ worker'[w].failed = {}
      /\ worker'[w].pc \in {"wait", "drain"}
  <2> DEFINE q == [worker[w] EXCEPT !.pc = "drain", !.ok = {}, !.failed = {}]
  <2>1. q \in Relay /\ Idle(q) \in Relay
    BY <1>1 DEF Relay, Idle
  <2>2. worker' = [worker EXCEPT ![w] = IF worker[w].ok = {} THEN Idle(q) ELSE q]
    BY DEF CommitBatch
  <2>3. worker'[w] = Idle(q) \/ worker'[w] = q
    BY <1>1, <2>2
  <2>4. /\ q.todo = {} /\ q.ok = {} /\ q.failed = {} /\ q.pc = "drain"
        /\ Idle(q).todo = {} /\ Idle(q).ok = {} /\ Idle(q).failed = {} /\ Idle(q).pc = "wait"
    BY <1>1 DEF Relay, Idle
  <2> HIDE DEF q
  <2> QED
    BY <1>1, <2>1, <2>2, <2>3, <2>4
<1> HIDE DEF good, bad
<1>5. /\ attempts \in [Events -> 0 .. MaxAttempts]
      /\ \A e \in Pending : attempts[e] \in 0 .. MaxAttempts - 1
      /\ recorded \subseteq Events /\ MaxAttempts \in Nat \ {0}
  BY OutboxAssumption DEF IInv, TypeOK, RowsOK, BuriedAfterEveryAttempt, Pending
<1>6. attempts' \in [Events -> 0 .. MaxAttempts]
  <2> SUFFICES ASSUME NEW e \in Events
               PROVE  (IF e \in bad THEN attempts[e] + 1 ELSE attempts[e]) \in 0 .. MaxAttempts
    BY <1>3
  <2> QED
    BY <1>2, <1>5
<1>7. TypeOK'
  BY <1>2, <1>3, <1>4, <1>6 DEF IInv, TypeOK, Pending
<1>8. \A v \in Workers \ {w} : Batch(worker[v]) \cap (good \cup bad) = {}
  BY DEF IInv, Exclusive, Batch, good, bad
<1>9. Batch(worker'[w]) = {} /\ Consistent(worker'[w])
  BY <1>4 DEF Batch, Consistent
<1>10. WorkersOK'
  <2> SUFFICES ASSUME NEW v \in Workers
               PROVE  /\ Consistent(worker'[v])
                      /\ Batch(worker'[v]) \subseteq Pending' \cap due'
                      /\ \A e \in worker'[v].ok : sent[e] > 0
    BY <1>3 DEF WorkersOK
  <2>1. CASE v = w
    BY <2>1, <1>4, <1>9
  <2>2. CASE v # w
    BY <2>2, <1>3, <1>4, <1>8 DEF IInv, WorkersOK, Pending
  <2> QED
    BY <2>1, <2>2
<1>11. Exclusive'
  BY <1>4, <1>9 DEF IInv, Exclusive
<1>12. RowsOK'
  <2>1. (published \cap dead = {})'
    BY <1>2, <1>3 DEF IInv, RowsOK, Pending
  <2>2. \A e \in published' : sent'[e] > 0
    BY <1>2, <1>3 DEF IInv, RowsOK
  <2>3. \A e \in Events \ recorded' : attempts'[e] = 0
    BY <1>2, <1>3 DEF IInv, RowsOK, Pending
  <2>4. BuriedAfterEveryAttempt'
    <3> SUFFICES ASSUME NEW e \in recorded
                 PROVE  e \in dead' <=> attempts'[e] = MaxAttempts
      BY <1>3 DEF BuriedAfterEveryAttempt
    <3>1. CASE e \in bad
      <4>1. e \notin dead /\ attempts[e] \in 0 .. MaxAttempts - 1 /\ e \in Events
        BY <3>1, <1>2, <1>5 DEF Pending
      <4> QED
        BY <3>1, <4>1, <1>3, <1>5
    <3>2. CASE e \notin bad
      BY <3>2, <1>3, <1>5 DEF IInv, RowsOK, BuriedAfterEveryAttempt
    <3> QED
      BY <3>1, <3>2
  <2> QED
    BY <2>1, <2>2, <2>3, <2>4 DEF RowsOK
<1>13. SentOK'
  <2> SUFFICES ASSUME NEW e \in Events, e \notin published',
                      \A v \in Workers : e \notin worker'[v].ok
               PROVE  \A v \in Workers : e \notin worker[v].ok
    BY <1>3 DEF IInv, SentOK
  <2> QED
    BY <1>3, <1>4 DEF good
<1> QED
  BY <1>7, <1>10, <1>11, <1>12, <1>13 DEF IInv

LEMMA RecordStep ==
  ASSUME IInv, NEW e \in Events, Record(e) \/ Mature(e)
  PROVE  IInv'
<1>1. worker \in [Workers -> Relay] /\ recorded \subseteq Events
  BY DEF IInv, TypeOK
<1>2. worker' \in [Workers -> Relay] /\ \A v \in Workers : Same(worker[v], worker'[v])
  BY <1>1 DEF Record, Mature, Relay, Same
<1>3. \A v \in Workers : /\ Batch(worker'[v]) = Batch(worker[v])
                          /\ Consistent(worker'[v]) = Consistent(worker[v])
                          /\ worker'[v].ok = worker[v].ok
  BY <1>2 DEF Same, Batch, Consistent
<1>4. UNCHANGED <<published, dead, attempts, sent, advisory, crashes, stops>>
  BY DEF Record, Mature
<1>5. Pending \cap due \subseteq Pending' \cap due'
  BY DEF Record, Mature, Pending
<1>6. TypeOK'
  BY <1>2, <1>4 DEF IInv, TypeOK, Record, Mature, Pending
<1>7. WorkersOK' /\ Exclusive'
  BY <1>3, <1>4, <1>5 DEF IInv, WorkersOK, Exclusive
<1>8. RowsOK'
  BY <1>4, OutboxAssumption
     DEF IInv, TypeOK, RowsOK, BuriedAfterEveryAttempt, Record, Mature
<1>9. SentOK'
  BY <1>3, <1>4 DEF IInv, SentOK
<1> QED
  BY <1>6, <1>7, <1>8, <1>9 DEF IInv

LEMMA NextInv == IInv /\ [Next]_vars => IInv'
<1> SUFFICES ASSUME IInv, [Next]_vars PROVE IInv'
  OBVIOUS
<1>1. ASSUME NEW e \in Events, Record(e) \/ Mature(e) PROVE IInv'
  BY <1>1, RecordStep
<1>2. ASSUME NEW w \in Workers, Start(w) \/ Wake(w) \/ Poll(w) \/ Stop(w)
                                \/ Listen(w) \/ Unlisten(w) \/ Hear(w)
      PROVE  IInv'
  BY <1>2, QuietStep
<1>3. ASSUME NEW w \in Workers, Claim(w) PROVE IInv'
  BY <1>3, ClaimStep
<1>4. ASSUME NEW w \in Workers, CommitBatch(w) PROVE IInv'
  BY <1>4, CommitStep
<1>5. ASSUME NEW w \in Workers, NEW e \in Events, Publish(w, e) \/ Fail(w, e)
      PROVE  IInv'
  BY <1>5, PublishStep, FailStep
<1>6. ASSUME NEW w \in Workers, Exit(w) PROVE IInv'
  <2>1. worker[w].ok = {} /\ stops' = stops /\ crashes' = crashes /\ Leave(w)
    BY <1>6 DEF Exit, IInv, WorkersOK, Consistent, Batch
  <2> QED
    BY <2>1, LeaveStep
<1>7. ASSUME NEW w \in Workers, Crash(w) PROVE IInv'
  BY <1>7, LeaveStep DEF Crash
<1>8. CASE LoseAdvisoryLock \/ UNCHANGED vars
  <2>1. /\ UNCHANGED <<recorded, published, dead, attempts, due, sent, worker, crashes, stops>>
        /\ advisory' \in Workers \cup {NoWorker}
    BY <1>8 DEF LoseAdvisoryLock, vars, rows, IInv, TypeOK
  <2> QED
    BY <2>1 DEF IInv, TypeOK, WorkersOK, Exclusive, RowsOK, SentOK,
                BuriedAfterEveryAttempt, Pending
<1> QED
  BY <1>1, <1>2, <1>3, <1>4, <1>5, <1>6, <1>7, <1>8 DEF Next, Relaying, Listening

LEMMA Invariance == Spec => []IInv
  BY InitInv, NextInv, PTL DEF Spec

(***************************************************************************)
(* The theorems.                                                           *)
(***************************************************************************)

\* Every row and every relay keeps its type, whatever runs, dies or is lost.
THEOREM TypeCorrect == Spec => []TypeOK
<1>1. IInv => TypeOK
  BY DEF IInv
<1> QED
  BY <1>1, Invariance, PTL

\* However many relays run, an event is handed over more often than recorded
\* only as often as relays died, and the dead-letter queue holds the events
\* whose last permitted attempt has failed, and no others.
THEOREM Accounted == Spec => []AttemptsAreAccountedFor
<1>1. IInv => DuplicatesNeedACrash
  BY DEF IInv, SentOK, DuplicatesNeedACrash
<1>2. IInv => BuriedAfterEveryAttempt
  BY DEF IInv, RowsOK
<1>3. IInv => AttemptsAreAccountedFor
  BY <1>1, <1>2 DEF AttemptsAreAccountedFor
<1> QED
  BY <1>3, Invariance, PTL

(***************************************************************************)
(* Notifications.  An event a worker was woken for stays due, pending and  *)
(* in nobody's batch until somebody claims it (HeardOK), because an event  *)
(* that has never failed is due (FreshOK).  A claim that is not full takes *)
(* all there is and so leaves nothing behind that was heard of before it:  *)
(* what is left under a smaller batch came with a wake-up that is still    *)
(* set (FullOK).                                                           *)
(***************************************************************************)

Awaited(e) == e \in Pending \cap due /\ \A v \in Workers : e \notin Held(v)

FreshOK == \A e \in Pending : attempts[e] = 0 => e \in due
HeardOK == \A w \in Workers : \A e \in worker[w].heard : Awaited(e)
FullOK  == \A w \in Workers :
             worker[w].pc = "publish" /\ ~worker[w].woken /\ worker[w].heard # {}
               => Cardinality(Held(w)) = BatchSize

LEMMA InitNotices == Init => FreshOK /\ HeardOK /\ FullOK
  BY DEF Init, FreshOK, HeardOK, FullOK, Pending, NoRelay

\* What was awaited stays so while nobody claims it.
LEMMA StillAwaited ==
  ASSUME HeardOK,
         \A v \in Workers : worker'[v].heard \subseteq worker[v].heard
                            /\ Held(v)' \subseteq Held(v),
         \A e : Awaited(e) => e \in Pending' \cap due'
  PROVE  HeardOK'
<1> SUFFICES ASSUME NEW w \in Workers, NEW e \in worker'[w].heard PROVE Awaited(e)'
  BY DEF HeardOK
<1>1. Awaited(e)
  BY DEF HeardOK
<1> QED
  BY <1>1 DEF Awaited

LEMMA FreshStep ==
  ASSUME IInv, FreshOK, [Next]_vars
  PROVE  FreshOK'
<1>1. ASSUME NEW e \in Events, Record(e) \/ Mature(e) PROVE FreshOK'
  BY <1>1 DEF Record, Mature, FreshOK, Pending
<1>2. ASSUME NEW w \in Workers, CommitBatch(w) PROVE FreshOK'
  <2> SUFFICES ASSUME NEW e \in Pending', attempts'[e] = 0 PROVE e \in due'
    BY DEF FreshOK
  <2>1. e \in Pending /\ e \in Events /\ attempts[e] \in Nat
    BY <1>2, OutboxAssumption DEF CommitBatch, Pending, IInv, TypeOK
  <2>2. e \notin worker[w].failed /\ attempts[e] = 0
    BY <1>2, <2>1 DEF CommitBatch
  <2> QED
    BY <1>2, <2>1, <2>2 DEF CommitBatch, FreshOK
<1>3. ASSUME UNCHANGED rows PROVE FreshOK'
  BY <1>3 DEF FreshOK, Pending, rows
<1>4. ASSUME NEW w \in Workers,
             \/ Start(w) \/ Wake(w) \/ Poll(w) \/ Stop(w) \/ Listen(w) \/ Unlisten(w)
             \/ Hear(w) \/ Claim(w) \/ Exit(w) \/ Crash(w)
      PROVE  UNCHANGED rows
  BY <1>4 DEF Start, Wake, Poll, EndWait, Stop, Listen, Unlisten, Hear, Claim, Exit,
              Crash, Leave
<1>5. ASSUME NEW w \in Workers, NEW e \in Events, Publish(w, e) \/ Fail(w, e)
      PROVE  UNCHANGED rows
  BY <1>5 DEF Publish, Fail
<1>6. CASE LoseAdvisoryLock \/ UNCHANGED vars
  BY <1>6, <1>3 DEF LoseAdvisoryLock, vars, rows
<1> QED
  BY <1>1, <1>2, <1>3, <1>4, <1>5, <1>6 DEF Next, Relaying, Listening

\* What the claim of a batch does to each relay's notices.
LEMMA ClaimNotices ==
  ASSUME IInv, HeardOK, NEW w \in Workers, Claim(w)
  PROVE  \E batch \in SUBSET Claimable(w) :
           /\ Cardinality(batch) <= BatchSize
           /\ batch # Claimable(w) => Cardinality(batch) = BatchSize
           /\ \A v \in Workers : /\ worker'[v].heard = worker[v].heard \ batch
                                 /\ worker'[v].woken = worker[v].woken
                                 /\ Held(v)' \subseteq Held(v) \cup batch
                                 /\ v # w => /\ worker'[v].pc = worker[v].pc
                                              /\ Held(v)' = Held(v)
           /\ IF batch = {} THEN worker'[w].pc = "wait"
              ELSE worker'[w].pc = "publish" /\ Held(w)' = batch
<1>1. PICK batch \in SUBSET Claimable(w) :
        /\ Cardinality(batch) <= BatchSize
        /\ batch # Claimable(w) => Cardinality(batch) = BatchSize
        /\ worker' = [v \in Workers |->
            LET q == [worker[v] EXCEPT !.heard = @ \ batch] IN
            CASE v # w -> q
              [] v = w /\ batch = {} -> Idle(q)
              [] v = w /\ batch # {} -> [q EXCEPT !.pc = "publish", !.todo = batch]]
  BY DEF Claim
<1>2. ASSUME NEW v \in Workers
      PROVE  /\ worker'[v].heard = worker[v].heard \ batch
             /\ worker'[v].woken = worker[v].woken
             /\ Held(v)' \subseteq Held(v) \cup batch
             /\ v # w => worker'[v].pc = worker[v].pc /\ Held(v)' = Held(v)
             /\ v = w => IF batch = {} THEN worker'[v].pc = "wait"
                         ELSE worker'[v].pc = "publish" /\ Held(v)' = batch
  <2>1. worker[v] \in Relay
    BY DEF IInv, TypeOK
  <2>2. CASE v # w
    <3>1. worker'[v] = [worker[v] EXCEPT !.heard = @ \ batch]
      BY <1>1, <2>2
    <3>2. /\ worker'[v].heard = worker[v].heard \ batch /\ worker'[v].woken = worker[v].woken
          /\ worker'[v].pc = worker[v].pc /\ worker'[v].todo = worker[v].todo
          /\ worker'[v].ok = worker[v].ok /\ worker'[v].failed = worker[v].failed
      BY <2>1, <3>1 DEF Relay
    <3> QED
      BY <2>2, <3>2 DEF Held
  <2>3. CASE v = w /\ batch = {}
    <3>1. worker'[v] = Idle([worker[v] EXCEPT !.heard = @ \ batch])
      BY <1>1, <2>3
    <3>2. /\ worker'[v].heard = worker[v].heard \ batch /\ worker'[v].woken = worker[v].woken
          /\ worker'[v].pc = "wait" /\ worker'[v].todo = worker[v].todo
          /\ worker'[v].ok = worker[v].ok /\ worker'[v].failed = worker[v].failed
      BY <2>1, <3>1 DEF Relay, Idle
    <3> QED
      BY <2>3, <3>2 DEF Held
  <2>4. CASE v = w /\ batch # {}
    <3>1. worker'[v] = [[worker[v] EXCEPT !.heard = @ \ batch]
                          EXCEPT !.pc = "publish", !.todo = batch]
      BY <1>1, <2>4
    <3>2. Held(v) = {}
      BY <2>4 DEF Claim, IInv, WorkersOK, Consistent, Batch, Held
    <3>3. /\ worker'[v].heard = worker[v].heard \ batch /\ worker'[v].woken = worker[v].woken
          /\ worker'[v].pc = "publish" /\ worker'[v].todo = batch
          /\ worker'[v].ok = worker[v].ok /\ worker'[v].failed = worker[v].failed
      BY <2>1, <3>1 DEF Relay
    <3> QED
      BY <2>4, <3>2, <3>3 DEF Held
  <2> QED
    BY <2>2, <2>3, <2>4
<1> QED
  BY <1>1, <1>2

LEMMA HearNotices ==
  ASSUME IInv, NEW w \in Workers, Hear(w)
  PROVE  /\ worker'[w].woken /\ worker'[w].pc = worker[w].pc
         /\ worker'[w].heard = worker[w].heard \cup
              {e \in worker[w].notices \cap Pending :
                 attempts[e] = 0 /\ \A v \in Workers : e \notin Held(v)}
         /\ Held(w)' = Held(w)
         /\ \A v \in Workers \ {w} : worker'[v] = worker[v]
<1> DEFINE news == {e \in worker[w].notices \cap Pending :
                      attempts[e] = 0 /\ \A v \in Workers : e \notin Held(v)}
<1>1. worker' = [worker EXCEPT ![w].notices = {}, ![w].woken = TRUE,
                               ![w].heard = @ \cup news]
  BY DEF Hear
<1>2. worker[w] \in Relay /\ worker \in [Workers -> Relay]
  BY DEF IInv, TypeOK
<1> HIDE DEF news
<1>3. /\ worker'[w] = [worker[w] EXCEPT !.notices = {}, !.woken = TRUE,
                                        !.heard = worker[w].heard \cup news]
      /\ \A v \in Workers \ {w} : worker'[v] = worker[v]
  BY <1>1, <1>2 DEF Relay
<1>4. /\ worker'[w].woken = TRUE /\ worker'[w].pc = worker[w].pc
      /\ worker'[w].heard = worker[w].heard \cup news
      /\ worker'[w].todo = worker[w].todo /\ worker'[w].ok = worker[w].ok
      /\ worker'[w].failed = worker[w].failed
  BY <1>2, <1>3 DEF Relay
<1> QED
  BY <1>3, <1>4 DEF Held, news

\* The steps of one relay other than a claim and a notification: it forgets
\* notices or keeps them, keeps its batch until the commit, and goes to wait
\* from a batch that has failed as a whole.
Settling(w) ==
  \/ Start(w) \/ Wake(w) \/ Poll(w) \/ Stop(w) \/ Listen(w) \/ Unlisten(w)
  \/ Exit(w) \/ Crash(w) \/ CommitBatch(w) \/ \E e \in Events : Publish(w, e) \/ Fail(w, e)

LEMMA SettlingNotices ==
  ASSUME IInv, NEW w \in Workers, Settling(w)
  PROVE  /\ \A v \in Workers \ {w} : worker'[v] = worker[v]
         /\ Held(w)' \subseteq Held(w)
         /\ worker'[w].heard \subseteq worker[w].heard
         /\ worker'[w].pc = "publish" =>
              /\ worker[w].pc = "publish" /\ worker'[w].woken = worker[w].woken
              /\ Held(w)' = Held(w)
         /\ worker'[w].pc = "wait" =>
              /\ worker'[w].woken = worker[w].woken
              /\ \/ worker[w].pc = "wait"
                 \/ worker[w].pc = "publish" /\ Held(w) = worker[w].failed
<1>1. worker[w] \in Relay /\ worker \in [Workers -> Relay]
  BY DEF IInv, TypeOK
<1>2. CASE Start(w) \/ Wake(w) \/ Poll(w)
  BY <1>1, <1>2 DEF Start, Wake, Poll, EndWait, Relay, Held
<1>3. CASE Stop(w)
  <2>1. worker' = [worker EXCEPT ![w].stopping = TRUE]
    BY <1>3 DEF Stop
  <2> QED
    BY <1>1, <2>1 DEF Relay, Held
<1>4. CASE Listen(w)
  <2>1. worker' = [worker EXCEPT ![w].listening = TRUE]
    BY <1>4 DEF Listen
  <2> QED
    BY <1>1, <2>1 DEF Relay, Held
<1>5. CASE Unlisten(w)
  BY <1>1, <1>5 DEF Unlisten, Relay, Held
<1>6. CASE Exit(w) \/ Crash(w)
  BY <1>1, <1>6 DEF Exit, Crash, Leave, NoRelay, Held
<1>7. CASE CommitBatch(w)
  <2> DEFINE q == [worker[w] EXCEPT !.pc = "drain", !.ok = {}, !.failed = {}]
  <2>1. worker[w].pc = "publish" /\ worker[w].todo = {}
        /\ worker' = [worker EXCEPT ![w] = IF worker[w].ok = {} THEN Idle(q) ELSE q]
    BY <1>7 DEF CommitBatch
  <2>2. /\ q.todo = worker[w].todo /\ q.ok = {} /\ q.failed = {} /\ q.pc = "drain"
        /\ q.heard = worker[w].heard /\ q.woken = worker[w].woken
        /\ Idle(q).todo = worker[w].todo /\ Idle(q).ok = {} /\ Idle(q).failed = {}
        /\ Idle(q).heard = worker[w].heard /\ Idle(q).woken = worker[w].woken
        /\ Idle(q).pc = "wait"
    BY <1>1 DEF Relay, Idle
  <2> HIDE DEF q
  <2>3. /\ IF worker[w].ok = {} THEN worker'[w] = Idle(q) ELSE worker'[w] = q
        /\ \A v \in Workers \ {w} : worker'[v] = worker[v]
    BY <1>1, <2>1
  <2>4. CASE worker[w].ok = {}
    BY <2>1, <2>2, <2>3, <2>4 DEF Held
  <2>5. CASE worker[w].ok # {}
    BY <2>1, <2>2, <2>3, <2>5 DEF Held
  <2> QED
    BY <2>4, <2>5
<1>8. ASSUME NEW e \in Events, Publish(w, e) \/ Fail(w, e)
      PROVE  /\ \A v \in Workers \ {w} : worker'[v] = worker[v]
             /\ Held(w)' \subseteq Held(w)
             /\ worker'[w].heard \subseteq worker[w].heard
             /\ worker'[w].pc = "publish" /\ worker[w].pc = "publish"
             /\ worker'[w].woken = worker[w].woken /\ Held(w)' = Held(w)
  BY <1>1, <1>8 DEF Publish, Fail, Relay, Held
<1> QED
  BY <1>2, <1>3, <1>4, <1>5, <1>6, <1>7, <1>8 DEF Settling

\* Every step is one of these.
LEMMA Steps ==
  [Next]_vars =>
    \/ \E e \in Events : Record(e) \/ Mature(e)
    \/ \E w \in Workers : Claim(w) \/ Hear(w) \/ Settling(w)
    \/ LoseAdvisoryLock \/ UNCHANGED vars
  BY DEF Next, Relaying, Listening, Settling

\* Events recorded and backoffs that run out leave what relays heard alone.
LEMMA RecordNotices ==
  ASSUME IInv, NEW e \in Events, Record(e) \/ Mature(e)
  PROVE  \A v \in Workers :
           /\ worker'[v].heard = worker[v].heard /\ worker'[v].woken = worker[v].woken
           /\ worker'[v].pc = worker[v].pc /\ Held(v)' = Held(v)
<1> SUFFICES ASSUME NEW v \in Workers
             PROVE  /\ worker'[v].heard = worker[v].heard
                    /\ worker'[v].woken = worker[v].woken
                    /\ worker'[v].pc = worker[v].pc /\ Held(v)' = Held(v)
  OBVIOUS
<1>1. worker[v] \in Relay
  BY DEF IInv, TypeOK
<1>2. worker'[v] = worker[v] \/ worker'[v] = [worker[v] EXCEPT !.notices = @ \cup {e}]
  BY DEF Record, Mature
<1> QED
  BY <1>1, <1>2 DEF Relay, Held

LEMMA HeardStep ==
  ASSUME IInv, FreshOK, HeardOK, [Next]_vars
  PROVE  HeardOK'
<1>1. ASSUME NEW e \in Events, Record(e) \/ Mature(e) PROVE HeardOK'
  <2>1. Pending \cap due \subseteq Pending' \cap due'
    BY <1>1 DEF Record, Mature, Pending, IInv, TypeOK, rows
  <2>2. \A v \in Workers : worker'[v].heard \subseteq worker[v].heard
                           /\ Held(v)' \subseteq Held(v)
    BY <1>1, RecordNotices
  <2> QED
    BY <2>1, <2>2, StillAwaited DEF Awaited
<1>2. ASSUME NEW w \in Workers, Claim(w) PROVE HeardOK'
  <2>1. PICK batch \in SUBSET Claimable(w) :
          \A v \in Workers : worker'[v].heard = worker[v].heard \ batch
                             /\ Held(v)' \subseteq Held(v) \cup batch
    BY <1>2, ClaimNotices
  <2>2. Pending' = Pending /\ due' = due
    BY <1>2 DEF Claim, rows, Pending
  <2> QED
    BY <2>1, <2>2 DEF HeardOK, Awaited
<1>3. ASSUME NEW w \in Workers, Hear(w) PROVE HeardOK'
  <2>1. Pending' = Pending /\ due' = due
    BY <1>3 DEF Hear, rows, Pending
  <2>2. \A v \in Workers : Held(v)' = Held(v)
    BY <1>3, HearNotices DEF Held
  <2>3. \A e : Awaited(e)' = Awaited(e)
    BY <2>1, <2>2 DEF Awaited
  <2>4. \A e \in worker'[w].heard \ worker[w].heard : Awaited(e)
    BY <1>3, HearNotices DEF FreshOK, Awaited
  <2> QED
    BY <1>3, <2>3, <2>4, HearNotices DEF HeardOK
<1>4. ASSUME NEW w \in Workers, Settling(w) PROVE HeardOK'
  <2>1. \A v \in Workers : worker'[v].heard \subseteq worker[v].heard
                           /\ Held(v)' \subseteq Held(v)
    BY <1>4, SettlingNotices DEF Held
  <2>2. \A e : Awaited(e) => e \in Pending' \cap due'
    <3>1. CASE CommitBatch(w)
      BY <3>1 DEF CommitBatch, Delivered, Awaited, Held, Pending
    <3>2. CASE UNCHANGED rows
      BY <3>2 DEF rows, Awaited, Pending
    <3> QED
      BY <1>4, <3>1, <3>2 DEF Settling, Start, Wake, Poll, EndWait, Stop, Listen, Unlisten,
                              Exit, Crash, Leave, Publish, Fail
  <2> QED
    BY <2>1, <2>2, StillAwaited
<1>5. CASE LoseAdvisoryLock \/ UNCHANGED vars
  BY <1>5 DEF LoseAdvisoryLock, vars, rows, HeardOK, Awaited, Held, Pending
<1> QED
  BY <1>1, <1>2, <1>3, <1>4, <1>5, Steps

\* What a claim leaves behind of the events its worker has heard of, it leaves
\* behind because the batch is full, and a full batch is not empty.
LEMMA LeftBehind ==
  ASSUME IInv, HeardOK, NEW w \in Workers, Claim(w), worker'[w].heard # {}
  PROVE  worker'[w].pc = "publish" /\ Cardinality(Held(w)') = BatchSize
<1>1. PICK batch \in SUBSET Claimable(w) :
        /\ batch # Claimable(w) => Cardinality(batch) = BatchSize
        /\ worker'[w].heard = worker[w].heard \ batch
        /\ IF batch = {} THEN worker'[w].pc = "wait"
           ELSE worker'[w].pc = "publish" /\ Held(w)' = batch
  BY ClaimNotices
<1>2. worker[w].heard \subseteq Claimable(w)
  BY DEF HeardOK, Awaited, Claimable
<1>3. Cardinality(batch) = BatchSize
  BY <1>1, <1>2
<1>4. batch # {}
  BY <1>3, FS_EmptySet, OutboxAssumption
<1> QED
  BY <1>1, <1>3, <1>4

LEMMA FullStep ==
  ASSUME IInv, HeardOK, FullOK, [Next]_vars
  PROVE  FullOK'
<1>1. ASSUME NEW e \in Events, Record(e) \/ Mature(e) PROVE FullOK'
  BY <1>1, RecordNotices DEF FullOK
<1>2. ASSUME NEW w \in Workers, Claim(w) PROVE FullOK'
  <2>1. \A v \in Workers \ {w} : /\ worker'[v].pc = worker[v].pc
                                 /\ worker'[v].woken = worker[v].woken
                                 /\ worker'[v].heard \subseteq worker[v].heard
                                 /\ Held(v)' = Held(v)
    BY <1>2, ClaimNotices
  <2>2. worker'[w].heard # {} => Cardinality(Held(w)') = BatchSize
    BY <1>2, LeftBehind
  <2> QED
    BY <2>1, <2>2 DEF FullOK
<1>3. ASSUME NEW w \in Workers, Hear(w) PROVE FullOK'
  BY <1>3, HearNotices DEF FullOK, Held
<1>4. ASSUME NEW w \in Workers, Settling(w) PROVE FullOK'
  BY <1>4, SettlingNotices DEF FullOK, Held
<1>5. CASE LoseAdvisoryLock \/ UNCHANGED vars
  BY <1>5 DEF LoseAdvisoryLock, vars, FullOK, Held
<1> QED
  BY <1>1, <1>2, <1>3, <1>4, <1>5, Steps

\* A step after which a worker sleeps on an event it did not sleep on before.
LEMMA FallsAsleep ==
  ASSUME IInv, HeardOK, FullOK, [Next]_vars, NEW w \in Workers, SleepsOnEvent(w)'
  PROVE  \/ SleepsOnEvent(w)
         \/ worker[w].pc = "publish" /\ Cardinality(worker[w].failed) = BatchSize
<1>0. worker'[w].pc = "wait" /\ ~worker'[w].woken /\ worker'[w].heard # {}
  BY DEF SleepsOnEvent
<1>1. ASSUME NEW e \in Events, Record(e) \/ Mature(e) PROVE SleepsOnEvent(w)
  BY <1>0, <1>1, RecordNotices DEF SleepsOnEvent
<1>2. ASSUME NEW v \in Workers, Claim(v) PROVE SleepsOnEvent(w)
  <2>1. v # w
    BY <1>0, <1>2, LeftBehind
  <2>2. /\ worker'[w].pc = worker[w].pc /\ worker'[w].woken = worker[w].woken
        /\ worker'[w].heard \subseteq worker[w].heard
    BY <1>2, <2>1, ClaimNotices
  <2> QED
    BY <1>0, <2>2 DEF SleepsOnEvent
<1>3. ASSUME NEW v \in Workers, Hear(v) PROVE SleepsOnEvent(w)
  BY <1>0, <1>3, HearNotices DEF SleepsOnEvent
<1>4. ASSUME NEW v \in Workers, Settling(v)
      PROVE  \/ SleepsOnEvent(w)
             \/ worker[w].pc = "publish" /\ Cardinality(worker[w].failed) = BatchSize
  <2>1. CASE v # w
    BY <1>0, <1>4, <2>1, SettlingNotices DEF SleepsOnEvent
  <2>2. CASE v = w
    <3>1. /\ worker'[w].heard \subseteq worker[w].heard /\ ~worker[w].woken
          /\ \/ worker[w].pc = "wait"
             \/ worker[w].pc = "publish" /\ Held(w) = worker[w].failed
      BY <1>0, <1>4, <2>2, SettlingNotices
    <3> QED
      BY <1>0, <3>1 DEF FullOK, SleepsOnEvent
  <2> QED
    BY <2>1, <2>2
<1>5. CASE LoseAdvisoryLock \/ UNCHANGED vars
  BY <1>0, <1>5 DEF LoseAdvisoryLock, vars, SleepsOnEvent
<1> QED
  BY <1>1, <1>2, <1>3, <1>4, <1>5, Steps

LEMMA Notices == Spec => [](FreshOK /\ HeardOK /\ FullOK)
<1>1. IInv /\ FreshOK /\ HeardOK /\ FullOK /\ [Next]_vars => (FreshOK /\ HeardOK /\ FullOK)'
  BY FreshStep, HeardStep, FullStep
<1> QED
  BY <1>1, InitNotices, Invariance, PTL DEF Spec

\* For every batch size and any backlog: a worker comes to sleep on an event it
\* was woken for only by committing a full batch that failed as a whole.
THEOREM NotSleptOn == Spec => NotificationIsNotSleptOn
<1>1. ASSUME IInv, HeardOK, FullOK, [Next]_vars
      PROVE  \A w \in Workers : SleepsOnEvent(w)' =>
               \/ SleepsOnEvent(w)
               \/ worker[w].pc = "publish" /\ Cardinality(worker[w].failed) = BatchSize
  BY <1>1, FallsAsleep
<1> QED
  BY <1>1, Notices, Invariance, PTL DEF Spec, NotificationIsNotSleptOn

(***************************************************************************)
(* Refinement: every step of the outbox is a step of EventRelay or none.   *)
(***************************************************************************)

LEMMA RefInit == Init => Promise!Init
  BY DEF Init, Promise!Init, Sent

LEMMA RefStep == IInv /\ [Next]_vars => [Promise!Next]_(Promise!vars)
<1> SUFFICES ASSUME IInv, [Next]_vars PROVE [Promise!Next]_(Promise!vars)
  OBVIOUS
<1>1. ASSUME NEW e \in Events, Record(e) PROVE Promise!Record(e)
  BY <1>1 DEF Record, Promise!Record, Sent
<1>2. ASSUME NEW w \in Workers, NEW e \in Events, Publish(w, e) PROVE Promise!Send(e)
  <2>1. e \in Promise!Pending
    BY <1>2 DEF Publish, IInv, WorkersOK, Batch, Pending, Promise!Pending
  <2>2. Sent' = Sent \cup {e}
    BY <1>2 DEF Publish, Sent, IInv, TypeOK
  <2> QED
    BY <1>2, <2>1, <2>2 DEF Publish, rows, Promise!Send
<1>3. ASSUME NEW w \in Workers, CommitBatch(w) PROVE Promise!Next
  <2> DEFINE good == worker[w].ok
             bad  == {e \in worker[w].failed : Exhausted(e)}
  <2>1. /\ good \subseteq Pending /\ bad \subseteq Pending /\ good \cap bad = {}
        /\ \A e \in good : sent[e] > 0
        /\ good \in SUBSET Events /\ bad \in SUBSET Events
    BY DEF IInv, WorkersOK, Consistent, Batch, TypeOK, Relay
  <2>2. published' = published \cup good /\ dead' = dead \cup bad
        /\ UNCHANGED <<recorded, sent>>
    BY <1>3 DEF CommitBatch, Delivered
  <2> HIDE DEF good, bad
  <2>3. Promise!Settle(good, bad)
    BY <2>1, <2>2 DEF Promise!Settle, Promise!Pending, Pending, Sent
  <2> QED
    BY <2>1, <2>3 DEF Promise!Next
<1>4. ASSUME UNCHANGED <<recorded, published, dead, sent>> PROVE UNCHANGED Promise!vars
  BY <1>4 DEF Promise!vars, Sent
<1>5. ASSUME NEW w \in Workers,
             \/ Start(w) \/ Wake(w) \/ Poll(w) \/ Stop(w) \/ Listen(w) \/ Unlisten(w)
             \/ Hear(w) \/ Claim(w) \/ Exit(w) \/ Crash(w)
      PROVE  UNCHANGED Promise!vars
  BY <1>5, <1>4 DEF Start, Wake, Poll, EndWait, Stop, Listen, Unlisten, Hear, Claim,
                    Exit, Crash, Leave, rows
<1>6. ASSUME NEW e \in Events, Mature(e) PROVE UNCHANGED Promise!vars
  BY <1>6, <1>4 DEF Mature
<1>7. ASSUME NEW w \in Workers, NEW e \in Events, Fail(w, e) PROVE UNCHANGED Promise!vars
  BY <1>7, <1>4 DEF Fail, rows
<1>8. CASE LoseAdvisoryLock \/ UNCHANGED vars
  BY <1>8, <1>4 DEF LoseAdvisoryLock, vars, rows
<1> QED
  BY <1>1, <1>2, <1>3, <1>5, <1>6, <1>7, <1>8
     DEF Next, Relaying, Listening, Promise!Next

\* The outbox implements the at-least-once relay: what is published was handed
\* over, what is settled stays settled, and nothing is handed over after.
THEOREM Refinement == Spec => ImplementsEventRelay
  BY RefInit, RefStep, Invariance, PTL DEF Spec, ImplementsEventRelay, Promise!Spec

=============================================================================
