------------------------------- MODULE Outbox -------------------------------
(***************************************************************************)
(* The transactional outbox and its relay: SqlOutboxRepository and         *)
(* workers/outbox.py.                                                      *)
(*                                                                         *)
(* A relay process holds a session advisory lock on a connection of its    *)
(* own, listens for notifications on another, and drains batches on a      *)
(* third.  One drain is one transaction: claim the rows and lock them,     *)
(* publish them one by one, record what happened, commit.  Anything that   *)
(* ends the process in between rolls all of it back.                       *)
(***************************************************************************)
EXTENDS Naturals, FiniteSets

CONSTANTS Events, Workers, NoWorker,
          BatchSize,     \* settings.outbox_batch_size
          MaxAttempts,   \* settings.outbox_max_attempts
          MaxEnds        \* bound: times a relay dies or is asked to stop

ASSUME OutboxAssumption ==
  /\ NoWorker \notin Workers
  /\ BatchSize \in Nat \ {0} /\ MaxAttempts \in Nat \ {0}
  /\ MaxEnds \in Nat

VARIABLES
  recorded,     \* committed rows of outbox_events
  published,    \* rows with status 'published'
  dead,         \* rows with status 'dead'
  attempts,     \* column attempts
  due,          \* rows with next_attempt_at <= now
  sent,         \* how often _publish has returned normally for an event
  worker,       \* the state of each relay process
  advisory,     \* who holds the advisory lock
  crashes, stops

rows == <<recorded, published, dead, attempts, due>>
vars == <<recorded, published, dead, attempts, due, sent, worker, advisory, crashes, stops>>

Relay == [pc        : {"down", "drain", "publish", "wait"},
          todo      : SUBSET Events,  \* claimed, not yet tried
          ok        : SUBSET Events,  \* claimed and handed over: `succeeded'
          failed    : SUBSET Events,  \* claimed, marked failed, not committed
          stopping  : BOOLEAN,        \* the event _stopping
          woken     : BOOLEAN,        \* the event _woken
          listening : BOOLEAN,        \* the LISTEN connection is up
          notices   : SUBSET Events,  \* inserts whose notification is on its way
          heard     : SUBSET Events]  \* history: woken for, not claimed since

NoRelay == [pc |-> "down", todo |-> {}, ok |-> {}, failed |-> {},
            stopping |-> FALSE, woken |-> FALSE, listening |-> FALSE,
            notices |-> {}, heard |-> {}]

Running(w) == worker[w].pc # "down"
Held(w)    == worker[w].todo \cup worker[w].ok \cup worker[w].failed
Pending    == recorded \ (published \cup dead)

\* Mutants: a claim that does not look at what other workers hold, and one
\* that never comes back to an event that has failed.
ClaimableAny(w)   == Pending \cap due
ClaimableFresh(w) == {e \in Pending \cap due :
                        attempts[e] = 0 /\ \A v \in Workers \ {w} : e \notin Held(v)}

\* The rows a claim may return: SKIP LOCKED passes over those of other workers.
Claimable(w) == {e \in Pending \cap due : \A v \in Workers \ {w} : e \notin Held(v)}

-----------------------------------------------------------------------------
(* The rest of the application.                                            *)

\* A service's transaction commits with an event staged by add(); the insert's
\* trigger notifies the connections that listen.
Record(e) ==
  /\ e \notin recorded
  /\ recorded' = recorded \cup {e}
  /\ due' = due \cup {e}
  /\ worker' = [w \in Workers |->
                  IF worker[w].listening
                  THEN [worker[w] EXCEPT !.notices = @ \cup {e}]
                  ELSE worker[w]]
  /\ UNCHANGED <<published, dead, attempts, sent, advisory, crashes, stops>>

\* The backoff of a failed event has run out.
Mature(e) ==
  /\ e \in Pending \ due
  /\ due' = due \cup {e}
  /\ UNCHANGED <<recorded, published, dead, attempts, sent, worker, advisory, crashes, stops>>

-----------------------------------------------------------------------------
(* The relay process.                                                      *)

\* _main: pg_try_advisory_lock; a process that does not get it exits.
Start(w) ==
  /\ ~Running(w)
  /\ advisory = NoWorker
  /\ advisory' = w
  /\ worker' = [worker EXCEPT ![w].pc = "drain"]
  /\ UNCHANGED <<rows, sent, crashes, stops>>

\* Mutant: the notification is forgotten when the worker goes to wait.
IdleForgetful(q) == [q EXCEPT !.pc = "wait", !.woken = FALSE]

\* `published == 0': on to wait_for.  A notification that came in the meantime
\* is still set, and ends the wait at once.
Idle(q) == [q EXCEPT !.pc = "wait"]

\* The loop's test and claim(): the transaction opens and locks up to a batch
\* of due rows, in an order that is not modelled.  Nothing to claim: wait.
Claim(w) ==
  /\ worker[w].pc = "drain" /\ ~worker[w].stopping
  /\ \E batch \in SUBSET Claimable(w) :
       /\ Cardinality(batch) <= BatchSize
       /\ batch # Claimable(w) => Cardinality(batch) = BatchSize
       /\ worker' = [v \in Workers |->
            LET q == [worker[v] EXCEPT !.heard = @ \ batch] IN
            CASE v # w -> q
              [] v = w /\ batch = {} -> Idle(q)
              [] v = w /\ batch # {} -> [q EXCEPT !.pc = "publish", !.todo = batch]]
  /\ UNCHANGED <<rows, sent, advisory, crashes, stops>>

\* _publish returns, and the event joins `succeeded'.
Publish(w, e) ==
  /\ worker[w].pc = "publish" /\ e \in worker[w].todo
  /\ sent' = [sent EXCEPT ![e] = @ + 1]
  /\ worker' = [worker EXCEPT ![w].todo = @ \ {e}, ![w].ok = @ \cup {e}]
  /\ UNCHANGED <<rows, advisory, crashes, stops>>

\* _publish raises, and mark_failed updates the row; nobody sees it yet.
Fail(w, e) ==
  /\ worker[w].pc = "publish" /\ e \in worker[w].todo
  /\ worker' = [worker EXCEPT ![w].todo = @ \ {e}, ![w].failed = @ \cup {e}]
  /\ UNCHANGED <<rows, sent, advisory, crashes, stops>>

\* Mutants: an attempt too many, and a batch recorded as a whole.
ExhaustedLate(e)  == attempts[e] + 1 > MaxAttempts
DeliveredAll(w)   == worker[w].ok \cup worker[w].failed

\* `dead' in _drain, and the argument of mark_published.
Exhausted(e) == attempts[e] + 1 >= MaxAttempts
Delivered(w) == worker[w].ok

\* mark_published for the ones that worked, and the commit.  A batch that
\* published nothing is taken for an empty one: the worker goes to wait, even
\* if the batch was full and there may be more.
CommitBatch(w) ==
  /\ worker[w].pc = "publish" /\ worker[w].todo = {}
  /\ published' = published \cup Delivered(w)
  /\ dead' = dead \cup {e \in worker[w].failed : Exhausted(e)}
  /\ attempts' = [e \in Events |-> IF e \in worker[w].failed THEN attempts[e] + 1
                                                             ELSE attempts[e]]
  /\ due' = due \ worker[w].failed
  /\ LET q == [worker[w] EXCEPT !.pc = "drain", !.ok = {}, !.failed = {}] IN
     worker' = [worker EXCEPT ![w] = IF worker[w].ok = {} THEN Idle(q) ELSE q]
  /\ UNCHANGED <<recorded, sent, advisory, crashes, stops>>

\* wait_for returns, on the event or on the poll interval, and clears it.
EndWait(w) ==
  /\ worker' = [worker EXCEPT ![w].pc = "drain", ![w].woken = FALSE]
  /\ UNCHANGED <<rows, sent, advisory, crashes, stops>>

Wake(w) == worker[w].pc = "wait" /\ worker[w].woken /\ EndWait(w)
Poll(w) == worker[w].pc = "wait" /\ EndWait(w)

\* SIGTERM.  The loop looks at it between drains only.
Stop(w) ==
  /\ Running(w) /\ ~worker[w].stopping /\ crashes + stops < MaxEnds
  /\ stops' = stops + 1
  /\ worker' = [worker EXCEPT ![w].stopping = TRUE]
  /\ UNCHANGED <<rows, sent, advisory, crashes>>

Leave(w) ==
  /\ worker' = [worker EXCEPT ![w] = NoRelay]
  /\ advisory' = IF advisory = w THEN NoWorker ELSE advisory
  /\ UNCHANGED <<rows, sent>>

Exit(w) ==
  /\ worker[w].pc = "drain" /\ worker[w].stopping
  /\ Leave(w)
  /\ UNCHANGED <<crashes, stops>>

\* A kill, a lost connection, a statement timeout: nothing in run() catches
\* what a drain raises, so each ends the process and rolls its batch back.
Crash(w) ==
  /\ Running(w) /\ crashes + stops < MaxEnds
  /\ crashes' = crashes + 1
  /\ Leave(w)
  /\ UNCHANGED stops

\* The connection that holds the advisory lock drops.  Nobody notices.
LoseAdvisoryLock ==
  /\ advisory # NoWorker
  /\ advisory' = NoWorker
  /\ UNCHANGED <<rows, sent, worker, crashes, stops>>

-----------------------------------------------------------------------------
(* The listener task.                                                      *)

Listen(w) ==
  /\ Running(w) /\ ~worker[w].listening
  /\ worker' = [worker EXCEPT ![w].listening = TRUE]
  /\ UNCHANGED <<rows, sent, advisory, crashes, stops>>

\* The connection drops, with the notifications on it.
Unlisten(w) ==
  /\ worker[w].listening
  /\ worker' = [worker EXCEPT ![w].listening = FALSE, ![w].notices = {}]
  /\ UNCHANGED <<rows, sent, advisory, crashes, stops>>

\* Events already claimed by the time their notification is read wake the
\* worker for nothing.
Hear(w) ==
  /\ worker[w].notices # {}
  /\ worker' = [worker EXCEPT
       ![w].notices = {}, ![w].woken = TRUE,
       ![w].heard = @ \cup {e \in worker[w].notices \cap Pending :
                              attempts[e] = 0 /\ \A v \in Workers : e \notin Held(v)}]
  /\ UNCHANGED <<rows, sent, advisory, crashes, stops>>

-----------------------------------------------------------------------------

Init ==
  /\ recorded = {} /\ published = {} /\ dead = {} /\ due = {}
  /\ attempts = [e \in Events |-> 0]
  /\ sent = [e \in Events |-> 0]
  /\ worker = [w \in Workers |-> NoRelay]
  /\ advisory = NoWorker
  /\ crashes = 0 /\ stops = 0

\* The steps the main task takes by itself, and those of the listener.
Relaying(w) == \/ Claim(w) \/ CommitBatch(w) \/ Wake(w) \/ Poll(w) \/ Exit(w)
               \/ \E e \in Events : Publish(w, e) \/ Fail(w, e)
Listening(w) == Listen(w) \/ Unlisten(w) \/ Hear(w)

Next ==
  \/ \E e \in Events : Record(e) \/ Mature(e)
  \/ \E w \in Workers : Start(w) \/ Relaying(w) \/ Listening(w) \/ Stop(w) \/ Crash(w)
  \/ LoseAdvisoryLock

\* A running relay goes on; a wait ends by the poll interval at the latest,
\* whatever the listener does; backoffs run out; and somebody starts a relay
\* again when none holds the lock.
Fairness ==
  /\ \A w \in Workers : WF_vars(Relaying(w)) /\ WF_vars(Start(w))
  /\ \A e \in Events : WF_vars(Mature(e))

Spec     == Init /\ [][Next]_vars
FairSpec == Spec /\ Fairness

-----------------------------------------------------------------------------
(* Properties.                                                             *)

\* Types: only recorded events are due, published or dead, and no event is
\* tried more often than the limit allows.
TypeOK ==
  /\ recorded \subseteq Events /\ due \subseteq recorded
  /\ published \subseteq recorded /\ dead \subseteq recorded
  /\ attempts \in [Events -> 0 .. MaxAttempts]
  /\ sent \in [Events -> Nat]
  /\ worker \in [Workers -> Relay]
  /\ advisory \in Workers \cup {NoWorker}
  /\ crashes \in Nat /\ stops \in Nat /\ crashes + stops <= MaxEnds

\* An event is handed over twice only if a relay died in between: however many
\* relays run because the advisory lock was lost, no two of them publish the
\* same event, and a retry follows a failure only.
DuplicatesNeedACrash == \A e \in Events : sent[e] <= crashes + 1

\* An event is given up after exactly MaxAttempts recorded failures, counted
\* across relays, crashes and retries, and not before.
BuriedAfterEveryAttempt ==
  \A e \in recorded : e \in dead <=> attempts[e] = MaxAttempts

\* A worker sleeps on an event: its listener has heard of it, nobody has
\* claimed it since, and the worker waits for the next notification or the poll.
SleepsOnEvent(w) ==
  worker[w].pc = "wait" /\ ~worker[w].woken /\ worker[w].heard # {}

\* No wake-up is lost between drain, wait and clear(), whatever arrives when: a
\* worker comes to sleep on an event in one way only, at the commit of a full
\* batch of which it could publish nothing.
NotificationIsNotSleptOn ==
  [][\A w \in Workers : SleepsOnEvent(w)' =>
       \/ SleepsOnEvent(w)
       \/ worker[w].pc = "publish" /\ Cardinality(worker[w].failed) = BatchSize]_vars

\* The two together: how often an event is handed over, and how often it is
\* tried before it is given up, are accounted for.
AttemptsAreAccountedFor == DuplicatesNeedACrash /\ BuriedAfterEveryAttempt

\* Seen from outside, the relay delivers at least once and settles once.
Sent == {e \in Events : sent[e] > 0}
Promise == INSTANCE EventRelay WITH sent <- Sent
ImplementsEventRelay == Promise!Spec

\* No event is left behind: it is published or reaches the dead-letter queue.
EveryEventIsSettled ==
  \A e \in Events : e \in recorded ~> e \in published \cup dead

=============================================================================
