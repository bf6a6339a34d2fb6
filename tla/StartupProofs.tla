--------------------------- MODULE StartupProofs ----------------------------
(***************************************************************************)
(* Proofs about Startup, in three strands.  While a migrator holds the     *)
(* lock nobody else writes schema_migrations, so its list of what is       *)
(* pending stays exact.  Whatever is seen to in a month has a partition    *)
(* from then on, and a month with a partition takes no rows into the       *)
(* default one.  One transaction at a time is making the administrator,    *)
(* and it alone goes on to the password, if it was configured with one.    *)
(***************************************************************************)
EXTENDS Startup, TLAPS

Held == {"history", "apply"}
Past == {"cut", "seed", "create", "commit", "password", "up", "reset"}

\* What a process knows, given the history, the partitions and the calendar.
Sound(q, app, parts) ==
  /\ q.pc = "apply" =>
       /\ q.todo = {v \in Versions : app[v] = NoText /\ q.files[v] # NoText}
       /\ \A v \in Versions : app[v] \in {NoText, q.files[v]}
  /\ q.answer = "upgraded" => \A v \in Versions : q.files[v] # NoText => app[v] = q.files[v]
  /\ q.answer = "mismatch" => \E v \in Versions : app[v] \notin {NoText, q.files[v]}
  /\ q.answer # "conflict"
  /\ q.pc \in Past => app[Needed] # NoText
  /\ q.pc = "cut" => /\ q.at \in 0 .. LastMonth
                     /\ Window(q.at) \subseteq parts \cup q.todo
                     /\ q.todo \subseteq Window(q.at)

Alone == \A p, s \in Procs : proc[p].pc \in Held /\ proc[s].pc \in Held => p = s

Calendar ==
  /\ \A e \in cuts : e \in 0 .. LastMonth /\ Window(e) \subseteq partitions
  /\ applied[Needed] = NoText => overflow = {}

Account ==
  /\ \A p \in Procs : proc[p].pc = "commit" => ~admin /\ ~taken
  /\ \A p, s \in Procs : proc[p].pc = "commit" /\ proc[s].pc = "commit" => p = s
  /\ \A p \in Procs : proc[p].pc = "password" => admin /\ ~bare /\ ~dropped
  /\ \A p, s \in Procs : proc[p].pc = "password" /\ proc[s].pc = "password" => p = s
  /\ ~admin => password = "none" /\ ~bare /\ ~dropped
  /\ InitialPasswordOnce

IInv ==
  /\ TypeOK /\ Alone /\ Calendar /\ Account
  /\ \A p \in Procs : Sound(proc[p], applied, partitions)

-----------------------------------------------------------------------------

\* Months are numbers, and a window that starts within the calendar is in it.
LEMMA Windows ==
  /\ LastMonth \in Nat /\ Ahead \in Nat /\ Months \subseteq Nat
  /\ \A m \in 0 .. LastMonth : m \in Months /\ m \in Window(m) /\ Window(m) \subseteq Months
BY StartupAssumption DEF StartupAssumption, Months, Window

LEMMA DownIs == Down \in Process /\ Down.pc = "down" /\ Down.answer = "none"
BY Windows DEF Down, Process, Checkout, NoRelease

LEMMA InitOK == Init => IInv
<1> SUFFICES ASSUME Init PROVE IInv
  OBVIOUS
<1>1. TypeOK
  <2>1. applied \in Checkout
    BY DEF Init, Checkout, NoRelease
  <2>2. 0 \in 0 .. LastMonth
    BY Windows
  <2> QED BY <2>1, <2>2, DownIs DEF Init, TypeOK
<1>2. Alone /\ Calendar
  BY DownIs DEF Init, Alone, Calendar, Held
<1>3. Account
  BY DownIs DEF Init, Account, InitialPasswordOnce
<1>4. ASSUME NEW p \in Procs PROVE Sound(proc[p], applied, partitions)
  BY DownIs DEF Init, Sound, Past
<1> QED BY <1>1, <1>2, <1>3, <1>4 DEF IInv

\* The records of the processes after a step of one of them.
LEMMA Others ==
  ASSUME IInv, NEW p \in Procs, NEW q \in Process, proc' = [proc EXCEPT ![p] = q]
  PROVE  /\ proc' \in [Procs -> Process]
         /\ \A s \in Procs : proc'[s] = IF s = p THEN q ELSE proc[s]
BY DEF IInv, TypeOK

\* A step of one process that changes no table and stays clear of the account.
LEMMA ProcessStep ==
  ASSUME IInv, NEW p \in Procs, NEW q \in Process, proc' = [proc EXCEPT ![p] = q],
         UNCHANGED <<applied, calendar, account>>,
         Sound(q, applied, partitions),
         q.pc \in Held => \A s \in Procs \ {p} : proc[s].pc \notin Held,
         q.pc \notin {"commit", "password"}, proc[p].pc # "password"
  PROVE  IInv'
<1>1. /\ proc' \in [Procs -> Process]
      /\ \A s \in Procs : proc'[s] = IF s = p THEN q ELSE proc[s]
  BY Others
<1>2. TypeOK'
  BY <1>1 DEF IInv, TypeOK, calendar, account
<1>3. Alone'
  BY <1>1 DEF IInv, Alone
<1>4. Calendar'
  BY DEF IInv, Calendar, calendar
<1>5. InitialPasswordOnce'
  BY <1>1 DEF IInv, Account, InitialPasswordOnce, account
<1>6. Account'
  BY <1>1, <1>5 DEF IInv, Account, account
<1>7. \A s \in Procs : Sound(proc'[s], applied', partitions')
  BY <1>1 DEF IInv, calendar
<1> QED BY <1>2, <1>3, <1>4, <1>6, <1>7 DEF IInv

\* Such a step that only moves on.
LEMMA GotoStep ==
  ASSUME IInv, NEW p \in Procs, NEW label, Goto(p, label),
         UNCHANGED <<applied, calendar, account>>,
         label \in (Past \ {"cut", "commit", "password"}) \cup {"history"},
         label \in Past => applied[Needed] # NoText,
         label = "history" => \A s \in Procs : proc[s].pc \notin Held,
         proc[p].pc # "password"
  PROVE  IInv'
<1> DEFINE q == [proc[p] EXCEPT !.pc = label]
<1>0. proc[p] \in Process /\ Sound(proc[p], applied, partitions)
  BY DEF IInv, TypeOK
<1>1. proc' = [proc EXCEPT ![p] = q]
  BY DEF Goto
<1>2. q \in Process /\ q.pc = label /\ q.files = proc[p].files /\ q.answer = proc[p].answer
  BY <1>0 DEF Process, Past
<1> HIDE DEF q
<1>3. Sound(q, applied, partitions)
  BY <1>0, <1>2 DEF Sound, Past
<1> QED BY <1>1, <1>2, <1>3, ProcessStep DEF Past, Held

\* A process that ends.
LEMMA EndStep ==
  ASSUME IInv, NEW p \in Procs, NEW q \in Process, proc' = [proc EXCEPT ![p] = q],
         UNCHANGED <<applied, calendar, account>>,
         q.pc \in {"down", "done"}, q.answer # "conflict", proc[p].pc # "password",
         q.answer = "upgraded" =>
           \A v \in Versions : q.files[v] # NoText => applied[v] = q.files[v],
         q.answer = "mismatch" => \E v \in Versions : applied[v] \notin {NoText, q.files[v]}
  PROVE  IInv'
<1>1. Sound(q, applied, partitions)
  BY DEF Sound, Past
<1> QED BY <1>1, ProcessStep DEF Held

\* The record of a process that has answered.
LEMMA FinishIs ==
  ASSUME IInv, NEW p \in Procs,
         NEW ans \in {"upgraded", "mismatch", "conflict", "no_schema", "lost_race", "blocked",
                      "no_admin", "reset"},
         Finish(p, ans)
  PROVE  \E q \in Process : /\ proc' = [proc EXCEPT ![p] = q]
                            /\ q.pc = "done" /\ q.answer = ans /\ q.files = proc[p].files
<1> DEFINE q == [Down EXCEPT !.pc = "done", !.answer = ans, !.files = proc[p].files]
<1>1. proc[p] \in Process
  BY DEF IInv, TypeOK
<1>2. q \in Process /\ q.pc = "done" /\ q.answer = ans /\ q.files = proc[p].files
  BY <1>1, DownIs DEF Process
<1> QED BY <1>2 DEF Finish

-----------------------------------------------------------------------------
(* The migrator.                                                           *)

LEMMA StartMigrateStep ==
  ASSUME IInv, NEW p \in Procs, NEW files \in Releases, StartMigrate(p, files)
  PROVE  IInv'
<1> DEFINE q == [Down EXCEPT !.pc = "lock", !.files = files]
<1>1. files \in Checkout
  BY StartupAssumption DEF StartupAssumption
<1>2. q \in Process /\ q.pc = "lock" /\ q.answer = "none"
  BY <1>1, DownIs DEF Process
<1>3. proc' = [proc EXCEPT ![p] = q] /\ UNCHANGED <<applied, calendar, account>>
      /\ proc[p].pc = "down"
  BY DEF StartMigrate
<1> HIDE DEF q
<1>4. Sound(q, applied, partitions)
  BY <1>2 DEF Sound, Past
<1> QED BY <1>2, <1>3, <1>4, ProcessStep DEF Held

LEMMA TakeLockStep ==
  ASSUME IInv, NEW p \in Procs, TakeLock(p)
  PROVE  IInv'
<1>1. /\ Goto(p, "history") /\ UNCHANGED <<applied, calendar, account>>
      /\ \A s \in Procs : proc[s].pc \notin Held
      /\ proc[p].pc # "password"
  BY DEF TakeLock, Held
<1>2. "history" \in (Past \ {"cut", "commit", "password"}) \cup {"history"} /\ "history" \notin Past
  BY DEF Past
<1> QED BY <1>1, <1>2, GotoStep

LEMMA ReadHistoryStep ==
  ASSUME IInv, NEW p \in Procs, ReadHistory(p)
  PROVE  IInv'
<1>0. /\ proc[p] \in Process /\ proc[p].pc = "history"
      /\ UNCHANGED <<applied, calendar, account>>
      /\ Sound(proc[p], applied, partitions)
  BY DEF IInv, TypeOK, ReadHistory
<1>1. CASE Edited(proc[p].files)
  <2>1. Finish(p, "mismatch")
    BY <1>1 DEF ReadHistory
  <2> QED BY <1>0, <1>1, <2>1, FinishIs, EndStep DEF Edited
<1>2. CASE ~Edited(proc[p].files)
  <2> DEFINE q == [proc[p] EXCEPT !.pc = "apply", !.todo = Pending(proc[p].files)]
  <2>1. proc' = [proc EXCEPT ![p] = q]
    BY <1>2 DEF ReadHistory
  <2>2. Pending(proc[p].files) \in SUBSET (Months \cup Versions)
    BY DEF Pending
  <2>3. /\ q \in Process /\ q.pc = "apply" /\ q.todo = Pending(proc[p].files)
        /\ q.files = proc[p].files /\ q.answer = proc[p].answer
    BY <1>0, <2>2 DEF Process
  <2> HIDE DEF q
  <2>4. Sound(q, applied, partitions)
    BY <1>0, <1>2, <2>3 DEF Sound, Past, Pending, Edited
  <2>5. \A s \in Procs \ {p} : proc[s].pc \notin Held
    BY <1>0 DEF IInv, Alone, Held
  <2> QED BY <1>0, <2>1, <2>3, <2>4, <2>5, ProcessStep
<1> QED BY <1>1, <1>2

\* A row of schema_migrations, written by whoever holds the lock.
LEMMA ApplyStep ==
  ASSUME IInv, NEW p \in Procs, Apply(p)
  PROVE  IInv'
<1>1. PICK v \in proc[p].todo :
        /\ proc[p].pc = "apply"
        /\ IF applied[v] # NoText
           THEN Finish(p, "conflict") /\ UNCHANGED <<applied, calendar>>
           ELSE /\ applied' = [applied EXCEPT ![v] = proc[p].files[v]]
                /\ proc' = [proc EXCEPT ![p].todo = @ \ {v}]
                /\ partitions' = IF v = Needed THEN partitions \cup Window(month) ELSE partitions
                /\ cuts' = IF v = Needed THEN cuts \cup {month} ELSE cuts
                /\ UNCHANGED <<month, overflow>>
        /\ UNCHANGED account
  BY DEF Apply
<1> DEFINE q == [proc[p] EXCEPT !.todo = proc[p].todo \ {v}]
<1>2. proc[p] \in Process /\ Sound(proc[p], applied, partitions) /\ month \in 0 .. LastMonth
  BY DEF IInv, TypeOK
<1>3. /\ v \in Versions /\ applied[v] = NoText /\ proc[p].files[v] # NoText
      /\ proc[p].files \in Checkout
      /\ proc[p].todo = {w \in Versions : applied[w] = NoText /\ proc[p].files[w] # NoText}
      /\ \A w \in Versions : applied[w] \in {NoText, proc[p].files[w]}
  BY <1>1, <1>2 DEF Sound, Process
<1>4. /\ applied' = [applied EXCEPT ![v] = proc[p].files[v]]
      /\ proc' = [proc EXCEPT ![p] = q]
      /\ partitions' = IF v = Needed THEN partitions \cup Window(month) ELSE partitions
      /\ cuts' = IF v = Needed THEN cuts \cup {month} ELSE cuts
      /\ UNCHANGED <<month, overflow, account>>
  BY <1>1, <1>3
<1>5. /\ q \in Process /\ q.pc = "apply" /\ q.files = proc[p].files
      /\ q.todo = proc[p].todo \ {v} /\ q.answer = proc[p].answer
  BY <1>1, <1>2 DEF Process
<1> HIDE DEF q
<1>6. /\ proc' \in [Procs -> Process]
      /\ \A s \in Procs : proc'[s] = IF s = p THEN q ELSE proc[s]
  BY <1>4, <1>5, Others
<1>7. /\ applied' \in Checkout
      /\ \A w \in Versions : applied'[w] = IF w = v THEN proc[p].files[v] ELSE applied[w]
  BY <1>3, <1>4 DEF IInv, TypeOK, Checkout
<1>8. partitions \subseteq partitions' /\ partitions' \cap overflow' = {}
      /\ partitions' \subseteq Months /\ cuts' \subseteq Months
  BY <1>2, <1>3, <1>4, Windows DEF IInv, TypeOK, Calendar
<1>9. TypeOK'
  BY <1>4, <1>6, <1>7, <1>8 DEF IInv, TypeOK, account
<1>10. Alone'
  BY <1>1, <1>5, <1>6 DEF IInv, Alone, Held
<1>11. Calendar'
  BY <1>2, <1>3, <1>4, <1>7 DEF IInv, Calendar
<1>12. Account'
  <2>1. \A s \in Procs : proc'[s].pc = proc[s].pc
    BY <1>1, <1>5, <1>6
  <2>2. UNCHANGED <<admin, taken, password, seeded, bare, dropped>>
    BY <1>4 DEF account
  <2>3. InitialPasswordOnce'
    BY <2>1, <2>2 DEF IInv, Account, InitialPasswordOnce
  <2> QED BY <2>1, <2>2, <2>3 DEF IInv, Account
<1>13. ASSUME NEW s \in Procs PROVE Sound(proc'[s], applied', partitions')
  <2>1. CASE s = p
    <3>1. q.todo = {w \in Versions : applied'[w] = NoText /\ q.files[w] # NoText}
      BY <1>3, <1>5, <1>7
    <3>2. \A w \in Versions : applied'[w] \in {NoText, q.files[w]}
      BY <1>3, <1>5, <1>7
    <3>3. /\ q.answer = "upgraded" =>
               \A w \in Versions : q.files[w] # NoText => applied'[w] = q.files[w]
          /\ q.answer = "mismatch" => \E w \in Versions : applied'[w] \notin {NoText, q.files[w]}
          /\ q.answer # "conflict"
      BY <1>2, <1>3, <1>5, <1>7 DEF Sound
    <3> QED BY <1>5, <1>6, <2>1, <3>1, <3>2, <3>3 DEF Sound, Past
  <2>2. CASE s # p
    <3>1. /\ proc'[s] = proc[s] /\ Sound(proc[s], applied, partitions)
          /\ proc[s].pc # "apply"
      BY <1>1, <1>6, <2>2 DEF IInv, Alone, Held
    <3>2. \A w \in Versions : applied[w] # NoText => applied'[w] = applied[w]
      BY <1>3, <1>7
    <3>3. Needed \in Versions
      BY StartupAssumption DEF StartupAssumption
    <3> QED BY <1>8, <3>1, <3>2, <3>3 DEF Sound
  <2> QED BY <2>1, <2>2
<1> QED BY <1>9, <1>10, <1>11, <1>12, <1>13 DEF IInv

LEMMA FinishMigrateStep ==
  ASSUME IInv, NEW p \in Procs, FinishMigrate(p)
  PROVE  IInv'
<1>1. /\ proc[p].pc = "apply" /\ proc[p].todo = {} /\ Finish(p, "upgraded")
      /\ UNCHANGED <<applied, calendar, account>> /\ Sound(proc[p], applied, partitions)
  BY DEF IInv, FinishMigrate
<1>2. \A v \in Versions : proc[p].files[v] # NoText => applied[v] = proc[p].files[v]
  BY <1>1 DEF Sound
<1> QED BY <1>1, <1>2, FinishIs, EndStep

-----------------------------------------------------------------------------
(* build_container.                                                        *)

LEMMA StartStep ==
  ASSUME IInv, NEW p \in Procs, NEW script \in BOOLEAN, NEW named \in BOOLEAN,
         NEW configured \in BOOLEAN, Start(p, script, named, configured)
  PROVE  IInv'
<1> DEFINE q == [Down EXCEPT !.pc = "look", !.script = script, !.named = named,
                          !.configured = configured]
<1>1. q \in Process /\ q.pc = "look" /\ q.answer = "none"
  BY DownIs DEF Down, Process
<1>2. proc' = [proc EXCEPT ![p] = q] /\ UNCHANGED <<applied, calendar, account>>
      /\ proc[p].pc = "down"
  BY DEF Start
<1> HIDE DEF q
<1>3. Sound(q, applied, partitions)
  BY <1>1 DEF Sound, Past
<1> QED BY <1>1, <1>2, <1>3, ProcessStep DEF Held

LEMMA LookStep ==
  ASSUME IInv, NEW p \in Procs, Look(p)
  PROVE  IInv'
<1>0. /\ proc[p] \in Process /\ Sound(proc[p], applied, partitions) /\ proc[p].pc = "look"
      /\ month \in 0 .. LastMonth /\ UNCHANGED <<applied, calendar, account>>
  BY DEF IInv, TypeOK, Look
<1>1. CASE applied[Needed] = NoText
  <2>1. Finish(p, "no_schema") BY <1>1 DEF Look
  <2> QED BY <1>0, <2>1, FinishIs, EndStep
<1>2. CASE applied[Needed] # NoText
  <2> DEFINE todo == Window(month) \ partitions
             q    == [proc[p] EXCEPT !.pc = "cut", !.at = month, !.todo = todo]
  <2>1. proc' = [proc EXCEPT ![p] = q]
    BY <1>2 DEF Look
  <2>2. month \in Months /\ todo \in SUBSET (Months \cup Versions)
    BY <1>0, Windows
  <2> HIDE DEF todo
  <2>3. /\ q \in Process /\ q.pc = "cut" /\ q.at = month /\ q.todo = todo
        /\ q.files = proc[p].files /\ q.answer = proc[p].answer
    BY <1>0, <2>2 DEF Process
  <2> HIDE DEF q
  <2>4. Window(month) \subseteq partitions \cup todo /\ todo \subseteq Window(month)
    BY DEF todo
  <2>5. Sound(q, applied, partitions)
    BY <1>0, <1>2, <2>3, <2>4 DEF Sound
  <2> QED BY <1>0, <2>1, <2>3, <2>5, ProcessStep DEF Held
<1> QED BY <1>1, <1>2

\* The partitions a start creates, unless it fails.
LEMMA CutStep ==
  ASSUME IInv, NEW p \in Procs, Cut(p)
  PROVE  IInv'
<1>0. /\ proc[p] \in Process /\ Sound(proc[p], applied, partitions) /\ proc[p].pc = "cut"
      /\ UNCHANGED <<applied, month, overflow, account>>
  BY DEF IInv, TypeOK, Cut
<1>1. ASSUME Finish(p, "lost_race") \/ Finish(p, "blocked"), UNCHANGED <<partitions, cuts>>
      PROVE  IInv'
  <2>1. UNCHANGED calendar
    BY <1>0, <1>1 DEF calendar
  <2> QED BY <1>0, <1>1, <2>1, FinishIs, EndStep
<1>2. CASE /\ proc[p].todo \cap (partitions \cup overflow) = {}
           /\ partitions' = partitions \cup proc[p].todo
           /\ cuts' = cuts \cup {proc[p].at}
           /\ proc' = [proc EXCEPT ![p].pc = "seed", ![p].at = 0, ![p].todo = {}]
  <2> DEFINE q == [proc[p] EXCEPT !.pc = "seed", !.at = 0, !.todo = {}]
  <2>1. proc' = [proc EXCEPT ![p] = q]
    BY <1>2
  <2>2. 0 \in Months
    BY Windows DEF Months
  <2>3. /\ q \in Process /\ q.pc = "seed" /\ q.files = proc[p].files
        /\ q.answer = proc[p].answer
    BY <1>0, <2>2 DEF Process
  <2> HIDE DEF q
  <2>4. /\ proc' \in [Procs -> Process]
        /\ \A s \in Procs : proc'[s] = IF s = p THEN q ELSE proc[s]
    BY <2>1, <2>3, Others
  <2>5. /\ proc[p].at \in 0 .. LastMonth /\ applied[Needed] # NoText
        /\ Window(proc[p].at) \subseteq partitions' /\ proc[p].todo \subseteq Window(proc[p].at)
    BY <1>0, <1>2 DEF Sound, Past
  <2>6. TypeOK'
    BY <1>0, <1>2, <2>4, <2>5, Windows DEF IInv, TypeOK, account
  <2>7. Alone'
    BY <2>3, <2>4 DEF IInv, Alone, Held
  <2>8. Calendar'
    BY <1>0, <1>2, <2>5 DEF IInv, Calendar
  <2>9. Account'
    <3>1. InitialPasswordOnce'
      BY <1>0, <2>3, <2>4 DEF IInv, Account, InitialPasswordOnce, account
    <3> QED BY <1>0, <2>3, <2>4, <3>1 DEF IInv, Account, account
  <2>10. ASSUME NEW s \in Procs PROVE Sound(proc'[s], applied', partitions')
    <3>1. CASE s = p BY <1>0, <2>3, <2>4, <2>5, <3>1 DEF Sound, Past
    <3>2. CASE s # p
      <4>1. proc'[s] = proc[s] /\ Sound(proc[s], applied, partitions)
        BY <2>4, <3>2 DEF IInv
      <4>2. applied' = applied /\ partitions \subseteq partitions'
        BY <1>0, <1>2
      <4> QED BY <4>1, <4>2 DEF Sound
    <3> QED BY <3>1, <3>2
  <2> QED BY <2>6, <2>7, <2>8, <2>9, <2>10 DEF IInv
<1> QED BY <1>1, <1>2 DEF Cut

\* Where a process in the middle of a start is.
LEMMA Underway ==
  ASSUME IInv, NEW p \in Procs, proc[p].pc \in Past
  PROVE  /\ applied[Needed] # NoText /\ proc[p] \in Process
         /\ Assembled(p) \in {"up", "reset"} /\ Sound(proc[p], applied, partitions)
BY DEF IInv, TypeOK, Sound, Assembled

LEMMA LookForAdminStep ==
  ASSUME IInv, NEW p \in Procs, LookForAdmin(p)
  PROVE  IInv'
<1>1. proc[p].pc = "seed" /\ UNCHANGED <<applied, calendar, account>>
  BY DEF LookForAdmin
<1>2. applied[Needed] # NoText /\ Assembled(p) \in {"up", "reset"}
  BY <1>1, Underway DEF Past
<1>3. CASE ~proc[p].named \/ admin \/ taken
  <2>1. Goto(p, Assembled(p)) BY <1>3 DEF LookForAdmin
  <2> QED BY <1>1, <1>2, <2>1, GotoStep DEF Past
<1>4. CASE ~(~proc[p].named \/ admin \/ taken)
  <2>1. Goto(p, "create") BY <1>4 DEF LookForAdmin
  <2> QED BY <1>1, <1>2, <2>1, GotoStep DEF Past
<1> QED BY <1>3, <1>4

\* A process that moves on inside the making of the account: what is left to
\* show is the account.
LEMMA AccountStep ==
  ASSUME IInv, NEW p \in Procs, NEW label, Goto(p, label),
         UNCHANGED <<applied, calendar>>, proc[p].pc \in Past,
         label \in Past \ {"cut"}, admin' \in BOOLEAN, bare' \in BOOLEAN,
         taken' = taken, dropped' = dropped,
         password' \in {"none", "initial", "chosen"}, seeded' \in Nat, ~(admin' /\ taken'),
         (\A s \in Procs : proc'[s].pc = IF s = p THEN label ELSE proc[s].pc) => Account'
  PROVE  IInv'
<1> DEFINE q == [proc[p] EXCEPT !.pc = label]
<1>0. proc[p] \in Process /\ Sound(proc[p], applied, partitions) /\ applied[Needed] # NoText
  BY Underway
<1>1. proc' = [proc EXCEPT ![p] = q]
  BY DEF Goto
<1>2. q \in Process /\ q.pc = label /\ q.files = proc[p].files /\ q.answer = proc[p].answer
  BY <1>0 DEF Process, Past
<1> HIDE DEF q
<1>3. /\ proc' \in [Procs -> Process]
      /\ \A s \in Procs : proc'[s] = IF s = p THEN q ELSE proc[s]
  BY <1>1, <1>2, Others
<1>4. Account'
  BY <1>2, <1>3
<1>5. TypeOK'
  BY <1>3 DEF IInv, TypeOK, calendar
<1>6. Alone'
  BY <1>2, <1>3 DEF IInv, Alone, Held, Past
<1>7. Calendar'
  BY DEF IInv, Calendar, calendar
<1>8. ASSUME NEW s \in Procs PROVE Sound(proc'[s], applied', partitions')
  <2>1. CASE s = p BY <1>0, <1>2, <1>3, <2>1 DEF Sound, Past, calendar
  <2>2. CASE s # p BY <1>3, <2>2 DEF IInv, calendar
  <2> QED BY <2>1, <2>2
<1> QED BY <1>4, <1>5, <1>6, <1>7, <1>8 DEF IInv

LEMMA CreateAdminStep ==
  ASSUME IInv, NEW p \in Procs, CreateAdmin(p)
  PROVE  IInv'
<1>0. /\ proc[p].pc = "create" /\ UNCHANGED <<applied, calendar, account>>
      /\ \A s \in Procs : proc[s].pc # "commit"
  BY DEF CreateAdmin
<1>1. CASE admin \/ taken
  <2>1. Finish(p, "lost_race") BY <1>1 DEF CreateAdmin
  <2> QED BY <1>0, <2>1, FinishIs, EndStep
<1>2. CASE ~(admin \/ taken)
  <2>1. Goto(p, "commit") BY <1>2 DEF CreateAdmin
  <2>2. ASSUME \A s \in Procs : proc'[s].pc = IF s = p THEN "commit" ELSE proc[s].pc
        PROVE  Account'
    BY <1>0, <1>2, <2>2 DEF IInv, Account, InitialPasswordOnce, account
  <2>3. /\ admin' \in BOOLEAN /\ bare' \in BOOLEAN /\ taken' = taken /\ dropped' = dropped
        /\ seeded' \in Nat /\ password' \in {"none", "initial", "chosen"} /\ ~(admin' /\ taken')
    BY <1>0 DEF IInv, TypeOK, account
  <2> QED BY <1>0, <2>1, <2>2, <2>3, AccountStep DEF Past
<1> QED BY <1>1, <1>2

LEMMA CommitAdminStep ==
  ASSUME IInv, NEW p \in Procs, CommitAdmin(p)
  PROVE  IInv'
<1> DEFINE label == IF proc[p].configured THEN "password" ELSE Assembled(p)
<1>0. /\ proc[p].pc = "commit" /\ admin' = TRUE /\ bare' = ~proc[p].configured /\ Goto(p, label)
      /\ UNCHANGED <<applied, calendar, taken, password, seeded, dropped>>
      /\ ~admin /\ ~taken
  BY DEF IInv, Account, CommitAdmin
<1>1. Assembled(p) \in {"up", "reset"} /\ proc[p].configured \in BOOLEAN
  BY <1>0, Underway DEF Past, Process
<1>2. label \in Past \ {"cut", "commit"} /\ (label = "password" <=> proc[p].configured)
  BY <1>1 DEF Past
<1> HIDE DEF label
<1>3. ASSUME \A s \in Procs : proc'[s].pc = IF s = p THEN label ELSE proc[s].pc
      PROVE  Account'
  <2>1. \A s \in Procs : proc[s].pc # "password"
    BY <1>0 DEF IInv, Account
  <2>2. \A s \in Procs : proc'[s].pc # "commit"
    BY <1>0, <1>2, <1>3 DEF IInv, Account
  <2>3. seeded = 0 /\ ~dropped
    BY <1>0 DEF IInv, Account, InitialPasswordOnce
  <2>4. (\E s \in Procs : proc'[s].pc = "password") <=> ~bare'
    BY <1>0, <1>1, <1>2, <1>3, <2>1
  <2>5. InitialPasswordOnce'
    BY <1>0, <2>3, <2>4 DEF InitialPasswordOnce
  <2>6. \A s \in Procs : proc'[s].pc = "password" => s = p
    BY <1>3, <2>1
  <2> QED BY <1>0, <2>2, <2>3, <2>4, <2>5, <2>6 DEF Account
<1>4. /\ admin' \in BOOLEAN /\ bare' \in BOOLEAN /\ taken' = taken /\ dropped' = dropped
      /\ seeded' \in Nat /\ password' \in {"none", "initial", "chosen"} /\ ~(admin' /\ taken')
  BY <1>0, <1>1 DEF IInv, TypeOK
<1> QED BY <1>0, <1>2, <1>3, <1>4, AccountStep DEF Past

LEMMA SeedPasswordStep ==
  ASSUME IInv, NEW p \in Procs, SeedPassword(p)
  PROVE  IInv'
<1>0. /\ proc[p].pc = "password" /\ password' = "initial" /\ seeded' = seeded + 1
      /\ Goto(p, Assembled(p)) /\ UNCHANGED <<applied, calendar, admin, taken, bare, dropped>>
      /\ admin /\ ~bare /\ ~dropped /\ seeded = 0
  BY DEF IInv, Account, InitialPasswordOnce, SeedPassword
<1>1. Assembled(p) \in {"up", "reset"}
  BY <1>0, Underway DEF Past
<1>2. ASSUME \A s \in Procs : proc'[s].pc = IF s = p THEN Assembled(p) ELSE proc[s].pc
      PROVE  Account'
  <2>1. \A s \in Procs : proc'[s].pc # "password"
    BY <1>0, <1>1, <1>2 DEF IInv, Account
  <2>2. \A s \in Procs : proc'[s].pc # "commit"
    BY <1>0, <1>1, <1>2 DEF IInv, Account
  <2> QED BY <1>0, <2>1, <2>2 DEF Account, InitialPasswordOnce
<1>3. /\ admin' \in BOOLEAN /\ bare' \in BOOLEAN /\ taken' = taken /\ dropped' = dropped
      /\ seeded' \in Nat /\ password' \in {"none", "initial", "chosen"} /\ ~(admin' /\ taken')
  BY <1>0 DEF IInv, TypeOK
<1>4. Assembled(p) \in Past \ {"cut"} /\ proc[p].pc \in Past
  BY <1>0, <1>1 DEF Past
<1> QED BY <1>0, <1>2, <1>3, <1>4, AccountStep

-----------------------------------------------------------------------------
(* Steps that change one of the tables.                                    *)

\* The password is another one, whatever else happens.
LEMMA TablesStep ==
  ASSUME IInv, UNCHANGED <<applied, month, partitions, cuts, proc>>,
         overflow' \subseteq Months, overflow' \cap partitions = {},
         applied[Needed] = NoText => overflow' = {},
         UNCHANGED <<admin, seeded, bare, dropped>>, taken' \in BOOLEAN,
         password' \in {"none", "initial", "chosen"},
         password' = password \/ (admin /\ password' # "none"),
         taken' => ~admin,
         taken' # taken => \A s \in Procs : proc[s].pc # "commit"
  PROVE  IInv'
<1>1. TypeOK'
  BY DEF IInv, TypeOK
<1>2. Alone' /\ Calendar'
  BY DEF IInv, Alone, Calendar
<1>3. InitialPasswordOnce'
  BY DEF IInv, Account, InitialPasswordOnce
<1>4. Account'
  BY <1>3 DEF IInv, Account
<1>5. \A s \in Procs : Sound(proc'[s], applied', partitions')
  BY DEF IInv
<1> QED BY <1>1, <1>2, <1>4, <1>5 DEF IInv

LEMMA ServingIs == IInv /\ Serving => applied[Needed] # NoText
BY DEF IInv, Sound, Serving, Past

LEMMA RecordEventStep == IInv /\ RecordEvent => IInv'
<1> SUFFICES ASSUME IInv, RecordEvent PROVE IInv'
  OBVIOUS
<1>1. month \in Months
  BY Windows DEF IInv, TypeOK
<1>2. /\ overflow' = overflow \cup {month} /\ month \notin partitions
      /\ UNCHANGED <<applied, month, partitions, cuts, proc, admin, taken, password, seeded,
                     bare, dropped>>
      /\ applied[Needed] # NoText
  BY ServingIs DEF RecordEvent, account
<1>3. /\ overflow' \subseteq Months /\ overflow' \cap partitions = {} /\ taken' \in BOOLEAN
      /\ password' \in {"none", "initial", "chosen"} /\ (taken' => ~admin)
  BY <1>1, <1>2 DEF IInv, TypeOK
<1> QED BY <1>2, <1>3, TablesStep

LEMMA ChangePasswordStep == IInv /\ ChangePassword => IInv'
<1> SUFFICES ASSUME IInv, ChangePassword PROVE IInv'
  OBVIOUS
<1>1. /\ password' = "chosen" /\ admin
      /\ UNCHANGED <<applied, month, partitions, cuts, overflow, proc, admin, taken, seeded,
                     bare, dropped>>
  BY DEF ChangePassword, calendar, IInv, Account
<1>2. /\ overflow' \subseteq Months /\ overflow' \cap partitions = {} /\ taken' \in BOOLEAN
      /\ (taken' => ~admin) /\ (applied[Needed] = NoText => overflow' = {})
  BY <1>1 DEF IInv, TypeOK, Calendar
<1> QED BY <1>1, <1>2, TablesStep

LEMMA SignUpStep == IInv /\ SignUp => IInv'
<1> SUFFICES ASSUME IInv, SignUp PROVE IInv'
  OBVIOUS
<1>1. /\ taken' = TRUE /\ ~admin /\ \A s \in Procs : proc[s].pc # "commit"
      /\ UNCHANGED <<applied, month, partitions, cuts, overflow, proc, admin, password, seeded,
                     bare, dropped>>
  BY DEF SignUp, calendar
<1>2. /\ overflow' \subseteq Months /\ overflow' \cap partitions = {}
      /\ password' \in {"none", "initial", "chosen"}
      /\ (applied[Needed] = NoText => overflow' = {})
  BY <1>1 DEF IInv, TypeOK, Calendar
<1> QED BY <1>1, <1>2, TablesStep

LEMMA TickStep == IInv /\ Tick => IInv'
<1> SUFFICES ASSUME IInv, Tick PROVE IInv'
  OBVIOUS
<1>1. month' \in 0 .. LastMonth
  BY Windows DEF IInv, TypeOK, Tick
<1>2. UNCHANGED <<applied, partitions, overflow, cuts, account, proc>>
  BY DEF Tick
<1>3. TypeOK'
  BY <1>1, <1>2 DEF IInv, TypeOK, account
<1>4. Alone' /\ Calendar'
  BY <1>2 DEF IInv, Alone, Calendar
<1>5. Account'
  BY <1>2 DEF IInv, Account, InitialPasswordOnce, account
<1>6. \A s \in Procs : Sound(proc'[s], applied', partitions')
  BY <1>2 DEF IInv
<1> QED BY <1>3, <1>4, <1>5, <1>6 DEF IInv

\* The script: its process ends, and perhaps the password is another.
LEMMA ResetPasswordStep ==
  ASSUME IInv, NEW p \in Procs, ResetPassword(p)
  PROVE  IInv'
<1>0. /\ proc[p].pc = "reset"
      /\ UNCHANGED <<applied, calendar, admin, taken, seeded, bare, dropped>>
      /\ password' = IF admin THEN "chosen" ELSE password
      /\ Finish(p, IF admin THEN "reset" ELSE "no_admin")
  BY DEF ResetPassword
<1>1. PICK q \in Process : /\ proc' = [proc EXCEPT ![p] = q]
                           /\ q.pc = "done" /\ q.answer \in {"reset", "no_admin"}
  <2>1. CASE admin
    <3>1. Finish(p, "reset") BY <1>0, <2>1
    <3> QED BY <3>1, FinishIs
  <2>2. CASE ~admin
    <3>1. Finish(p, "no_admin") BY <1>0, <2>2
    <3> QED BY <3>1, FinishIs
  <2> QED BY <2>1, <2>2
<1>2. /\ proc' \in [Procs -> Process]
      /\ \A s \in Procs : proc'[s] = IF s = p THEN q ELSE proc[s]
  BY <1>1, Others
<1>3. TypeOK'
  BY <1>0, <1>2 DEF IInv, TypeOK, calendar
<1>4. Alone' /\ Calendar'
  BY <1>0, <1>1, <1>2 DEF IInv, Alone, Calendar, Held, calendar
<1>5. InitialPasswordOnce'
  BY <1>0, <1>1, <1>2 DEF IInv, Account, InitialPasswordOnce
<1>6. Account'
  BY <1>0, <1>1, <1>2, <1>5 DEF IInv, Account
<1>7. ASSUME NEW s \in Procs PROVE Sound(proc'[s], applied', partitions')
  <2>1. CASE s = p BY <1>1, <1>2, <2>1 DEF Sound, Past
  <2>2. CASE s # p BY <1>0, <1>2, <2>2 DEF IInv, calendar
  <2> QED BY <2>1, <2>2
<1> QED BY <1>3, <1>4, <1>6, <1>7 DEF IInv

\* A process that dies; between the account and the password that is noted.
LEMMA DieStep ==
  ASSUME IInv, NEW p \in Procs, Die(p)
  PROVE  IInv'
<1>0. /\ proc' = [proc EXCEPT ![p] = Down]
      /\ dropped' = (dropped \/ proc[p].pc = "password")
      /\ UNCHANGED <<applied, calendar, admin, taken, password, seeded, bare>>
  BY DEF Die
<1>2. /\ proc' \in [Procs -> Process]
      /\ \A s \in Procs : proc'[s] = IF s = p THEN Down ELSE proc[s]
  BY <1>0, DownIs, Others
<1>3. TypeOK'
  <2>1. dropped' \in BOOLEAN BY <1>0
  <2> QED BY <1>0, <1>2, <2>1 DEF IInv, TypeOK, calendar
<1>4. Alone' /\ Calendar'
  BY <1>0, <1>2, DownIs DEF IInv, Alone, Calendar, Held, calendar
<1>5. \A s \in Procs : proc'[s].pc = IF s = p THEN "down" ELSE proc[s].pc
  BY <1>2, DownIs
<1>6. Account'
  <2>1. CASE proc[p].pc = "password"
    <3>1. dropped'
      BY <1>0, <2>1
    <3>2. admin' /\ ~bare'
      BY <1>0, <2>1 DEF IInv, Account
    <3>3. \A s \in Procs : proc'[s].pc # "password"
      BY <1>5, <2>1 DEF IInv, Account
    <3>4. seeded' = 0
      BY <1>0, <2>1 DEF IInv, Account, InitialPasswordOnce
    <3>5. InitialPasswordOnce'
      BY <3>1, <3>4 DEF InitialPasswordOnce
    <3> QED BY <1>0, <1>5, <3>1, <3>2, <3>3, <3>5 DEF IInv, Account
  <2>2. CASE proc[p].pc # "password"
    <3>1. dropped' = dropped
      BY <1>0, <2>2 DEF IInv, TypeOK
    <3>2. (\E s \in Procs : proc'[s].pc = "password") <=> \E s \in Procs : proc[s].pc = "password"
      BY <1>5, <2>2
    <3>3. InitialPasswordOnce'
      BY <1>0, <3>1, <3>2 DEF IInv, Account, InitialPasswordOnce
    <3> QED BY <1>0, <1>5, <3>1, <3>3 DEF IInv, Account
  <2> QED BY <2>1, <2>2
<1>7. ASSUME NEW s \in Procs PROVE Sound(proc'[s], applied', partitions')
  <2>1. CASE s = p BY <1>2, <2>1, DownIs DEF Sound, Past
  <2>2. CASE s # p BY <1>0, <1>2, <2>2 DEF IInv, calendar
  <2> QED BY <2>1, <2>2
<1> QED BY <1>3, <1>4, <1>6, <1>7 DEF IInv

LEMMA ExitStep ==
  ASSUME IInv, NEW p \in Procs, Exit(p)
  PROVE  IInv'
BY DownIs, EndStep DEF Exit

-----------------------------------------------------------------------------
(* The theorems.                                                           *)

LEMMA Step == IInv /\ [Next]_vars => IInv'
<1> SUFFICES ASSUME IInv, [Next]_vars PROVE IInv'
  OBVIOUS
<1>1. CASE UNCHANGED vars
  <2>1. /\ UNCHANGED <<applied, month, partitions, cuts, proc, overflow, admin, seeded,
                       bare, dropped, taken, password>>
    BY <1>1 DEF vars, account, calendar
  <2>2. /\ overflow' \subseteq Months /\ overflow' \cap partitions = {}
        /\ (applied[Needed] = NoText => overflow' = {}) /\ taken' \in BOOLEAN
        /\ password' \in {"none", "initial", "chosen"} /\ (taken' => ~admin)
    BY <2>1 DEF IInv, TypeOK, Calendar
  <2> QED BY <2>1, <2>2, TablesStep
<1>2. ASSUME NEW p \in Procs, Migrator(p) PROVE IInv'
  BY <1>2, StartMigrateStep, TakeLockStep, ReadHistoryStep, ApplyStep, FinishMigrateStep
     DEF Migrator
<1>3. ASSUME NEW p \in Procs, Assembly(p) PROVE IInv'
  BY <1>3, StartStep, LookStep, CutStep, LookForAdminStep, CreateAdminStep, CommitAdminStep,
     SeedPasswordStep, ResetPasswordStep DEF Assembly
<1>4. ASSUME NEW p \in Procs, Die(p) \/ Exit(p) PROVE IInv'
  BY <1>4, DieStep, ExitStep
<1>5. CASE RecordEvent \/ ChangePassword \/ SignUp \/ Tick
  BY <1>5, RecordEventStep, ChangePasswordStep, SignUpStep, TickStep
<1> QED BY <1>1, <1>2, <1>3, <1>4, <1>5 DEF Next

\* The invariant the rest follows from.
THEOREM Invariance == Spec => []IInv
<1> QED BY InitOK, Step, PTL DEF Spec

\* Types; no month has both a partition and rows outside it; nobody but the
\* administrator has the administrator's address.
THEOREM TypeCorrect == Spec => []TypeOK
<1>1. IInv => TypeOK
  BY DEF IInv
<1> QED BY <1>1, Invariance, PTL

\* Any number of migrators, of any checkouts, dying anywhere.
THEOREM Upgrades == Spec => []UpgradesAgree
<1>1. IInv => UpgradesAgree
  BY DEF IInv, Sound, UpgradesAgree, Edited
<1> QED BY <1>1, Invariance, PTL

\* For any look-ahead and any calendar, the default partition gets rows only
\* after so many months without a start.
THEOREM Lapse == Spec => []DefaultRowsNeedALapse
<1>1. ASSUME IInv PROVE DefaultRowsNeedALapse
  <2> SUFFICES ASSUME NEW m \in overflow, NEW e \in cuts, e <= m, m <= e + Ahead PROVE FALSE
    BY DEF DefaultRowsNeedALapse
  <2>1. m \in Nat /\ e \in Nat
    BY <1>1, Windows DEF IInv, TypeOK
  <2>2. m \in Window(e)
    BY <2>1, Windows DEF Window
  <2> QED BY <1>1, <2>2 DEF IInv, TypeOK, Calendar
<1> QED BY <1>1, Invariance, PTL

\* Any number of starts, whatever each is configured with: the password is set
\* once, by the one that made the administrator, or never.
THEOREM Seeding == Spec => []InitialPasswordOnce
<1>1. IInv => InitialPasswordOnce
  BY DEF IInv, Account
<1> QED BY <1>1, Invariance, PTL

=============================================================================
