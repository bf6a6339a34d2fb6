------------------------------ MODULE Startup ------------------------------
(***************************************************************************)
(* What runs before the first request: the migrator, which brings the      *)
(* schema up to the files of its checkout; the start of the API, which     *)
(* cuts the partitions of the engagement log for the coming months and     *)
(* makes the one administrator; and the script that resets that            *)
(* administrator's password, which starts the same way.                    *)
(*                                                                         *)
(* Processes start, die and are started again in any order, several at a   *)
(* time.  A month passes at Tick.                                          *)
(***************************************************************************)
EXTENDS Naturals

CONSTANTS Procs,
          Versions,     \* numbers of migrations
          Texts,        \* contents of migration files, by checksum
          NoText,
          Releases,     \* the files of the checkouts that are ever deployed
          Needed,       \* the migration that brings what a start uses
          Ahead,        \* engagement_partition_months_ahead, and the 3 of 004
          LastMonth     \* bound on the calendar

Checkout  == [Versions -> Texts \cup {NoText}]
NoRelease == [v \in Versions |-> NoText]
Months    == 0 .. LastMonth + Ahead

ASSUME StartupAssumption ==
  /\ Versions \subseteq Nat /\ Needed \in Versions
  /\ NoText \notin Texts /\ Releases \subseteq Checkout
  /\ Ahead \in Nat \ {0} /\ LastMonth \in Nat

VARIABLES
  applied,      \* rows of schema_migrations: version to checksum
  month,        \* the current month
  partitions,   \* months with a partition of engagement_events
  overflow,     \* months with rows in the default partition
  cuts,         \* history: months in which the partitions were seen to
  admin,        \* whether the administrator exists
  taken,        \* whether admin_email belongs to somebody else
  password,     \* of the administrator: none, the configured one, or another
  seeded,       \* history: how often the configured one was set by a start
  bare,         \* history: the start that made the administrator had none to set
  dropped,      \* history: a start died between the account and its password
  proc

account  == <<admin, taken, password, seeded, bare, dropped>>
calendar == <<month, partitions, overflow, cuts>>

vars == <<applied, calendar, account, proc>>

Process == [pc     : {"down", "lock", "history", "apply", "look", "cut", "seed", "create",
                      "commit", "password", "up", "reset", "done"},
            script : BOOLEAN,              \* reset_admin_password, not the API
            named  : BOOLEAN,              \* its settings give an admin_email
            configured : BOOLEAN,          \* and an admin_initial_password
            files  : Checkout,
            at     : Months,
            todo   : SUBSET (Months \cup Versions),
            answer : {"none", "upgraded", "mismatch", "conflict", "no_schema", "lost_race",
                      "blocked", "no_admin", "reset"}]

Down == [pc |-> "down", script |-> FALSE, named |-> FALSE, configured |-> FALSE,
         files |-> NoRelease, at |-> 0, todo |-> {}, answer |-> "none"]

Goto(p, label)  == proc' = [proc EXCEPT ![p].pc = label]
Finish(p, ans)  == proc' = [proc EXCEPT ![p] = [Down EXCEPT
                              !.pc = "done", !.answer = ans, !.files = proc[p].files]]

-----------------------------------------------------------------------------
(* The migrator.                                                           *)

StartMigrate(p, files) ==
  /\ proc[p].pc = "down" /\ files \in Releases
  /\ proc' = [proc EXCEPT ![p] = [Down EXCEPT !.pc = "lock", !.files = files]]
  /\ UNCHANGED <<applied, calendar, account>>

\* Mutant: the upgrade takes no lock.
TakeNoLock(p) ==
  /\ proc[p].pc = "lock"
  /\ Goto(p, "history")
  /\ UNCHANGED <<applied, calendar, account>>

\* pg_advisory_lock waits for the migrator that holds it; a connection that
\* is lost, or an upgrade that returns, lets go of it.
TakeLock(p) ==
  /\ proc[p].pc = "lock"
  /\ \A q \in Procs : proc[q].pc \notin {"history", "apply"}
  /\ Goto(p, "history")
  /\ UNCHANGED <<applied, calendar, account>>

Edited(files)  == \E v \in Versions : applied[v] \notin {NoText, files[v]}
Pending(files) == {v \in Versions : applied[v] = NoText /\ files[v] # NoText}

\* _applied and _verify_history, and the list of what is pending.
ReadHistory(p) ==
  LET files == proc[p].files IN
  /\ proc[p].pc = "history"
  /\ IF Edited(files) THEN Finish(p, "mismatch")
     ELSE proc' = [proc EXCEPT ![p].pc = "apply", ![p].todo = Pending(files)]
  /\ UNCHANGED <<applied, calendar, account>>

\* Mutant: the loop stops a month short.
WindowShort(m) == m .. m + Ahead - 1

Window(m) == m .. m + Ahead

\* One file and its row, in one transaction, the lowest version first.  004
\* ends by cutting the partitions of its own month and those ahead.
Apply(p) ==
  \E v \in proc[p].todo :
    /\ proc[p].pc = "apply" /\ \A w \in proc[p].todo : v <= w
    /\ IF applied[v] # NoText
       THEN Finish(p, "conflict") /\ UNCHANGED <<applied, calendar>>
       ELSE /\ applied' = [applied EXCEPT ![v] = proc[p].files[v]]
            /\ proc' = [proc EXCEPT ![p].todo = @ \ {v}]
            /\ partitions' = IF v = Needed THEN partitions \cup Window(month) ELSE partitions
            /\ cuts' = IF v = Needed THEN cuts \cup {month} ELSE cuts
            /\ UNCHANGED <<month, overflow>>
    /\ UNCHANGED account

FinishMigrate(p) ==
  /\ proc[p].pc = "apply" /\ proc[p].todo = {}
  /\ Finish(p, "upgraded")
  /\ UNCHANGED <<applied, calendar, account>>

-----------------------------------------------------------------------------
(* build_container.                                                        *)

\* Each process reads its own environment: what one was started with says
\* nothing of the next.
Start(p, script, named, configured) ==
  /\ proc[p].pc = "down"
  /\ proc' = [proc EXCEPT ![p] = [Down EXCEPT !.pc = "look", !.script = script,
                                             !.named = named, !.configured = configured]]
  /\ UNCHANGED <<applied, calendar, account>>

\* ensure_engagement_partitions: what to_regclass does not find is created.
Look(p) ==
  /\ proc[p].pc = "look"
  /\ IF applied[Needed] = NoText THEN Finish(p, "no_schema")
     ELSE proc' = [proc EXCEPT ![p].pc = "cut", ![p].at = month,
                               ![p].todo = Window(month) \ partitions]
  /\ UNCHANGED <<applied, calendar, account>>

\* CREATE TABLE fails if another start was first, and if the default partition
\* holds rows of the month; the function, one statement, is then undone.
Cut(p) ==
  LET todo == proc[p].todo IN
  /\ proc[p].pc = "cut"
  /\ \/ /\ todo \cap partitions # {}
        /\ Finish(p, "lost_race")
        /\ UNCHANGED <<partitions, cuts>>
     \/ /\ todo \cap partitions = {} /\ todo \cap overflow # {}
        /\ Finish(p, "blocked")
        /\ UNCHANGED <<partitions, cuts>>
     \/ /\ todo \cap (partitions \cup overflow) = {}
        /\ partitions' = partitions \cup todo
        /\ cuts' = cuts \cup {proc[p].at}
        /\ proc' = [proc EXCEPT ![p].pc = "seed", ![p].at = 0, ![p].todo = {}]
  /\ UNCHANGED <<applied, month, overflow, account>>

\* Where a start goes once the administrator has been seen to.
Assembled(p) == IF proc[p].script THEN "reset" ELSE "up"

\* Mutant: the configured password is set whoever made the account.
LookForAdminAndPassword(p) ==
  /\ proc[p].pc = "seed"
  /\ Goto(p, IF taken \/ ~proc[p].named THEN Assembled(p)
             ELSE IF ~admin THEN "create"
             ELSE IF proc[p].configured THEN "password" ELSE Assembled(p))
  /\ UNCHANGED <<applied, calendar, account>>

\* _seed_admin: nothing to do if no address is configured, if there is an
\* administrator, or if the address is taken.
LookForAdmin(p) ==
  /\ proc[p].pc = "seed"
  /\ Goto(p, IF ~proc[p].named \/ admin \/ taken THEN Assembled(p) ELSE "create")
  /\ UNCHANGED <<applied, calendar, account>>

\* Mutant: an account that has the address does not stand in the way.
CreateAdminBeside(p) ==
  /\ proc[p].pc = "create"
  /\ \A q \in Procs : proc[q].pc # "commit"
  /\ IF admin THEN Finish(p, "lost_race") ELSE Goto(p, "commit")
  /\ UNCHANGED <<applied, calendar, account>>

\* The INSERT waits for an open one; users_single_admin and the unique address
\* then refuse a second.
CreateAdmin(p) ==
  /\ proc[p].pc = "create"
  /\ \A q \in Procs : proc[q].pc # "commit"
  /\ IF admin \/ taken THEN Finish(p, "lost_race") ELSE Goto(p, "commit")
  /\ UNCHANGED <<applied, calendar, account>>

\* The commit, and the early return of _seed_admin_password.
CommitAdmin(p) ==
  /\ proc[p].pc = "commit"
  /\ admin' = TRUE /\ bare' = ~proc[p].configured
  /\ Goto(p, IF proc[p].configured THEN "password" ELSE Assembled(p))
  /\ UNCHANGED <<applied, calendar, taken, password, seeded, dropped>>

\* _seed_admin_password, in a transaction of its own.
SeedPassword(p) ==
  /\ proc[p].pc = "password"
  /\ password' = "initial" /\ seeded' = seeded + 1
  /\ Goto(p, Assembled(p))
  /\ UNCHANGED <<applied, calendar, admin, taken, bare, dropped>>

\* The script: set_admin_password for whoever the administrator is.
ResetPassword(p) ==
  /\ proc[p].pc = "reset"
  /\ password' = IF admin THEN "chosen" ELSE password
  /\ Finish(p, IF admin THEN "reset" ELSE "no_admin")
  /\ UNCHANGED <<applied, calendar, admin, taken, seeded, bare, dropped>>

-----------------------------------------------------------------------------
(* Afterwards.                                                             *)

Serving == \E p \in Procs : proc[p].pc = "up"

\* The engagement log, stamped by the server: a row of a month without a
\* partition goes to the default one.
RecordEvent ==
  /\ Serving /\ month \notin partitions
  /\ overflow' = overflow \cup {month}
  /\ UNCHANGED <<applied, month, partitions, cuts, account, proc>>

\* The console's password endpoint, which asks for the current one.
ChangePassword ==
  /\ Serving /\ password # "none"
  /\ password' = "chosen"
  /\ UNCHANGED <<applied, calendar, admin, taken, seeded, bare, dropped, proc>>

\* An ordinary account for admin_email; it waits for an open administrator.
SignUp ==
  /\ Serving /\ ~admin /\ ~taken
  /\ \A q \in Procs : proc[q].pc # "commit"
  /\ taken' = TRUE
  /\ UNCHANGED <<applied, calendar, admin, password, seeded, bare, dropped, proc>>

Tick ==
  /\ month < LastMonth
  /\ month' = month + 1
  /\ UNCHANGED <<applied, partitions, overflow, cuts, account, proc>>

\* A crash, a statement timeout, a deploy: transactions are rolled back.
Die(p) ==
  /\ proc[p].pc \notin {"down", "done"}
  /\ dropped' = (dropped \/ proc[p].pc = "password")
  /\ proc' = [proc EXCEPT ![p] = Down]
  /\ UNCHANGED <<applied, calendar, admin, taken, password, seeded, bare>>

Exit(p) ==
  /\ proc[p].pc = "done"
  /\ proc' = [proc EXCEPT ![p] = Down]
  /\ UNCHANGED <<applied, calendar, account>>

-----------------------------------------------------------------------------

Init ==
  /\ applied = NoRelease
  /\ month = 0 /\ partitions = {} /\ overflow = {} /\ cuts = {}
  /\ admin = FALSE /\ taken = FALSE /\ password = "none" /\ seeded = 0
  /\ bare = FALSE /\ dropped = FALSE
  /\ proc = [p \in Procs |-> Down]

Migrator(p) ==
  \/ \E files \in Releases : StartMigrate(p, files)
  \/ TakeLock(p) \/ ReadHistory(p) \/ Apply(p) \/ FinishMigrate(p)
Assembly(p) ==
  \/ \E script, named, configured \in BOOLEAN : Start(p, script, named, configured)
  \/ Look(p) \/ Cut(p)
  \/ LookForAdmin(p) \/ CreateAdmin(p) \/ CommitAdmin(p) \/ SeedPassword(p) \/ ResetPassword(p)

Next ==
  \/ \E p \in Procs : Migrator(p) \/ Assembly(p) \/ Die(p) \/ Exit(p)
  \/ RecordEvent \/ ChangePassword \/ SignUp \/ Tick

Spec == Init /\ [][Next]_vars

-----------------------------------------------------------------------------
(* Properties.                                                             *)

\* Types; a month has its own partition or rows in the default one, not both;
\* and there is an administrator or somebody with the address, not both.
TypeOK ==
  /\ applied \in Checkout /\ month \in 0 .. LastMonth
  /\ partitions \subseteq Months /\ overflow \subseteq Months /\ cuts \subseteq Months
  /\ partitions \cap overflow = {}
  /\ admin \in BOOLEAN /\ taken \in BOOLEAN /\ ~(admin /\ taken)
  /\ bare \in BOOLEAN /\ dropped \in BOOLEAN
  /\ password \in {"none", "initial", "chosen"} /\ seeded \in Nat
  /\ proc \in [Procs -> Process]

\* However many migrators run, and wherever they die, one that reports success
\* leaves the schema its files describe, one that refuses has met a history
\* that its files contradict, and none fails on another's work.
UpgradesAgree ==
  \A p \in Procs :
    LET files == proc[p].files IN
    /\ proc[p].answer = "upgraded" =>
         \A v \in Versions : files[v] # NoText => applied[v] = files[v]
    /\ proc[p].answer = "mismatch" => Edited(files)
    /\ proc[p].answer # "conflict"

\* Rows fall into the default partition only in a month that is further ahead
\* of every start (and of the migration) than the partitions they cut.
DefaultRowsNeedALapse ==
  \A m \in overflow, e \in cuts : ~(e <= m /\ m <= e + Ahead)

\* The configured password is set by the start that made the administrator, if
\* that one was configured with it and lived to set it, and by no other: one in
\* all, whatever races, and none made up for by a later start.  Once set it may
\* be changed and is never lost.
InitialPasswordOnce ==
  LET setting == \E p \in Procs : proc[p].pc = "password" IN
  /\ seeded = IF admin /\ ~bare /\ ~dropped /\ ~setting THEN 1 ELSE 0
  /\ seeded = 1 => password # "none"

=============================================================================
