----------------------------- MODULE StateStore -----------------------------
(***************************************************************************)
(* StateStore::open (crates/state/src/lib.rs) by several processes on one  *)
(* database file, any of which may be killed at any point and started      *)
(* again.  SQLite is external: a statement that writes needs the write     *)
(* lock, waits for it as long as the busy timeout and then fails; what a   *)
(* transaction wrote is on disk once it is committed and never otherwise.  *)
(***************************************************************************)
EXTENDS Naturals, Sequences

CONSTANTS
    Openers,     \* the processes that open the database
    Nobody,      \* stands for the free write lock
    NewestBuild, \* the newest schema some other build may have left behind
    MaxCrashes   \* bound: how often processes are killed

SCHEMA_VERSION == 1

ASSUME StateAssumption ==
    /\ Nobody \notin Openers
    /\ NewestBuild \in Nat /\ NewestBuild >= SCHEMA_VERSION
    /\ MaxCrashes \in Nat

\* The tables of version 1, in the order of the batch.
Batch == <<"providers", "models", "browser_sessions">>
Tables == {Batch[i] : i \in 1 .. Len(Batch)}

\* A database: whether schema_migrations is there, MAX(version) in it (0 for
\* none), the other tables.
Database(migrations, version, tables) ==
    [migrations |-> migrations, version |-> version, tables |-> tables]

VARIABLES
    disk,     \* the committed database
    draft,    \* the database inside the transaction of the lock's holder
    step,     \* how many statements of its batch have run
    lock,     \* the opener that holds the write lock, or Nobody
    pc,       \* where each call of open is
    crashes   \* how often a process was killed

vars == <<disk, draft, step, lock, pc, crashes>>

Init == /\ disk \in {Database(FALSE, 0, {})}
                    \cup {Database(TRUE, v, Tables) : v \in 1 .. NewestBuild}
        /\ draft = disk /\ step = 0
        /\ lock = Nobody
        /\ pc = [p \in Openers |-> "closed"]
        /\ crashes = 0

Goto(p, label) == pc' = [pc EXCEPT ![p] = label]

\* open and reopen: the connection and its pragmas.
Open(p) == /\ pc[p] \in {"closed", "failed"}
           /\ Goto(p, "create")
           /\ UNCHANGED <<disk, draft, step, lock, crashes>>

\* PRAGMA journal_mode writes the header of a new database, and fails when
\* another opener is about its first writes.
PragmaBusy(p) == /\ pc[p] \in {"closed", "failed"}
                 /\ ~disk.migrations
                 /\ \E q \in Openers \ {p} : pc[q] = "create"
                 /\ Goto(p, "failed")
                 /\ UNCHANGED <<disk, draft, step, lock, crashes>>

\* A statement that writes needs the lock; CREATE TABLE IF NOT EXISTS writes
\* only when the table is not there.
NeedsLock(p) == \/ pc[p] = "create" /\ ~disk.migrations
                \/ pc[p] = "begin"

\* CREATE TABLE IF NOT EXISTS schema_migrations, a transaction of its own.
CreateMigrations(p) ==
    /\ pc[p] = "create" /\ (NeedsLock(p) => lock = Nobody)
    /\ disk' = [disk EXCEPT !.migrations = TRUE]
    /\ Goto(p, "read")
    /\ UNCHANGED <<draft, step, lock, crashes>>

\* Mutant of AfterRead: a newer schema passes for the known one.
AfterRead_AcceptsFuture(version) == IF version < 1 THEN "begin" ELSE "open"

AfterRead(version) == IF version > SCHEMA_VERSION THEN "future_schema"
                      ELSE IF version < 1 THEN "begin" ELSE "open"

\* SELECT MAX(version), outside of any transaction, and what follows from it.
ReadVersion(p) ==
    /\ pc[p] = "read"
    /\ Goto(p, AfterRead(disk.version))
    /\ UNCHANGED <<disk, draft, step, lock, crashes>>

\* The deferred transaction takes the write lock with its first statement and
\* from then on sees the database as it is.
Begin(p) == /\ pc[p] = "begin" /\ lock = Nobody
            /\ lock' = p
            /\ draft' = disk /\ step' = 0
            /\ Goto(p, "batch")
            /\ UNCHANGED <<disk, crashes>>

\* Mutant of Rollback: the error of a statement leaves the transaction open.
Rollback_KeepsLock(p) == Goto(p, "failed") /\ UNCHANGED lock

\* An error inside the transaction drops it.
Rollback(p) == Goto(p, "failed") /\ lock' = Nobody

\* Mutant of Durable: the batch runs outside of a transaction.
Durable_Autocommit(written) == written

\* What a statement of the batch leaves on disk: nothing before the commit.
Durable(written) == disk

\* The next CREATE TABLE of the batch; there is no IF NOT EXISTS here.
CreateTable(p) ==
    /\ pc[p] = "batch" /\ lock = p /\ step < Len(Batch)
    /\ IF Batch[step + 1] \in draft.tables
       THEN Rollback(p) /\ UNCHANGED <<disk, draft, step>>
       ELSE /\ draft' = [draft EXCEPT !.tables = @ \cup {Batch[step + 1]}]
            /\ disk' = Durable(draft')
            /\ step' = step + 1
            /\ UNCHANGED <<lock, pc>>
    /\ UNCHANGED crashes

\* Mutant of InsertedVersion: the version counts the tables.
InsertedVersion_CountsTables == step

\* The batch names the version itself.
InsertedVersion == 1

\* The last statement of the batch.
InsertVersion(p) ==
    /\ pc[p] = "batch" /\ lock = p /\ step = Len(Batch)
    /\ draft' = [draft EXCEPT !.version = InsertedVersion]
    /\ Goto(p, "commit")
    /\ UNCHANGED <<disk, lock, step, crashes>>

Commit(p) == /\ pc[p] = "commit"
             /\ disk' = draft
             /\ lock' = Nobody
             /\ Goto(p, "open")
             /\ UNCHANGED <<draft, step, crashes>>

\* The busy timeout runs out while another process holds the lock.
Busy(p) == /\ NeedsLock(p) /\ lock # Nobody
           /\ Goto(p, "failed")
           /\ UNCHANGED <<disk, draft, lock, step, crashes>>

\* The process is killed; an open transaction is rolled back.
Crash(p) == /\ pc[p] \notin {"closed", "failed", "future_schema"}
            /\ crashes < MaxCrashes
            /\ crashes' = crashes + 1
            /\ lock' = IF lock = p THEN Nobody ELSE lock
            /\ Goto(p, "closed")
            /\ UNCHANGED <<disk, draft, step>>

Step(p) == \/ Open(p) \/ CreateMigrations(p) \/ ReadVersion(p) \/ Begin(p)
           \/ CreateTable(p) \/ InsertVersion(p) \/ Commit(p)

Next == \E p \in Openers : Step(p) \/ PragmaBusy(p) \/ Busy(p) \/ Crash(p)

\* Processes run, and one whose open failed or that was killed is started
\* again.
Spec == Init /\ [][Next]_vars /\ \A p \in Openers : WF_vars(Step(p))

-----------------------------------------------------------------------------
Versions == 0 .. NewestBuild
Databases == [migrations : BOOLEAN, version : Versions, tables : SUBSET Tables]

\* Every variable keeps its type.
TypeOK == /\ disk \in Databases /\ draft \in Databases
          /\ lock \in Openers \cup {Nobody}
          /\ step \in 0 .. Len(Batch)
          /\ pc \in [Openers -> {"closed", "create", "read", "begin", "batch",
                                 "commit", "open", "failed", "future_schema"}]
          /\ crashes \in 0 .. MaxCrashes

\* The database on disk is empty or has a whole schema: wherever processes
\* are killed, no half of a migration is left behind (state lib.rs:58-81).
SchemaWhole ==
    /\ disk.tables = IF disk.version = 0 THEN {} ELSE Tables
    /\ disk.version # 0 => disk.migrations

\* A store that is open sits on the schema this build knows (lib.rs:53-56).
OpenMeansCurrent ==
    \A p \in Openers : pc[p] = "open" => disk.version = SCHEMA_VERSION

\* Whatever races it lost and wherever it was killed, a process that keeps
\* being started gets in, or learns that its build is too old: a failed or
\* interrupted open never leaves the database in a state that the next open
\* cannot use (state lib.rs:46-84).
EveryOpenerGetsIn ==
    \A p \in Openers : <>[](pc[p] \in {"open", "future_schema"})

\* The statements of a migration are one step to whoever shares the database:
\* the schema is there at once and whole, it is made once and never again, and
\* the version read outside of the transaction lets nobody in on less and lets
\* nobody redo the work of another (state lib.rs:46-81).
Migration == INSTANCE AtomicMigration
    WITH version <- disk.version,
         tables  <- disk.tables,
         inside  <- {p \in Openers : pc[p] = "open"},
         Current <- SCHEMA_VERSION,
         Newest  <- NewestBuild
ImplementsAtomicMigration == Migration!Spec
=============================================================================
