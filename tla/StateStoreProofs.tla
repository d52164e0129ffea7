-------------------------- MODULE StateStoreProofs --------------------------
(* The safety of StateStore for any number of processes and crashes. *)
EXTENDS StateStore, TLAPS

LEMMA BatchFacts == /\ Len(Batch) = 3
                    /\ Tables = {"providers", "models", "browser_sessions"}
                    /\ Tables = {Batch[i] : i \in 1 .. 3}
                    /\ \A i \in 1 .. 3 : Batch[i] \in Tables
<1>1. Len(Batch) = 3
  BY DEF Batch
<1>2. Tables = {Batch[1], Batch[2], Batch[3]}
  BY <1>1 DEF Tables
<1>3. Tables = {Batch[i] : i \in 1 .. 3}
  BY <1>1 DEF Tables
<1> QED
  BY <1>1, <1>2, <1>3 DEF Batch

Ran(n) == {Batch[i] : i \in 1 .. n}

\* Only the holder of the lock is inside a transaction, nobody else writes
\* meanwhile, and what it has written so far is a prefix of the batch.
Transaction ==
    /\ \A p \in Openers : pc[p] \in {"batch", "commit"} <=> lock = p
    /\ \A p \in Openers : pc[p] = "batch" =>
          /\ draft.migrations = disk.migrations
          /\ draft.version = disk.version
          /\ IF disk.version = 0 THEN draft.tables = Ran(step)
             ELSE step = 0 /\ draft.tables = disk.tables
    /\ \A p \in Openers : pc[p] = "commit" =>
          /\ disk.version = 0
          /\ draft.migrations /\ draft.version = SCHEMA_VERSION
          /\ draft.tables = Tables

MigrationsMade ==
    \A p \in Openers :
        pc[p] \in {"read", "begin", "batch", "commit", "open"} =>
            disk.migrations

StoreInv == /\ TypeOK /\ SchemaWhole /\ OpenMeansCurrent
            /\ Transaction /\ MigrationsMade

LEMMA InitStoreInv == Init => StoreInv
<1> SUFFICES ASSUME Init PROVE StoreInv
  OBVIOUS
<1> USE StateAssumption, BatchFacts DEF Init, SCHEMA_VERSION
<1>1. disk \in Databases /\ SchemaWhole
  <2>1. CASE disk = Database(FALSE, 0, {})
    BY <2>1 DEF Database, Databases, Versions, SchemaWhole
  <2>2. CASE \E v \in 1 .. NewestBuild : disk = Database(TRUE, v, Tables)
    BY <2>2 DEF Database, Databases, Versions, SchemaWhole
  <2> QED
    BY <2>1, <2>2
<1>2. TypeOK
  BY <1>1 DEF TypeOK
<1>3. OpenMeansCurrent /\ Transaction /\ MigrationsMade
  BY DEF OpenMeansCurrent, Transaction, MigrationsMade
<1> QED
  BY <1>1, <1>2, <1>3 DEF StoreInv

LEMMA StepStoreInv == StoreInv /\ [Next]_vars => StoreInv'
<1> SUFFICES ASSUME StoreInv, [Next]_vars PROVE StoreInv'
  OBVIOUS
<1> USE StateAssumption, BatchFacts
        DEF StoreInv, TypeOK, SchemaWhole, OpenMeansCurrent, Transaction,
            MigrationsMade, Databases, Versions, SCHEMA_VERSION, Goto, Ran
<1>1. ASSUME NEW p \in Openers, Open(p) PROVE StoreInv'
  BY <1>1 DEF Open
<1>2. ASSUME NEW p \in Openers, CreateMigrations(p) PROVE StoreInv'
  BY <1>2 DEF CreateMigrations, NeedsLock
<1>3. ASSUME NEW p \in Openers, ReadVersion(p) PROVE StoreInv'
  BY <1>3 DEF ReadVersion, AfterRead
<1>4. ASSUME NEW p \in Openers, Begin(p) PROVE StoreInv'
  BY <1>4 DEF Begin
<1>5. ASSUME NEW p \in Openers, CreateTable(p) PROVE StoreInv'
  <2>1. CASE Batch[step + 1] \in draft.tables
    <3>1. /\ pc' = [pc EXCEPT ![p] = "failed"] /\ lock' = Nobody
          /\ UNCHANGED <<disk, draft, step, crashes>>
      BY <1>5, <2>1 DEF CreateTable, Rollback, Durable
    <3> QED
      BY <1>5, <3>1 DEF CreateTable, Durable
  <2>2. CASE Batch[step + 1] \notin draft.tables
    <3>1. /\ pc[p] = "batch" /\ lock = p /\ step < 3
          /\ draft' = [draft EXCEPT !.tables = @ \cup {Batch[step + 1]}]
          /\ step' = step + 1
          /\ UNCHANGED <<disk, lock, pc, crashes>>
      BY <1>5, <2>2 DEF CreateTable, Durable
    <3>2. disk.version = 0
      BY <3>1, <2>2
    <3>3. draft' \in Databases /\ step' \in 0 .. 3
      BY <3>1
    <3>4. Ran(step') = Ran(step) \cup {Batch[step + 1]}
      BY <3>1
    <3>5. Transaction'
      BY <3>1, <3>2, <3>4
    <3> QED
      BY <3>1, <3>3, <3>5
  <2> QED
    BY <2>1, <2>2
<1>6. ASSUME NEW p \in Openers, InsertVersion(p) PROVE StoreInv'
  <2>1. disk.version = 0 /\ draft.tables = Ran(3)
    BY <1>6 DEF InsertVersion, InsertedVersion
  <2>2. draft.tables = Tables
    BY <2>1
  <2>3. draft.migrations
    BY <1>6 DEF InsertVersion, InsertedVersion
  <2>4. draft' \in Databases
    BY <1>6 DEF InsertVersion, InsertedVersion
  <2> QED
    BY <1>6, <2>1, <2>2, <2>3, <2>4 DEF InsertVersion, InsertedVersion
<1>7. ASSUME NEW p \in Openers, Commit(p) PROVE StoreInv'
  BY <1>7 DEF Commit
<1>8. ASSUME NEW p \in Openers, Busy(p) PROVE StoreInv'
  BY <1>8 DEF Busy, NeedsLock
<1>9. ASSUME NEW p \in Openers, Crash(p) PROVE StoreInv'
  BY <1>9 DEF Crash
<1>10. ASSUME NEW p \in Openers, PragmaBusy(p) PROVE StoreInv'
  BY <1>10 DEF PragmaBusy
<1>11. CASE UNCHANGED vars
  BY <1>11 DEF vars
<1> QED
  BY <1>1, <1>2, <1>3, <1>4, <1>5, <1>6, <1>7, <1>8, <1>9, <1>10,
     <1>11 DEF Next, Step

LEMMA Invariance == Spec => []StoreInv
BY InitStoreInv, StepStoreInv, PTL DEF Spec

\* The variables of the store keep their types (crates/state/src/lib.rs:20-84).
THEOREM TypeCorrect == Spec => []TypeOK
BY Invariance, PTL DEF StoreInv

\* However many processes race to migrate and wherever they are killed, the
\* database on disk is empty or whole (crates/state/src/lib.rs:58-81).
THEOREM SchemaWholeHolds == Spec => []SchemaWhole
BY Invariance, PTL DEF StoreInv

\* An open store is on the schema of this build (crates/state/src/lib.rs:53-56).
THEOREM OpenMeansCurrentHolds == Spec => []OpenMeansCurrent
BY Invariance, PTL DEF StoreInv

-----------------------------------------------------------------------------
(* The migration is atomic: what changes the database on disk is the       *)
(* commit, and the transaction it ends began on an empty database.         *)

LEMMA MigrationInit == Init => Migration!Init
<1> SUFFICES ASSUME Init PROVE Migration!Init
  OBVIOUS
<1>1. {p \in Openers : pc[p] = "open"} = {}
  BY DEF Init
<1>2. CASE disk = Database(FALSE, 0, {})
  BY <1>1, <1>2 DEF Database, Migration!Init
<1>3. CASE \E v \in 1 .. NewestBuild : disk = Database(TRUE, v, Tables)
  BY <1>1, <1>3 DEF Database, Migration!Init
<1> QED
  BY <1>2, <1>3 DEF Init

Inside == {p \in Openers : pc[p] = "open"}

\* A step that leaves the schema alone and lets nobody in or out stutters.
LEMMA MigrationStutters ==
    ASSUME disk'.version = disk.version, disk'.tables = disk.tables,
           Inside' = Inside
    PROVE  [Migration!Next]_(Migration!vars)
BY DEF Migration!vars, Inside

LEMMA MigrationStep ==
    ASSUME StoreInv, [Next]_vars
    PROVE  [Migration!Next]_(Migration!vars)
<1>0. /\ pc \in [Openers -> {"closed", "create", "read", "begin", "batch",
                             "commit", "open", "failed", "future_schema"}]
      /\ disk \in Databases
  BY DEF StoreInv, TypeOK
<1>1. ASSUME NEW p \in Openers, Open(p) PROVE [Migration!Next]_(Migration!vars)
  BY <1>0, <1>1, MigrationStutters DEF Open, Goto, Inside
<1>2. ASSUME NEW p \in Openers, CreateMigrations(p)
      PROVE  [Migration!Next]_(Migration!vars)
  BY <1>0, <1>2, MigrationStutters DEF CreateMigrations, Goto, Inside, Databases
<1>3. ASSUME NEW p \in Openers, ReadVersion(p)
      PROVE  [Migration!Next]_(Migration!vars)
  <2>1. CASE pc'[p] = "open"
    <3>1. disk.version = SCHEMA_VERSION
      BY <1>0, <1>3, <2>1, StateAssumption
      DEF ReadVersion, AfterRead, Goto, SCHEMA_VERSION, Databases, Versions
    <3>2. disk.tables = Tables
      BY <3>1 DEF StoreInv, SchemaWhole, SCHEMA_VERSION
    <3>3. disk' = disk /\ Inside' = Inside \cup {p}
      BY <1>0, <1>3, <2>1 DEF ReadVersion, Goto, Inside
    <3> QED
      BY <3>1, <3>2, <3>3 DEF Migration!Next, Migration!Join, Inside
  <2>2. CASE pc'[p] # "open"
    BY <1>0, <1>3, <2>2, MigrationStutters DEF ReadVersion, Goto, Inside
  <2> QED
    BY <2>1, <2>2
<1>4. ASSUME NEW p \in Openers, Begin(p) PROVE [Migration!Next]_(Migration!vars)
  BY <1>0, <1>4, MigrationStutters DEF Begin, Goto, Inside
<1>5. ASSUME NEW p \in Openers, CreateTable(p)
      PROVE  [Migration!Next]_(Migration!vars)
  <2>1. disk' = disk /\ pc[p] = "batch" /\ (pc' = pc \/ Goto(p, "failed"))
    BY <1>5 DEF CreateTable, Rollback, Durable
  <2> QED
    BY <1>0, <2>1, MigrationStutters DEF Goto, Inside
<1>6. ASSUME NEW p \in Openers, InsertVersion(p)
      PROVE  [Migration!Next]_(Migration!vars)
  BY <1>0, <1>6, MigrationStutters DEF InsertVersion, Goto, Inside
<1>7. ASSUME NEW p \in Openers, Commit(p) PROVE [Migration!Next]_(Migration!vars)
  <2>1. /\ disk.version = 0 /\ disk.tables = {}
        /\ disk'.version = SCHEMA_VERSION /\ disk'.tables = Tables
    BY <1>7 DEF Commit, StoreInv, Transaction, SchemaWhole
  <2>2. Inside' = Inside \cup {p}
    BY <1>0, <1>7 DEF Commit, Goto, Inside
  <2> QED
    BY <2>1, <2>2 DEF Migration!Next, Migration!Migrate, Inside
<1>8. ASSUME NEW p \in Openers, Busy(p) PROVE [Migration!Next]_(Migration!vars)
  BY <1>0, <1>8, MigrationStutters DEF Busy, NeedsLock, Goto, Inside
<1>9. ASSUME NEW p \in Openers, Crash(p) PROVE [Migration!Next]_(Migration!vars)
  <2>1. disk' = disk /\ Inside' = Inside \ {p}
    BY <1>0, <1>9 DEF Crash, Goto, Inside
  <2> QED
    BY <2>1 DEF Migration!Next, Migration!Leave, Inside
<1>10. ASSUME NEW p \in Openers, PragmaBusy(p)
       PROVE  [Migration!Next]_(Migration!vars)
  BY <1>0, <1>10, MigrationStutters DEF PragmaBusy, Goto, Inside
<1>11. CASE UNCHANGED vars
  BY <1>11, MigrationStutters DEF vars, Inside
<1> QED
  BY <1>1, <1>2, <1>3, <1>4, <1>5, <1>6, <1>7, <1>8, <1>9, <1>10,
     <1>11 DEF Next, Step

\* However many processes race and wherever they are killed, the migration is
\* one step that happens at most once (crates/state/src/lib.rs:46-81).
THEOREM ImplementsAtomicMigrationHolds == Spec => ImplementsAtomicMigration
BY MigrationInit, MigrationStep, Invariance, PTL
   DEF Spec, ImplementsAtomicMigration, Migration!Spec
=============================================================================
