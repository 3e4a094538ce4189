-------------------------- MODULE SchemaMigrations --------------------------
(***************************************************************************)
(* Booting the API and the indexer: each migrates the metadata database    *)
(* and then the warehouse, under a lock of the metadata database, before   *)
(* it serves.  Processes boot at the same time and die anywhere.           *)
(*                                                                         *)
(* The three databases differ in what a death undoes: SQLite runs all      *)
(* metadata migrations in one transaction, Postgres each one in its own,   *)
(* MySQL none, and the warehouse has no transactions: a statement whose    *)
(* caller is gone runs on at the server.  Names, checksums and column      *)
(* lists are abstracted to the state of each table.                        *)
(***************************************************************************)
EXTENDS Integers, FiniteSets

CONSTANTS
  Booters,        \* the processes that boot
  Old,            \* those of the previous release, which knows one version less
  Slow,           \* those whose clock runs behind the others'
  Databases,      \* kinds of metadata database
  StoredRows,     \* the rows that the warehouse may hold
  MaxBootDeaths   \* bound: deaths, of all processes together

Nobody == "nobody"

ASSUME MigrationConstants ==
  /\ Nobody \notin Booters
  /\ Old \subseteq Booters /\ Slow \subseteq Booters
  /\ Databases \subseteq {"sqlite", "postgres", "mysql"}
  /\ MaxBootDeaths \in Nat

VARIABLES
  database,    \* kind of the metadata database
  meta,        \* committed state of its tables
  metaLedger,  \* versions in the metadata_migrations table
  open,        \* state and ledger inside the open transaction of the lock holder
  holder,      \* process that holds the lock of each migration, or Nobody
  boot,        \* where each process stands
  clickTables, \* the warehouse has the canonical tables and views
  clickLedger, \* rows of the warehouse's ledger
  source,      \* copies of rows to make: those in the source of their pair
  readModel,   \* how often each is in its address read model
  statement,   \* copies that the backfill of the lock holder has yet to insert
  orphans,     \* how many of each the backfills of dead callers have yet to insert
  views,       \* copies whose source is stored and whose view has yet to insert them
  raced,       \* history: copies a backfill chose that an orphan or view then made too
  now, bootDeaths

migrationVars == <<database, meta, metaLedger, open, holder, boot, clickTables,
                   clickLedger, source, readModel, statement, orphans, views, raced,
                   now, bootDeaths>>

Locks == {"meta", "click"}
Pairs == {"utxos", "movements"}   \* readModelPairs
Copies == Pairs \X StoredRows     \* <<q, r>>: row r in the read model of pair q
LegacyTables == {"networks", "tags"}
MetaVersions == 1 .. 4
ClickVersions == 1 .. 3

\* metadataMigrations: the versions a release knows.
KnownTo(p) == IF p \in Old THEN 1 .. 3 ELSE MetaVersions

NoBoot == [at |-> "off", version |-> 0, step |-> 0]

\* A new database, or one of a release before the ledger: keys with a secret column,
\* audit events without resource_ids_json, network-scoped core tables, legacy tables.
\* Filled: a legacy or core table has rows, or an API key lacks its id or hash.
MetaStart ==
  {[keys |-> "none", core |-> "none", audit |-> "none", watches |-> "none",
    legacy |-> {}, filled |-> {}]}
  \cup
  {[keys |-> "secret", core |-> "scoped", audit |-> "legacy", watches |-> "unique",
    legacy |-> LegacyTables, filled |-> f] : f \in {{}, {"tags"}, {"core"}, {"keys"}}}

MigrationInit ==
  /\ database \in Databases
  /\ meta \in MetaStart
  /\ metaLedger = {} /\ open = <<>>
  /\ holder = [l \in Locks |-> Nobody]
  /\ boot = [p \in Booters |-> NoBoot]
  /\ clickTables = FALSE /\ clickLedger = {}
  /\ source \in {Pairs \X rows : rows \in SUBSET StoredRows}
  /\ readModel = [c \in Copies |-> 0] /\ orphans = [c \in Copies |-> 0]
  /\ statement = {} /\ views = {} /\ raced = {}
  /\ now = 0 /\ bootDeaths = 0

-----------------------------------------------------------------------------
\* The metadata database.

\* migrateApiKeys, rebuildSqliteApiKeysWithoutSecret: the table with its role column,
\* then without the secret.
MigrateApiKeys(s, i) ==
  [s EXCEPT !.keys = IF i = 1 /\ @ = "secret" THEN "both" ELSE "current"]

\* dropLegacyCoreTables
DropLegacyCoreTables(s) == [s EXCEPT !.core = IF @ = "scoped" THEN "none" ELSE @]

\* activeMetadataStatements: the tables that do not exist yet.
CreateTables(s) ==
  [s EXCEPT !.core = "current",
            !.audit = IF @ = "none" THEN "created" ELSE @,
            !.watches = IF @ = "none" THEN "current" ELSE @]

\* migrateAuditEvents: add the column, NULL but in SQLite; copy the ids to where it
\* is '[]'; replace NULL by '[]'.
MigrateAuditEvents(s, i) ==
  [s EXCEPT !.audit =
     CASE i = 1 /\ @ = "legacy" -> IF database = "sqlite" THEN "empty" ELSE "null"
       [] i = 2 /\ @ = "empty" -> "copied"
       [] i = 3 /\ @ = "null" -> "empty"
       [] OTHER -> @]

\* migrateActiveMempoolWatches
MigrateActiveMempoolWatches(s) == [s EXCEPT !.watches = "current"]

\* legacyMetadataTables, in their order.
LegacyTable(i) == IF i = 1 THEN "networks" ELSE "tags"

\* dropLegacyMetadataTables
DropLegacyMetadataTables(s, i) == [s EXCEPT !.legacy = @ \ {LegacyTable(i)}]

\* applyMigration, applyBaseline: statement i of version v.
Statement(s, v, i) ==
  CASE v = 1 /\ i <= 2 -> MigrateApiKeys(s, i)
    [] v = 1 /\ i = 3 -> DropLegacyCoreTables(s)
    [] v = 1 /\ i = 4 -> CreateTables(s)
    [] v = 2 -> MigrateAuditEvents(s, i)
    [] v = 3 -> MigrateActiveMempoolWatches(s)
    [] v = 4 -> DropLegacyMetadataTables(s, i)

StatementCount(v) == CASE v = 1 -> 4 [] v = 2 -> 3 [] v = 3 -> 1 [] v = 4 -> 2

\* Variant: a column is added without looking whether it exists.
RefusedAgain(s, v, i) == v = 1 /\ i = 1 /\ s.keys = "both"

\* What a statement refuses to drop: a secret column beside keys without an id or a
\* hash (migrateApiKeys; SQLite's copy into NOT NULL columns fails), and a scoped core
\* table or a legacy table with rows (requireEmptyTableBeforeDrop).
Refused(s, v, i) ==
  \/ v = 1 /\ i = 2 /\ s.keys \in {"secret", "both"} /\ "keys" \in s.filled
  \/ v = 1 /\ i = 3 /\ s.core = "scoped" /\ "core" \in s.filled
  \/ v = 4 /\ LegacyTable(i) \in s.legacy \cap s.filled

\* verifyBaseline: required columns and indexes, and nothing about other columns.
VerifyBaseline(s) ==
  s.keys # "secret" /\ "none" \notin {s.keys, s.core, s.audit, s.watches}

\* verifyKnownCurrentSchema: no column that is not known.
VerifyKnownCurrentSchema(s) == s.keys = "current"

\* verifyMigration
Verified(s, v) ==
  CASE v = 1 -> VerifyBaseline(s)
    [] v = 2 -> s.audit \in {"created", "empty", "copied"}
    [] v = 3 -> s.watches # "none"
    [] v = 4 -> VerifyKnownCurrentSchema(s) /\ s.legacy = {}

\* appliedMigrationDrift: versions this release does not know, or a gap.
Drift(p, applied) ==
  \/ ~(applied \subseteq KnownTo(p))
  \/ \E v \in applied : \E e \in KnownTo(p) : e < v /\ e \notin applied

InTransaction == open # <<>>
\* What the holder of the lock sees.
Seen == IF InTransaction THEN open[1] ELSE [schema |-> meta, ledger |-> metaLedger]

\* A statement inside the open transaction, or committed at once.
WriteMeta(new) ==
  IF InTransaction THEN open' = <<new>> /\ UNCHANGED <<meta, metaLedger>>
  ELSE meta' = new.schema /\ metaLedger' = new.ledger /\ open' = <<>>

ToBoot(p, at, version, step) ==
  boot' = [boot EXCEPT ![p] = [at |-> at, version |-> version, step |-> step]]

\* acquireMigrationLock, withSchemaLock: two locks, but in SQLite both are the one
\* write transaction the database allows.
Free(l) ==
  /\ holder[l] = Nobody
  /\ database = "sqlite" => \A o \in Locks : holder[o] = Nobody

\* releaseMigrationLock, or the end of the session.
Released(p) == [l \in Locks |-> IF holder[l] = p THEN Nobody ELSE holder[l]]

backfillVars == <<readModel, statement, orphans, views, raced>>
clickVars == <<clickTables, clickLedger, source, backfillVars, now>>

\* The process starts; one that died or refused starts again.  What it refused beside
\* a row whose view is under way it does not meet twice: a restart takes longer.
StartBoot(p) ==
  /\ boot[p].at = "off" \/ (boot[p].at = "refused" /\ views = {})
  /\ ToBoot(p, "lockMeta", 0, 0)
  /\ UNCHANGED <<database, meta, metaLedger, open, holder, clickVars, bootDeaths>>

\* migrate, withMigrationLock, bootstrapMigrationLedger, assertAppliedMigrations: a
\* ledger with drift ends the boot.
LockMeta(p) ==
  /\ boot[p].at = "lockMeta" /\ Free("meta")
  /\ IF Drift(p, metaLedger) THEN ToBoot(p, "refused", 0, 0) /\ UNCHANGED <<holder, open>>
     ELSE /\ ToBoot(p, "meta", 1, 0)
          /\ holder' = [holder EXCEPT !["meta"] = p]
          /\ open' = IF database = "sqlite" THEN <<[schema |-> meta, ledger |-> metaLedger]>>
                     ELSE <<>>
  /\ UNCHANGED <<database, meta, metaLedger, clickVars, bootDeaths>>

\* The boot fails: an open transaction is rolled back and the lock is released.
FailMeta(p) ==
  /\ ToBoot(p, "refused", 0, 0)
  /\ open' = <<>> /\ holder' = Released(p)
  /\ UNCHANGED <<meta, metaLedger>>

\* runMigration of the version the boot stands at: begin, its statements in turn,
\* verification, the ledger row and the commit.
RunMetaMigration(p) ==
  LET v == boot[p].version  i == boot[p].step IN
  /\ boot[p].at = "meta" /\ v \in KnownTo(p) /\ v \notin Seen.ledger
  /\ \/ /\ i = 0
        /\ open' = IF database = "postgres" THEN <<Seen>> ELSE open
        /\ ToBoot(p, "meta", v, 1)
        /\ UNCHANGED <<meta, metaLedger, holder>>
     \/ /\ i \in 1 .. StatementCount(v)
        /\ IF Refused(Seen.schema, v, i) THEN FailMeta(p)
           ELSE /\ WriteMeta([Seen EXCEPT !.schema = Statement(@, v, i)])
                /\ ToBoot(p, "meta", v, i + 1)
                /\ UNCHANGED holder
     \/ /\ i = StatementCount(v) + 1
        /\ IF ~Verified(Seen.schema, v) THEN FailMeta(p)
           ELSE /\ LET done == [Seen EXCEPT !.ledger = @ \cup {v}] IN
                     IF database = "postgres"
                     THEN meta' = done.schema /\ metaLedger' = done.ledger /\ open' = <<>>
                     ELSE WriteMeta(done)
                /\ ToBoot(p, "meta", v + 1, 0)
                /\ UNCHANGED holder
  /\ UNCHANGED <<database, clickVars, bootDeaths>>

\* runMetadataMigrations, of a version in the ledger: it is verified again.
VerifyApplied(p) ==
  /\ boot[p].at = "meta" /\ boot[p].version \in KnownTo(p) \cap Seen.ledger
  /\ boot[p].step = 0
  /\ IF ~Verified(Seen.schema, boot[p].version) THEN FailMeta(p)
     ELSE /\ ToBoot(p, "meta", boot[p].version + 1, 0)
          /\ UNCHANGED <<meta, metaLedger, open, holder>>
  /\ UNCHANGED <<database, clickVars, bootDeaths>>

\* Variant: the SQLite transaction is closed and not committed.
ReleaseUncommitted(p) ==
  /\ boot[p].at = "meta" /\ boot[p].version \notin KnownTo(p)
  /\ open' = <<>> /\ holder' = Released(p)
  /\ ToBoot(p, "lockClick", 0, 0)
  /\ UNCHANGED <<database, meta, metaLedger, clickVars, bootDeaths>>

\* withSqliteMigrationLock, releaseMigrationLock: commit, if SQLite, and release.
ReleaseMeta(p) ==
  /\ boot[p].at = "meta" /\ boot[p].version \notin KnownTo(p)
  /\ meta' = Seen.schema /\ metaLedger' = Seen.ledger /\ open' = <<>>
  /\ holder' = Released(p)
  /\ ToBoot(p, "lockClick", 0, 0)
  /\ UNCHANGED <<database, clickVars, bootDeaths>>

-----------------------------------------------------------------------------
\* The warehouse.

\* readMigrationRecords: the row of the highest sequence.
Current(v) ==
  LET rows == {r \in clickLedger : r.version = v} IN
  IF rows = {} THEN "none"
  ELSE (CHOOSE r \in rows : \A o \in rows : o.sequence <= r.sequence).state

\* writeLedger: the sequence comes from the clock of the process.
WriteLedger(p, v, state) ==
  /\ clickLedger' = clickLedger \cup
       {[version |-> v, state |-> state,
         sequence |-> 2 * now + IF p \in Slow THEN 0 ELSE 5]}
  /\ now' = now + 1

\* withSchemaLock, createLedger, assertLedgerChecksums
LockClick(p) ==
  /\ boot[p].at = "lockClick" /\ Free("click")
  /\ holder' = [holder EXCEPT !["click"] = p]
  /\ ToBoot(p, "click", 1, 0)
  /\ UNCHANGED <<database, meta, metaLedger, open, clickVars, bootDeaths>>

\* Variant: the backfill copies every row of the source.
MissingAll(q) == {c \in source : c[1] = q}

\* currentUtxoBackfill, movementBackfill: the rows of the anti-join, which reads both
\* tables at one instant.
Missing(q) == {c \in source : c[1] = q /\ readModel[c] = 0}

\* verifyCanonicalSchema
TablesVerified == clickTables

\* canonicalSchemaSource: every table and view, created where it is missing.
CreateClickTables == clickTables' = TRUE

\* verifyReadModels, verifyKeyCoverage
ClickVerified(v) == TablesVerified /\ (v = 2 => \A c \in source : readModel[c] > 0)

\* checkReadModelsPopulated, or verify where a migration has no check.
BootCheck(v) ==
  IF v # 2 THEN ClickVerified(v)
  ELSE \A q \in Pairs : (\E c \in source : c[1] = q) =>
                          \E r \in StoredRows : readModel[q, r] > 0

\* A copy reaches its read model.
Land(c) == readModel' = [readModel EXCEPT ![c] = @ + 1]

PairOf(i) == IF i <= 2 THEN "utxos" ELSE "movements"

\* A failed verification or check ends the boot.
RefuseClick(p) == ToBoot(p, "refused", 0, 0) /\ holder' = Released(p)

\* backfillReadModels: one statement for each read model, which fixes its rows when it
\* starts and inserts them in any order; the boot waits for it.
RunBackfill(p) ==
  LET i == boot[p].step IN
  /\ boot[p].at = "click" /\ boot[p].version = 2
  /\ \/ /\ i \in {1, 3}
        /\ statement' = Missing(PairOf(i))
        /\ raced' = raced \cup {c \in Missing(PairOf(i)) : orphans[c] > 0 \/ c \in views}
        /\ ToBoot(p, "click", 2, i + 1)
        /\ UNCHANGED readModel
     \/ /\ i \in {2, 4}
        /\ \E c \in statement : Land(c) /\ statement' = statement \ {c}
        /\ UNCHANGED <<raced, boot>>
     \/ /\ i \in {2, 4} /\ statement = {}
        /\ ToBoot(p, "click", 2, i + 1)
        /\ UNCHANGED <<readModel, statement, raced>>
  /\ UNCHANGED <<database, meta, metaLedger, open, holder, clickTables, clickLedger,
                 source, orphans, views, now, bootDeaths>>

\* runClickHouseMigrations of the version the boot stands at: the check of a
\* completed one, else started, up (of version 2: RunBackfill), verify, completed.
RunClickMigration(p) ==
  LET v == boot[p].version  i == boot[p].step IN
  /\ boot[p].at = "click" /\ v \in ClickVersions
  /\ \/ /\ i = 0 /\ Current(v) = "completed"
        /\ IF BootCheck(v) THEN ToBoot(p, "click", v + 1, 0) /\ UNCHANGED holder
           ELSE RefuseClick(p)
        /\ UNCHANGED <<clickTables, clickLedger, now>>
     \/ /\ i = 0 /\ Current(v) # "completed"
        /\ WriteLedger(p, v, "started")
        /\ ToBoot(p, "click", v, 1)
        /\ UNCHANGED <<clickTables, holder>>
     \/ /\ v # 2 /\ i = 1
        /\ CreateClickTables
        /\ ToBoot(p, "click", v, 5)
        /\ UNCHANGED <<clickLedger, now, holder>>
     \/ /\ i = 5
        /\ IF ClickVerified(v)
           THEN WriteLedger(p, v, "completed") /\ ToBoot(p, "click", v + 1, 0)
                /\ UNCHANGED holder
           ELSE RefuseClick(p) /\ UNCHANGED <<clickLedger, now>>
        /\ UNCHANGED clickTables
  /\ UNCHANGED <<database, meta, metaLedger, open, source, backfillVars, bootDeaths>>

\* The lock is released; the process serves.
Serve(p) ==
  /\ boot[p].at = "click" /\ boot[p].version \notin ClickVersions
  /\ holder' = Released(p)
  /\ ToBoot(p, "up", 0, 0)
  /\ UNCHANGED <<database, meta, metaLedger, open, clickVars, bootDeaths>>

-----------------------------------------------------------------------------
\* The server, and what happens to the processes.

storeVars == <<database, meta, metaLedger, open, holder, boot, clickTables, clickLedger,
               statement, now, bootDeaths>>

\* A process that serves stores a row: it is in its source before its view has put it
\* into the read model.
StoreRow(p) ==
  /\ boot[p].at = "up"
  /\ \E c \in Copies \ source : source' = source \cup {c} /\ views' = views \cup {c}
  /\ UNCHANGED <<storeVars, readModel, orphans, raced>>

\* The materialized view of the source inserts the row.
FeedView ==
  /\ \E c \in views : Land(c) /\ views' = views \ {c}
  /\ UNCHANGED <<storeVars, source, orphans, raced>>

\* A backfill whose caller is gone inserts another of its rows, however late.
LandOrphan ==
  /\ \E c \in Copies : orphans[c] > 0 /\ Land(c) /\ orphans' = [orphans EXCEPT ![c] = @ - 1]
  /\ UNCHANGED <<storeVars, source, views, raced>>

\* A process dies, or its request times out and the boot fails: its session ends, which
\* rolls its transaction back and frees the lock; a running backfill runs on.
Die(p) ==
  /\ boot[p].at \notin {"off", "refused"} /\ bootDeaths < MaxBootDeaths
  /\ bootDeaths' = bootDeaths + 1
  /\ boot' = [boot EXCEPT ![p] = NoBoot]
  /\ holder' = Released(p)
  /\ open' = IF holder["meta"] = p THEN <<>> ELSE open
  /\ IF boot[p].at = "click"
     THEN /\ orphans' = [c \in Copies |-> orphans[c] + IF c \in statement THEN 1 ELSE 0]
          /\ statement' = {}
     ELSE UNCHANGED <<orphans, statement>>
  /\ UNCHANGED <<database, meta, metaLedger, clickTables, clickLedger, source, readModel,
                 views, raced, now>>

BootStep(p) ==
  \/ StartBoot(p) \/ LockMeta(p) \/ RunMetaMigration(p) \/ VerifyApplied(p)
  \/ ReleaseMeta(p) \/ LockClick(p) \/ RunClickMigration(p) \/ RunBackfill(p) \/ Serve(p)

MigrationNext ==
  \/ \E p \in Booters : BootStep(p) \/ StoreRow(p) \/ Die(p)
  \/ FeedView \/ LandOrphan

MigrationSpec == MigrationInit /\ [][MigrationNext]_migrationVars

-----------------------------------------------------------------------------

\* A process past the metadata migrations finds every version its release knows in
\* the committed ledger, and everything the ledger says verified in the committed
\* schema, whichever process migrated, on whichever database, and whatever died.
ServedSchemaIsCurrent ==
  \A p \in Booters : boot[p].at \in {"lockClick", "click", "up"} =>
    /\ KnownTo(p) \subseteq metaLedger
    /\ \A v \in metaLedger : Verified(meta, v)

BackfillCompleted == \E r \in clickLedger : r.version = 2 /\ r.state = "completed"

\* Once the backfill is recorded as completed, both read models hold every stored row
\* whose view is done, and hold it once: a backfill repeated after a death, or because a
\* row of a dead process with a faster clock hides the completion, loses none, and
\* doubles none but those that an abandoned backfill or a view was still to insert when
\* it chose them.
ReadModelsAreExact ==
  /\ BackfillCompleted => \A c \in source \ views : readModel[c] > 0
  /\ \A c \in Copies \ raced : readModel[c] <= 1

\* Migration steps are replay-safe (docs/production-runbook.md): once the backfill is
\* recorded as completed and nothing is under way, the read model of the movements,
\* which does not replace equal rows, has every stored one once.  The code replays a
\* backfill beside the one of the interrupted process, and both insert.
BackfillIsReplaySafe ==
  (BackfillCompleted /\ views = {} /\ \A c \in Copies : orphans[c] = 0) =>
    \A c \in source : c[1] = "movements" => readModel[c] = 1

\* What a migration may refuse: an old release, and a database it would lose rows of.
Refusable(p) == p \in Old \/ meta.filled # {}

\* Every process gets to serve, unless its release is old or the database holds rows
\* of legacy tables: no death leaves a state the migrations cannot finish from.
EveryBootCompletes ==
  \A p \in Booters : (boot[p].at # "off" /\ ~Refusable(p)) ~> boot[p].at \in {"up", "off"}
=============================================================================
