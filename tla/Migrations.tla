----------------------------- MODULE Migrations -----------------------------
(***************************************************************************)
(* Opening a registry database: schema migrations and the hash backfill    *)
(* (packages/registry/src/schema.ts applyMigrations, MIGRATION_1 to        *)
(* MIGRATION_14_DDL; storage.ts openRegistry, storeBlock; ProofMarket.open *)
(* of packages/proof-market, which migrates but does not backfill).        *)
(*                                                                         *)
(* No transaction spans the migrations: every statement commits on its     *)
(* own, the version is read twice before the first of them and never again,*)
(* and other processes run, or the process dies, between any two.  Every   *)
(* opening also inserts a row 0 that nobody reads: a read takes the oldest *)
(* row, an update sets them all, so one number stands for the table.       *)
(*                                                                         *)
(* A column that ALTER TABLE adds to blocks is an object like a table.     *)
(* Every object has a shape: 0 absent, 1 as version 1 had it, 2 as today.  *)
(***************************************************************************)
EXTENDS Naturals, Sequences

CONSTANTS
    Process, Block,
    OldBlock,       \* blocks that a database of version 2 or later comes with
    InitVersions,   \* the versions a database may come with
    Callers         \* subset of {"registry", "market"}: who opens it

SchemaVersion == 14

ASSUME MigrationsAssumption ==
    /\ OldBlock \subseteq Block
    /\ InitVersions \subseteq 0..SchemaVersion
    /\ Callers \subseteq {"registry", "market"}

Object == {"contracts", "contract_embeddings", "test_history", "blocks",
           "canonical_ast_hash", "parent_block_root", "block_artifacts",
           "foreign_columns", "block_foreign_refs", "source_columns", "workspace_plumbing",
           "source_file_glue", "block_occurrences", "source_file_state", "registry_meta",
           "submitted_at", "proof_market_tables", "proof_retractions"}

-----------------------------------------------------------------------------
(* The statements of each migration, in their order.                       *)
Statement == [do : {"create", "drop", "index", "column"}, on : Object]

Create(o) == [do |-> "create", on |-> o]  \* CREATE TABLE IF NOT EXISTS
Drop(o)   == [do |-> "drop", on |-> o]    \* DROP TABLE IF EXISTS
Index(o)  == [do |-> "index", on |-> o]   \* on a column the other shape lacks
Column(o) == [do |-> "column", on |-> o]  \* ALTER TABLE blocks ADD COLUMN

Migration1 == <<Create("contracts"), Create("contract_embeddings"), Create("test_history"),
               Index("test_history")>>
Migration2 == <<Drop("test_history"), Drop("contract_embeddings"), Drop("contracts"),
               Create("blocks"), Create("contract_embeddings"), Create("test_history"),
               Index("test_history")>>
Migration3 == <<Column("canonical_ast_hash")>>
Migration4 == <<Column("parent_block_root")>>
Migration5 == <<Create("block_artifacts")>>
Migration6 == <<Column("foreign_columns"), Create("block_foreign_refs")>>
Migration7 == <<Column("source_columns"), Create("workspace_plumbing")>>
Migration8 == <<Create("source_file_glue")>>
Migration9 == <<Create("block_occurrences")>>
Migration10 == <<Create("source_file_state")>>
Migration11 == <<Create("registry_meta")>>
Migration12 == <<Column("submitted_at")>>
Migration13 == <<Create("proof_market_tables")>>
Migration14 == <<Create("proof_retractions")>>

Migration == <<Migration1, Migration2, Migration3, Migration4, Migration5, Migration6,
    Migration7, Migration8, Migration9, Migration10, Migration11, Migration12, Migration13,
    Migration14>>

Shape(m) == IF m = 1 THEN 1 ELSE 2  \* what migration m creates and indexes

VARIABLES
    version,      \* schema_version: the row that SELECT ... LIMIT 1 finds
    tables,       \* tables[o]: the shape of object o
    stored,       \* blocks in the table blocks
    unhashed,     \* those with canonical_ast_hash = ''
    vectors,      \* blocks whose spec has a vector
    stage,        \* stage[p]: how far the opening is
    caller,       \* caller[p]: openRegistry or ProofMarket.open
    wasOld,       \* wasOld[p]: openRegistry's first read: preMigrationVersion < 3
    mig, stmt,    \* the migration and the statement that come next
    todo,         \* rowsToBackfill
    raced,        \* history: two openings overlapped in migrations 1 and 2
    abandoned     \* history: the hashes of an old database were given up

database == <<version, tables, stored, unhashed, vectors>>
opening == <<stage, caller, wasOld, mig, stmt, todo>>
vars == <<database, opening, raced, abandoned>>

TypeOK ==
    /\ version \in 0..SchemaVersion
    /\ tables \in [Object -> 0..2]
    /\ stored \subseteq Block /\ unhashed \subseteq stored /\ vectors \subseteq stored
    /\ stage \in [Process -> {"closed", "connected", "migrating", "searching", "filling",
                              "open", "failed"}]
    /\ caller \in [Process -> {"registry", "market"}]
    /\ wasOld \in [Process -> BOOLEAN]
    /\ mig \in [Process -> 1..SchemaVersion + 1] /\ stmt \in [Process -> Nat \ {0}]
    /\ todo \in [Process -> SUBSET Block]
    /\ raced \in BOOLEAN /\ abandoned \in BOOLEAN

(* What each migration creates, and the shape of an object in a database   *)
(* of version v that nobody is migrating.                                  *)
Creates == [m \in DOMAIN Migration |->
    {o \in Object : \E i \in DOMAIN Migration[m] : Migration[m][i] \in {Create(o), Column(o)}}]

ShapeAt(o, v) ==
    CASE o = "contracts" /\ v # 1 -> 0
      [] \E m \in 2..v : o \in Creates[m] -> 2
      [] v = 1 /\ o \in Creates[1] -> 1
      [] OTHER -> 0

Init ==
    /\ version \in InitVersions
    /\ tables = [o \in Object |-> ShapeAt(o, version)]
    /\ stored = IF version >= 2 THEN OldBlock ELSE {}
    /\ unhashed = IF version = 2 THEN OldBlock ELSE {}
    /\ vectors = stored
    /\ stage = [p \in Process |-> "closed"] /\ caller = [p \in Process |-> "registry"]
    /\ wasOld = [p \in Process |-> FALSE] /\ mig = [p \in Process |-> 1]
    /\ stmt = [p \in Process |-> 1] /\ todo = [p \in Process |-> {}]
    /\ raced = FALSE /\ abandoned = FALSE

Goto(p, s) == stage' = [stage EXCEPT ![p] = s]

-----------------------------------------------------------------------------
(* openRegistry reads the version before anything else; ProofMarket.open   *)
(* calls applyMigrations right away.                                       *)
Connect(p) ==
    /\ stage[p] = "closed"
    /\ \E c \in Callers : caller' = [caller EXCEPT ![p] = c]
    /\ wasOld' = [wasOld EXCEPT ![p] = version < 3]
    /\ Goto(p, "connected")
    /\ UNCHANGED <<database, mig, stmt, todo, raced, abandoned>>

(* openRegistry fills in the hashes when the database was older than 3     *)
(* before the migrations.                                                  *)
NeedsBackfill_Fresh(p) == caller[p] = "registry" /\ version < 3

NeedsBackfill(p) == caller[p] = "registry" /\ wasOld[p]

Migrated(p) == Goto(p, IF NeedsBackfill(p) THEN "searching" ELSE "open")

(* applyMigrations reads the version once and skips what is not above it.  *)
FirstToRun_Again(v) == IF v = 0 THEN 1 ELSE v
FirstToRun_Skip(v) == IF v \in 1..12 THEN v + 2 ELSE v + 1

FirstToRun(v) == v + 1

ReadCurrent(p) ==
    /\ stage[p] = "connected"
    /\ mig' = [mig EXCEPT ![p] = FirstToRun(version)]
    /\ stmt' = [stmt EXCEPT ![p] = 1]
    /\ IF FirstToRun(version) > SchemaVersion THEN Migrated(p) ELSE Goto(p, "migrating")
    /\ raced' = (raced \/ (version < 2 /\ \E q \in Process :
                            q # p /\ stage[q] = "migrating" /\ mig[q] <= 2))
    /\ UNCHANGED <<database, caller, wasOld, todo, abandoned>>

(* An index on a column that the table lacks is an error, as is a column   *)
(* of no table; a duplicate column is caught.                              *)
Fails_Duplicate(s, m) ==
    \/ s.do = "index" /\ tables[s.on] # Shape(m)
    \/ s.do = "column" /\ (tables["blocks"] = 0 \/ tables[s.on] # 0)

Fails(s, m) ==
    \/ s.do = "index" /\ tables[s.on] # Shape(m)
    \/ s.do = "column" /\ tables["blocks"] = 0

(* CREATE ... IF NOT EXISTS keeps a table of either shape; a table that is *)
(* dropped loses its rows.                                                 *)
ShapeAfter(s, m) ==
    CASE s.do = "drop" -> 0
      [] s.do \in {"create", "column"} /\ tables[s.on] = 0 -> Shape(m)
      [] OTHER -> tables[s.on]

(* How an opening that ends before its backfill leaves an old database:    *)
(* with a version that makes no later opening look for the hashes.         *)
GivesUp(p) ==
    /\ stage[p] \in {"migrating", "searching", "filling"} /\ NeedsBackfill(p)
    /\ version >= 3

Execute(p) ==
    LET m == mig[p]
        s == Migration[m][stmt[p]]
    IN  /\ stage[p] = "migrating" /\ stmt[p] <= Len(Migration[m])
        /\ IF Fails(s, m)
           THEN /\ Goto(p, "failed") /\ abandoned' = (abandoned \/ GivesUp(p))
                /\ UNCHANGED <<tables, vectors, stmt>>
           ELSE /\ tables' = [tables EXCEPT ![s.on] = ShapeAfter(s, m)]
                /\ vectors' = IF s = Drop("contract_embeddings") THEN {} ELSE vectors
                /\ stmt' = [stmt EXCEPT ![p] = @ + 1]
                /\ UNCHANGED <<stage, abandoned>>
        /\ UNCHANGED <<version, stored, unhashed, caller, wasOld, mig, todo, raced>>

(* The version follows every migration but the third, whose bump is left   *)
(* to the backfill, and nobody looks whether it goes back.                 *)
VersionAfter(m) == IF m = 3 THEN version ELSE m

EndMigration(p) ==
    LET m == mig[p] IN
    /\ stage[p] = "migrating" /\ stmt[p] > Len(Migration[m])
    /\ version' = VersionAfter(m)
    /\ mig' = [mig EXCEPT ![p] = m + 1]
    /\ stmt' = [stmt EXCEPT ![p] = 1]
    /\ IF m = SchemaVersion THEN Migrated(p) ELSE UNCHANGED stage
    /\ abandoned' = (abandoned \/ (caller[p] = "market" /\ version < 3 /\ version' >= 3))
    /\ UNCHANGED <<tables, stored, unhashed, vectors, caller, wasOld, todo, raced>>

(* The backfill: the rows are read before the transaction that fills them  *)
(* in and sets the version.                                                *)
Search(p) ==
    /\ stage[p] = "searching"
    /\ todo' = [todo EXCEPT ![p] = unhashed]
    /\ Goto(p, "filling")
    /\ UNCHANGED <<database, caller, wasOld, mig, stmt, raced, abandoned>>

Fill_None(p) ==
    /\ stage[p] = "filling"
    /\ version' = SchemaVersion
    /\ Goto(p, "open")
    /\ todo' = [todo EXCEPT ![p] = {}]
    /\ UNCHANGED <<tables, stored, unhashed, vectors, caller, wasOld, mig, stmt, raced,
                   abandoned>>

Fill(p) ==
    /\ stage[p] = "filling"
    /\ unhashed' = unhashed \ todo[p]
    /\ version' = SchemaVersion
    /\ Goto(p, "open")
    /\ todo' = [todo EXCEPT ![p] = {}]
    /\ UNCHANGED <<tables, stored, vectors, caller, wasOld, mig, stmt, raced, abandoned>>

(* storeBlock writes the row with its hash, and the vector, or throws when *)
(* the table of the vectors is not there or has the columns of version 1.  *)
StoreBlock(p, b) ==
    /\ stage[p] = "open" /\ caller[p] = "registry"
    /\ tables["contract_embeddings"] = 2
    /\ stored' = stored \cup {b} /\ vectors' = vectors \cup {b}
    /\ UNCHANGED <<version, tables, unhashed, opening, raced, abandoned>>

(* The process closes the database or dies, at any point.                  *)
Close(p) ==
    /\ stage[p] # "closed"
    /\ Goto(p, "closed")
    /\ caller' = [caller EXCEPT ![p] = "registry"] /\ wasOld' = [wasOld EXCEPT ![p] = FALSE]
    /\ mig' = [mig EXCEPT ![p] = 1] /\ stmt' = [stmt EXCEPT ![p] = 1]
    /\ todo' = [todo EXCEPT ![p] = {}]
    /\ abandoned' = (abandoned \/ GivesUp(p))
    /\ UNCHANGED <<database, raced>>

Next == \E p \in Process :
    \/ Connect(p) \/ ReadCurrent(p) \/ Execute(p) \/ EndMigration(p)
    \/ Search(p) \/ Fill(p) \/ Close(p)
    \/ \E b \in Block : StoreBlock(p, b)

Spec == Init /\ [][Next]_vars

-----------------------------------------------------------------------------
(* The version never promises more than is there: wherever openings die or *)
(* overlap, and though a slow one sets the version back, a database of     *)
(* version v has every table and column that no migration drops again and  *)
(* that the migrations up to v create.                                     *)
Lasting == {o \in Object : \A m \in DOMAIN Migration :
                \A i \in DOMAIN Migration[m] : Migration[m][i] # Drop(o)}

VersionTells ==
    \A m \in 1..version : \A o \in Creates[m] \cap Lasting : tables[o] # 0

(* An opening that found a database older than 3 leaves no block without   *)
(* its hash, whoever else migrated the database meanwhile.                 *)
OpenerBackfills ==
    \A p \in Process : stage[p] = "open" /\ NeedsBackfill(p) => unhashed = {}

(* Once the version says 3 or more, blocks without a hash are still the    *)
(* work of an opening on its way to the backfill, unless one that owed the *)
(* hashes died or the market migrated the database.                        *)
SomeoneBackfills ==
    version >= 3 /\ unhashed # {} =>
        \/ abandoned
        \/ \E p \in Process : /\ NeedsBackfill(p)
                              /\ stage[p] \in {"migrating", "searching", "filling"}

Today == [o \in Object |-> ShapeAt(o, SchemaVersion)]

(* Openings that do not overlap below version 2 never fail, whatever the   *)
(* ones before them left half done, and give the current database, ...     *)
RetriesSucceed ==
    ~raced => \A p \in Process :
        stage[p] # "failed" /\ (stage[p] = "open" => tables = Today)

(* ... and no stored block loses its vector to a migration.                *)
StaySearchable == ~raced => stored \subseteq vectors
=============================================================================
