-------------------------- MODULE MigrationsProofs --------------------------
(* Theorems about opening a registry, for any processes, blocks and        *)
(* callers, and any of the versions a database may come with.              *)
EXTENDS Migrations, TLAPS

(* What migration m creates for good is there.                             *)
Have(m) == \A o \in Creates[m] \cap Lasting : tables[o] # 0

Adds(s, o) == s \in {Create(o), Column(o)}

(* A process that migrates has what the migrations before its own create,  *)
(* whoever created it, and what its own has created so far.                *)
Progress ==
    \A p \in Process : stage[p] = "migrating" =>
        /\ mig[p] \in 1..SchemaVersion
        /\ \A m \in 1..SchemaVersion : m < mig[p] => Have(m)
        /\ \A i \in DOMAIN Migration[mig[p]], o \in Lasting :
               i < stmt[p] /\ Adds(Migration[mig[p]][i], o) => tables[o] # 0

(* A process that is through with the migrations has it all.               *)
AllThere ==
    \A p \in Process : stage[p] \in {"searching", "filling", "open"} =>
        \A m \in 1..SchemaVersion : Have(m)

(* A process that backfills knows every block that lacks its hash.         *)
Found == \A p \in Process : stage[p] = "filling" => unhashed \subseteq todo[p]

(* Migrations 1 and 2 are where tables of two shapes meet.  Unless two     *)
(* openings raced there, one process at most is in them, the version says  *)
(* how far it is, and until it is through nobody gets past them.           *)
Low(p) == stage[p] = "migrating" /\ mig[p] <= 2

OneLow ==
    ~raced =>
        /\ \A p \in Process : Low(p) => version = mig[p] - 1
        /\ \A p, q \in Process : Low(p) /\ Low(q) => p = q
        /\ version < 2 => /\ stored = {}
                          /\ \A p \in Process : \/ stage[p] \in {"closed", "connected"}
                                                 \/ Low(p)

NoFailure == ~raced => \A p \in Process : stage[p] # "failed"

(* The tables that migrations 1 and 2 create, drop and create again.       *)
Early == {"contracts", "contract_embeddings", "test_history"}

LateShapes == \A o \in Object \ Early : tables[o] # 1

(* What they look like before, in and after migration 2, and where a death *)
(* inside of it may leave them.                                            *)
Halfway(p) ==
    /\ mig[p] = 1 /\ stmt[p] = 4 => tables["test_history"] = 1
    /\ mig[p] = 2 =>
        /\ stmt[p] \in 2..6 => tables["test_history"] = 0
        /\ stmt[p] >= 7 => tables["test_history"] = 2
        /\ stmt[p] \in 3..5 => tables["contract_embeddings"] = 0
        /\ stmt[p] >= 6 => tables["contract_embeddings"] = 2
        /\ stmt[p] >= 4 => tables["contracts"] = 0

Redone ==
    /\ tables["contracts"] = 0
    /\ tables["contract_embeddings"] = 2 /\ tables["test_history"] = 2

EarlyShapes ==
    ~raced =>
        /\ version = 0 => tables["test_history"] # 2
        /\ version >= 2 => Redone
        /\ \A p \in Process : Low(p) => Halfway(p)

(* Blocks lack their hash only in a database that came with version 2.     *)
(* Whoever opens it before the version is 3 finds it old, and whoever then *)
(* raises the version owes the hashes until it opens or gives up.          *)
Owes(p) == NeedsBackfill(p) /\ stage[p] \in {"migrating", "searching", "filling"}

Owed ==
    unhashed # {} =>
        /\ version >= 2 /\ \A p \in Process : ~Low(p)
        /\ version < 3 => \A p \in Process : stage[p] # "closed" => wasOld[p]
        /\ version >= 3 => abandoned \/ \E p \in Process : Owes(p)

IInv ==
    /\ TypeOK /\ VersionTells /\ OpenerBackfills /\ Progress /\ AllThere /\ Found
    /\ OneLow /\ NoFailure /\ LateShapes /\ EarlyShapes /\ Owed /\ StaySearchable

-----------------------------------------------------------------------------
(* The statements are fourteen sequences of statements.                    *)
LEMMA MigrationTyped ==
    /\ DOMAIN Migration = 1..SchemaVersion
    /\ \A m \in 1..SchemaVersion : Migration[m] \in Seq(Statement)
<1>1. \A o \in Object : /\ Create(o) \in Statement /\ Drop(o) \in Statement
                        /\ Index(o) \in Statement /\ Column(o) \in Statement
  BY DEF Create, Drop, Index, Column, Statement
<1>2. /\ {"contracts", "contract_embeddings", "test_history", "blocks"} \subseteq Object
      /\ {"canonical_ast_hash", "parent_block_root", "block_artifacts"} \subseteq Object
      /\ {"foreign_columns", "block_foreign_refs", "source_columns"} \subseteq Object
      /\ {"workspace_plumbing", "source_file_glue", "block_occurrences"} \subseteq Object
      /\ {"source_file_state", "registry_meta", "submitted_at"} \subseteq Object
      /\ {"proof_market_tables", "proof_retractions"} \subseteq Object
  BY DEF Object
<1>3. DOMAIN Migration = 1..SchemaVersion
  BY DEF Migration, SchemaVersion
<1>4. \A a, b, c, d, e, f, g \in Statement :
        /\ <<a>> \in Seq(Statement) /\ <<a, b>> \in Seq(Statement)
        /\ <<a, b, c, d>> \in Seq(Statement) /\ <<a, b, c, d, e, f, g>> \in Seq(Statement)
  OBVIOUS
<1>5. Migration[1] \in Seq(Statement)
  BY <1>1, <1>2, <1>4 DEF Migration, Migration1
<1>6. Migration[2] \in Seq(Statement)
  BY <1>1, <1>2, <1>4 DEF Migration, Migration2
<1>7. Migration[3] \in Seq(Statement)
  BY <1>1, <1>2, <1>4 DEF Migration, Migration3
<1>8. Migration[4] \in Seq(Statement)
  BY <1>1, <1>2, <1>4 DEF Migration, Migration4
<1>9. Migration[5] \in Seq(Statement)
  BY <1>1, <1>2, <1>4 DEF Migration, Migration5
<1>10. Migration[6] \in Seq(Statement)
  BY <1>1, <1>2, <1>4 DEF Migration, Migration6
<1>11. Migration[7] \in Seq(Statement)
  BY <1>1, <1>2, <1>4 DEF Migration, Migration7
<1>12. Migration[8] \in Seq(Statement)
  BY <1>1, <1>2, <1>4 DEF Migration, Migration8
<1>13. Migration[9] \in Seq(Statement)
  BY <1>1, <1>2, <1>4 DEF Migration, Migration9
<1>14. Migration[10] \in Seq(Statement)
  BY <1>1, <1>2, <1>4 DEF Migration, Migration10
<1>15. Migration[11] \in Seq(Statement)
  BY <1>1, <1>2, <1>4 DEF Migration, Migration11
<1>16. Migration[12] \in Seq(Statement)
  BY <1>1, <1>2, <1>4 DEF Migration, Migration12
<1>17. Migration[13] \in Seq(Statement)
  BY <1>1, <1>2, <1>4 DEF Migration, Migration13
<1>18. Migration[14] \in Seq(Statement)
  BY <1>1, <1>2, <1>4 DEF Migration, Migration14
<1>19. QED
  BY <1>3, <1>5, <1>6, <1>7, <1>8, <1>9, <1>10, <1>11, <1>12, <1>13, <1>14, <1>15, <1>16,
     <1>17, <1>18 DEF SchemaVersion

(* Those of the first two, one by one.                                     *)
LEMMA EarlyStatements ==
    /\ Len(Migration[1]) = 4 /\ DOMAIN Migration[1] = 1..4
    /\ Migration[1][1] = Create("contracts") /\ Migration[1][2] = Create("contract_embeddings")
    /\ Migration[1][3] = Create("test_history") /\ Migration[1][4] = Index("test_history")
    /\ Len(Migration[2]) = 7 /\ DOMAIN Migration[2] = 1..7
    /\ Migration[2][1] = Drop("test_history") /\ Migration[2][2] = Drop("contract_embeddings")
    /\ Migration[2][3] = Drop("contracts") /\ Migration[2][4] = Create("blocks")
    /\ Migration[2][5] = Create("contract_embeddings")
    /\ Migration[2][6] = Create("test_history") /\ Migration[2][7] = Index("test_history")
BY DEF Migration, Migration1, Migration2

(* The later ones only add, and leave the early tables alone.              *)
LEMMA LateStatements ==
    ASSUME NEW m \in 3..SchemaVersion, NEW i \in DOMAIN Migration[m]
    PROVE  /\ Migration[m][i].do \in {"create", "column"}
           /\ Migration[m][i].on \notin Early
<1>1. CASE m \in 3..6
  BY <1>1 DEF Migration, Migration3, Migration4, Migration5, Migration6, Create, Column, Early
<1>2. CASE m \in 7..10
  BY <1>2 DEF Migration, Migration7, Migration8, Migration9, Migration10, Create, Column, Early
<1>3. CASE m \in 11..14
  BY <1>3 DEF Migration, Migration11, Migration12, Migration13, Migration14, Create, Column, Early
<1>4. QED
  BY <1>1, <1>2, <1>3 DEF SchemaVersion

(* Every object but one is created by migration 2 or a later one.          *)
LEMMA EverythingIsCreated ==
    /\ "contracts" \in Object /\ \A m \in 2..SchemaVersion : "contracts" \notin Creates[m]
    /\ \A o \in Object : o # "contracts" => \E m \in 2..SchemaVersion : o \in Creates[m]
<1>1. \A m \in 1..SchemaVersion, o \in Object :
        o \in Creates[m] <=> \E i \in DOMAIN Migration[m] : Migration[m][i] \in {Create(o), Column(o)}
  BY MigrationTyped DEF Creates
<1> DEFINE At(m, i, s) == i \in DOMAIN Migration[m] /\ Migration[m][i] = s
<1>2. ASSUME NEW m \in 1..SchemaVersion, NEW o \in Object, NEW i,
             At(m, i, Create(o)) \/ At(m, i, Column(o))
      PROVE  o \in Creates[m]
  BY <1>1, <1>2
<1>3. /\ At(2, 4, Create("blocks")) /\ At(2, 5, Create("contract_embeddings"))
      /\ At(2, 6, Create("test_history"))
  BY EarlyStatements
<1>4. /\ At(3, 1, Column("canonical_ast_hash")) /\ At(4, 1, Column("parent_block_root"))
      /\ At(5, 1, Create("block_artifacts"))
  BY DEF Migration, Migration3, Migration4, Migration5
<1>5. /\ At(6, 1, Column("foreign_columns")) /\ At(6, 2, Create("block_foreign_refs"))
      /\ At(7, 1, Column("source_columns")) /\ At(7, 2, Create("workspace_plumbing"))
  BY DEF Migration, Migration6, Migration7
<1>6. /\ At(8, 1, Create("source_file_glue")) /\ At(9, 1, Create("block_occurrences"))
      /\ At(10, 1, Create("source_file_state"))
  BY DEF Migration, Migration8, Migration9, Migration10
<1>7. /\ At(11, 1, Create("registry_meta")) /\ At(12, 1, Column("submitted_at"))
      /\ At(13, 1, Create("proof_market_tables")) /\ At(14, 1, Create("proof_retractions"))
  BY DEF Migration, Migration11, Migration12, Migration13, Migration14
<1>8. {m \in 1..SchemaVersion : m >= 2} = 2..SchemaVersion /\ SchemaVersion = 14
  BY DEF SchemaVersion
<1> HIDE DEF At
<1>9. ASSUME NEW o \in Object, o # "contracts"
      PROVE  \E m \in 2..SchemaVersion : o \in Creates[m]
  <2>1. \/ o \in {"blocks", "contract_embeddings", "test_history"}
        \/ o \in {"canonical_ast_hash", "parent_block_root", "block_artifacts"}
        \/ o \in {"foreign_columns", "block_foreign_refs", "source_columns",
                   "workspace_plumbing"}
        \/ o \in {"source_file_glue", "block_occurrences", "source_file_state"}
        \/ o \in {"registry_meta", "submitted_at", "proof_market_tables", "proof_retractions"}
    BY <1>9 DEF Object
  <2>2. /\ \A m \in 2..14 : m \in 2..SchemaVersion /\ m \in 1..SchemaVersion
        /\ {2, 3, 4, 5, 6, 7, 8, 9, 10, 11, 12, 13, 14} \subseteq 2..14
    BY <1>8
  <2>3. \E m \in 2..14, i \in 1..6 : At(m, i, Create(o)) \/ At(m, i, Column(o))
    <3>1. CASE o \in {"blocks", "contract_embeddings", "test_history"}
      BY <1>3, <3>1
    <3>2. CASE o \in {"canonical_ast_hash", "parent_block_root", "block_artifacts"}
      BY <1>4, <3>2
    <3>3. CASE o \in {"foreign_columns", "block_foreign_refs", "source_columns",
                      "workspace_plumbing"}
      BY <1>5, <3>3
    <3>4. CASE o \in {"source_file_glue", "block_occurrences", "source_file_state"}
      BY <1>6, <3>4
    <3>5. CASE o \in {"registry_meta", "submitted_at", "proof_market_tables",
                      "proof_retractions"}
      BY <1>7, <3>5
    <3>6. QED
      BY <2>1, <3>1, <3>2, <3>3, <3>4, <3>5
  <2>4. QED
    BY <1>2, <2>2, <2>3
<1>10. ASSUME NEW m \in 2..SchemaVersion PROVE "contracts" \notin Creates[m]
  <2>1. CASE m = 2
    <3>1. \A i \in DOMAIN Migration[2] : Migration[2][i] \notin {Create("contracts"), Column("contracts")}
      BY EarlyStatements DEF Create, Column, Drop, Index
    <3>2. QED
      BY <2>1, <3>1, <1>1, <1>8 DEF Object
  <2>2. CASE m # 2
    <3>1. m \in 3..SchemaVersion /\ m \in 1..SchemaVersion
      BY <1>8, <2>2
    <3>2. \A i \in DOMAIN Migration[m] : Migration[m][i] \notin {Create("contracts"), Column("contracts")}
      BY <3>1, LateStatements DEF Create, Column, Early
    <3>3. QED
      BY <1>1, <3>1, <3>2 DEF Object
  <2>3. QED
    BY <2>1, <2>2
<1>11. QED
  BY <1>9, <1>10 DEF Object

-----------------------------------------------------------------------------
(* A statement keeps every lasting object, and adds the one it creates.    *)
LEMMA StatementKeeps ==
    ASSUME TypeOK, NEW m \in 1..SchemaVersion, NEW i \in DOMAIN Migration[m]
    PROVE  LET s == Migration[m][i] IN
           /\ s.on \in Object /\ ShapeAfter(s, m) \in 0..2
           /\ s.on \in Lasting /\ tables[s.on] # 0 => ShapeAfter(s, m) # 0
           /\ \A o \in Lasting : Adds(s, o) => s.on = o /\ ShapeAfter(s, m) # 0
<1> DEFINE s == Migration[m][i]
<1>1. s \in Statement
  BY MigrationTyped
<1>2. s.on \in Object /\ s = [do |-> s.do, on |-> s.on]
  BY <1>1 DEF Statement
<1>3. tables[s.on] \in 0..2 /\ Shape(m) \in 1..2
  BY <1>2 DEF TypeOK, Shape
<1>4. ShapeAfter(s, m) \in 0..2
  BY <1>3 DEF ShapeAfter
<1>5. ASSUME s.on \in Lasting, tables[s.on] # 0 PROVE ShapeAfter(s, m) # 0
  <2>1. s # Drop(s.on)
    BY <1>5, MigrationTyped DEF Lasting
  <2>2. s.do # "drop"
    BY <2>1, <1>2 DEF Drop
  <2>3. QED
    BY <2>2, <1>3, <1>5 DEF ShapeAfter
<1>6. ASSUME NEW o \in Lasting, Adds(s, o) PROVE s.on = o /\ ShapeAfter(s, m) # 0
  <2>1. s.on = o /\ s.do \in {"create", "column"}
    BY <1>6 DEF Adds, Create, Column
  <2>2. QED
    BY <2>1, <1>3 DEF ShapeAfter
<1>7. QED
  BY <1>2, <1>4, <1>5, <1>6

(* The invariant holds at first: whatever a version has was created.       *)
LEMMA InitShape ==
    ASSUME NEW v \in 0..SchemaVersion, NEW m \in 1..v, NEW o \in Creates[m] \cap Lasting
    PROVE  ShapeAt(o, v) # 0
<1>1. m \in 1..SchemaVersion /\ 2 \in 1..SchemaVersion
  BY DEF SchemaVersion
<1>2. o \notin {"contracts", "contract_embeddings", "test_history"}
  <2>1. /\ Migration[2][1] = Drop("test_history") /\ 1 \in DOMAIN Migration[2]
        /\ Migration[2][2] = Drop("contract_embeddings") /\ 2 \in DOMAIN Migration[2]
        /\ Migration[2][3] = Drop("contracts") /\ 3 \in DOMAIN Migration[2]
    BY DEF Migration, Migration2
  <2>2. QED
    BY <2>1, <1>1, MigrationTyped DEF Lasting
<1>3. CASE m >= 2
  BY <1>2, <1>3 DEF ShapeAt
<1>4. CASE m = 1
  <2>1. PICK i \in DOMAIN Migration[1] : Migration[1][i] \in {Create(o), Column(o)}
    BY <1>1, <1>4, MigrationTyped DEF Creates
  <2>2. /\ DOMAIN Migration[1] = 1..4
        /\ Migration[1][1].on = "contracts" /\ Migration[1][2].on = "contract_embeddings"
        /\ Migration[1][3].on = "test_history" /\ Migration[1][4].on = "test_history"
    BY DEF Migration, Migration1, Create, Index
  <2>3. Migration[1][i].on = o
    BY <2>1 DEF Create, Column
  <2>4. QED
    BY <2>1, <2>2, <2>3, <1>2
<1>5. QED
  BY <1>3, <1>4

(* The early tables at first, as the version has them.                     *)
LEMMA InitEarly ==
    ASSUME NEW v \in 0..SchemaVersion
    PROVE  /\ \A o \in Object \ Early : ShapeAt(o, v) # 1
           /\ v = 0 => ShapeAt("test_history", v) # 2
           /\ v >= 2 => /\ ShapeAt("contracts", v) = 0
                       /\ ShapeAt("contract_embeddings", v) = 2
                       /\ ShapeAt("test_history", v) = 2
<1>1. 1 \in DOMAIN Migration /\ 2 \in DOMAIN Migration
  BY MigrationTyped DEF SchemaVersion
<1>2. ASSUME NEW o \in Creates[1] PROVE o \in Early
  <2>1. PICK i \in DOMAIN Migration[1] : Migration[1][i] \in {Create(o), Column(o)}
    BY <1>1 DEF Creates
  <2>2. QED
    BY <2>1, EarlyStatements DEF Create, Column, Index, Early
<1>3. "contract_embeddings" \in Creates[2] /\ "test_history" \in Creates[2]
  BY <1>1, EarlyStatements DEF Creates, Object
<1>4. ASSUME NEW o \in Object \ Early PROVE ShapeAt(o, v) # 1
  BY <1>2, <1>4 DEF ShapeAt, Early
<1>5. ASSUME v = 0 PROVE ShapeAt("test_history", v) # 2
  BY <1>5 DEF ShapeAt
<1>6. ASSUME v >= 2
      PROVE  /\ ShapeAt("contracts", v) = 0
             /\ ShapeAt("contract_embeddings", v) = 2 /\ ShapeAt("test_history", v) = 2
  <2>1. \E m \in 2..v : "contract_embeddings" \in Creates[m] /\ "test_history" \in Creates[m]
    BY <1>3, <1>6
  <2>2. /\ ShapeAt("contract_embeddings", v) = 2 /\ ShapeAt("test_history", v) = 2
    BY <2>1 DEF ShapeAt
  <2>3. v # 1
    BY <1>6
  <2>4. \A m \in 2..v : "contracts" \notin Creates[m]
    <3>1. \A m \in 2..v : m \in 2..SchemaVersion
      BY DEF SchemaVersion
    <3>2. QED
      BY <3>1, EverythingIsCreated
  <2>5. ShapeAt("contracts", v) = 0
    BY <2>3, <2>4 DEF ShapeAt
  <2>6. QED
    BY <2>2, <2>5
<1>7. QED
  BY <1>4, <1>5, <1>6

LEMMA InitIInv == Init => IInv
<1> SUFFICES ASSUME Init PROVE IInv
  OBVIOUS
<1>1. version \in 0..SchemaVersion
  BY MigrationsAssumption DEF Init
<1>2. TypeOK
  <2>1. tables \in [Object -> 0..2]
    <3>1. \A o \in Object : ShapeAt(o, version) \in 0..2
      BY DEF ShapeAt
    <3>2. QED
      BY <3>1 DEF Init
  <2>2. QED
    <3>1. stored \subseteq Block /\ unhashed \subseteq stored /\ vectors \subseteq stored
      BY MigrationsAssumption DEF Init
    <3>2. /\ wasOld \in [Process -> BOOLEAN] /\ mig \in [Process -> 1..SchemaVersion + 1]
          /\ stmt \in [Process -> Nat \ {0}] /\ todo \in [Process -> SUBSET Block]
      BY DEF Init, SchemaVersion
    <3>3. QED
      BY <1>1, <2>1, <3>1, <3>2 DEF Init, TypeOK
<1>3. VersionTells
  BY <1>1, InitShape DEF Init, VersionTells, Lasting
<1>4. OpenerBackfills /\ Progress /\ AllThere /\ Found
  BY DEF Init, OpenerBackfills, Progress, AllThere, Found
<1>5. LateShapes /\ EarlyShapes
  BY <1>1, InitEarly DEF Init, LateShapes, EarlyShapes, Redone, Low, Object
<1>6. OneLow /\ NoFailure /\ Owed /\ StaySearchable
  BY <1>1 DEF Init, OneLow, NoFailure, Owed, StaySearchable, Low
<1>7. QED
  BY <1>2, <1>3, <1>4, <1>5, <1>6 DEF IInv

-----------------------------------------------------------------------------
(* Where a process goes once it has nothing left to migrate.               *)
LEMMA MigratedGoes ==
    ASSUME TypeOK, NEW p \in Process, Migrated(p)
    PROVE  /\ stage' = [stage EXCEPT ![p] = IF NeedsBackfill(p) THEN "searching" ELSE "open"]
           /\ stage'[p] \in {"searching", "open"}
           /\ stage'[p] = "open" => ~NeedsBackfill(p)
BY DEF Migrated, Goto, TypeOK

(* What is read once and then executed is a migration.                     *)
LEMMA StatementTyped ==
    ASSUME TypeOK, NEW p \in Process, stage[p] = "migrating", mig[p] \in 1..SchemaVersion,
           stmt[p] <= Len(Migration[mig[p]])
    PROVE  stmt[p] \in DOMAIN Migration[mig[p]]
<1>1. Migration[mig[p]] \in Seq(Statement) /\ stmt[p] \in Nat \ {0}
  BY MigrationTyped DEF TypeOK
<1>2. QED
  BY <1>1

LEMMA TypeStep ==
    ASSUME TypeOK, Progress, [Next]_vars
    PROVE  TypeOK'
<1>1. CASE UNCHANGED vars
  BY <1>1 DEF TypeOK, vars, database, opening
<1>2. ASSUME NEW p \in Process, Connect(p) PROVE TypeOK'
  BY <1>2, MigrationsAssumption DEF TypeOK, Connect, Goto, database
<1>3. ASSUME NEW p \in Process, ReadCurrent(p) PROVE TypeOK'
  <2>1. FirstToRun(version) \in 1..SchemaVersion + 1
    BY DEF TypeOK, FirstToRun, SchemaVersion
  <2>2. stage' \in [Process -> {"closed", "connected", "migrating", "searching", "filling",
                                 "open", "failed"}]
    BY <1>3, MigratedGoes DEF TypeOK, ReadCurrent, Goto
  <2>3. mig' \in [Process -> 1..SchemaVersion + 1] /\ stmt' \in [Process -> Nat \ {0}]
    BY <1>3, <2>1 DEF TypeOK, ReadCurrent
  <2>4. raced' \in BOOLEAN
    BY <1>3 DEF ReadCurrent
  <2>5. QED
    BY <1>3, <2>2, <2>3, <2>4 DEF TypeOK, ReadCurrent, database
<1>4. ASSUME NEW p \in Process, Execute(p) PROVE TypeOK'
  <2> DEFINE s == Migration[mig[p]][stmt[p]]
  <2>1. mig[p] \in 1..SchemaVersion /\ stmt[p] \in DOMAIN Migration[mig[p]]
    BY <1>4, StatementTyped DEF Execute, Progress
  <2>2. s.on \in Object /\ ShapeAfter(s, mig[p]) \in 0..2
    BY <2>1, StatementKeeps
  <2>3. /\ UNCHANGED <<version, stored, unhashed, caller, wasOld, mig, todo, raced>>
        /\ \/ /\ Goto(p, "failed") /\ abandoned' = (abandoned \/ GivesUp(p))
              /\ UNCHANGED <<tables, vectors, stmt>>
           \/ /\ tables' = [tables EXCEPT ![s.on] = ShapeAfter(s, mig[p])]
              /\ vectors' = IF s = Drop("contract_embeddings") THEN {} ELSE vectors
              /\ stmt' = [stmt EXCEPT ![p] = @ + 1]
              /\ UNCHANGED <<stage, abandoned>>
    BY <1>4 DEF Execute
  <2> HIDE DEF s
  <2>4. tables' \in [Object -> 0..2] /\ stmt' \in [Process -> Nat \ {0}]
    BY <2>2, <2>3 DEF TypeOK
  <2>5. vectors' \subseteq stored' /\ abandoned' \in BOOLEAN
    BY <2>3 DEF TypeOK, GivesUp
  <2>6. QED
    BY <2>3, <2>4, <2>5 DEF TypeOK, Goto
<1>5. ASSUME NEW p \in Process, EndMigration(p) PROVE TypeOK'
  <2>1. mig[p] \in 1..SchemaVersion
    BY <1>5 DEF EndMigration, Progress
  <2>2. version' \in 0..SchemaVersion /\ mig' \in [Process -> 1..SchemaVersion + 1]
    BY <1>5, <2>1, SMTT(30) DEF EndMigration, TypeOK, VersionAfter, SchemaVersion
  <2>3. stmt' \in [Process -> Nat \ {0}] /\ abandoned' \in BOOLEAN
    BY <1>5 DEF EndMigration, TypeOK
  <2>4. stage' \in [Process -> {"closed", "connected", "migrating", "searching", "filling",
                                 "open", "failed"}]
    BY <1>5, MigratedGoes DEF TypeOK, EndMigration
  <2>5. QED
    BY <1>5, <2>2, <2>3, <2>4 DEF EndMigration, TypeOK
<1>6. ASSUME NEW p \in Process, Search(p) PROVE TypeOK'
  BY <1>6 DEF TypeOK, Search, Goto, database
<1>7. ASSUME NEW p \in Process, Fill(p) PROVE TypeOK'
  BY <1>7 DEF TypeOK, Fill, Goto, SchemaVersion
<1>8. ASSUME NEW p \in Process, NEW b \in Block, StoreBlock(p, b) PROVE TypeOK'
  BY <1>8 DEF TypeOK, StoreBlock, opening
<1>9. ASSUME NEW p \in Process, Close(p) PROVE TypeOK'
  BY <1>9 DEF TypeOK, Close, Goto, database, GivesUp, SchemaVersion
<1>10. QED
  BY <1>1, <1>2, <1>3, <1>4, <1>5, <1>6, <1>7, <1>8, <1>9 DEF Next

-----------------------------------------------------------------------------
(* No step takes a lasting object away.                                    *)
LEMMA KeepsObjects ==
    ASSUME IInv, [Next]_vars, NEW o \in Lasting, tables[o] # 0
    PROVE  tables'[o] # 0
<1>1. CASE tables' = tables
  BY <1>1
<1>2. ASSUME NEW p \in Process, Execute(p), tables' # tables PROVE tables'[o] # 0
  <2> DEFINE s == Migration[mig[p]][stmt[p]]
  <2>1. mig[p] \in 1..SchemaVersion /\ stmt[p] \in DOMAIN Migration[mig[p]]
    BY <1>2, StatementTyped DEF IInv, Execute, Progress
  <2>2. s.on \in Lasting /\ tables[s.on] # 0 => ShapeAfter(s, mig[p]) # 0
    BY <2>1, StatementKeeps DEF IInv
  <2>3. tables' = [tables EXCEPT ![s.on] = ShapeAfter(s, mig[p])]
    BY <1>2 DEF Execute
  <2> HIDE DEF s
  <2>4. o \in Object /\ tables \in [Object -> 0..2]
    BY DEF Lasting, IInv, TypeOK
  <2>5. QED
    BY <2>2, <2>3, <2>4
<1>3. QED
  BY <1>1, <1>2 DEF Next, vars, database, Connect, ReadCurrent, EndMigration, Search, Fill,
                    StoreBlock, Close

(* ... nor what a migration is known to have left.                         *)
LEMMA KeepsHave ==
    ASSUME IInv, [Next]_vars, NEW m, Have(m)
    PROVE  Have(m)'
BY KeepsObjects DEF Have, Creates, Lasting

LEMMA VersionStep ==
    ASSUME IInv, [Next]_vars
    PROVE  VersionTells'
<1>1. VersionTells <=> \A m \in 1..version : Have(m)
  BY DEF VersionTells, Have
<1>2. VersionTells' <=> \A m \in 1..version' : Have(m)'
  BY DEF VersionTells, Have
<1>3. CASE version' = version
  BY <1>1, <1>2, <1>3, KeepsHave DEF IInv
<1>4. ASSUME NEW p \in Process, EndMigration(p) PROVE VersionTells'
  <2>1. CASE mig[p] = 3
    BY <1>3, <1>4, <2>1 DEF EndMigration, VersionAfter
  <2>2. CASE mig[p] # 3
    <3>1. mig[p] \in 1..SchemaVersion /\ version' = mig[p] /\ stage[p] = "migrating"
      BY <1>4, <2>2 DEF EndMigration, VersionAfter, IInv, Progress
    <3>2. \A m \in 1..SchemaVersion : m < mig[p] => Have(m)
      BY <3>1 DEF IInv, Progress
    <3>3. Have(mig[p])
      <4>1. ASSUME NEW o \in Creates[mig[p]] \cap Lasting PROVE tables[o] # 0
        <5>1. PICK i \in DOMAIN Migration[mig[p]] : Adds(Migration[mig[p]][i], o)
          BY <3>1, MigrationTyped DEF Creates, Adds
        <5>2. i < stmt[p]
          <6>1. /\ stmt[p] \in Nat /\ stmt[p] > Len(Migration[mig[p]])
                /\ Migration[mig[p]] \in Seq(Statement)
            BY <1>4, <3>1, MigrationTyped DEF EndMigration, IInv, TypeOK
          <6>2. QED
            BY <6>1
        <5>3. QED
          BY <3>1, <5>1, <5>2 DEF IInv, Progress
      <4>2. QED
        BY <4>1 DEF Have
    <3>4. \A m \in 1..version' : Have(m)
      BY <3>1, <3>2, <3>3 DEF SchemaVersion
    <3>5. QED
      BY <3>4, <1>2, KeepsHave
  <2>3. QED
    BY <2>1, <2>2
<1>5. ASSUME NEW p \in Process, Fill(p) PROVE VersionTells'
  <2>1. \A m \in 1..SchemaVersion : Have(m)
    BY <1>5 DEF Fill, IInv, AllThere
  <2>2. version' = SchemaVersion
    BY <1>5 DEF Fill
  <2>3. QED
    BY <1>2, <2>1, <2>2, KeepsHave
<1>6. QED
  BY <1>3, <1>4, <1>5 DEF Next, vars, database, Connect, ReadCurrent, Execute, Search,
                          StoreBlock, Close

(* Progress is kept: a process that starts relies on the version, and one  *)
(* that goes on adds what its statement creates.                           *)
LEMMA ProgressStep ==
    ASSUME IInv, [Next]_vars
    PROVE  Progress'
<1> SUFFICES ASSUME NEW q \in Process, stage'[q] = "migrating"
             PROVE  /\ mig'[q] \in 1..SchemaVersion
                    /\ \A m \in 1..SchemaVersion : m < mig'[q] => Have(m)'
                    /\ \A i \in DOMAIN Migration[mig'[q]], o \in Lasting :
                           i < stmt'[q] /\ Adds(Migration[mig'[q]][i], o) => tables'[o] # 0
  BY DEF Progress
<1>1. CASE stage[q] = "migrating" /\ mig'[q] = mig[q] /\ stmt'[q] = stmt[q]
  BY <1>1, KeepsObjects, KeepsHave DEF IInv, Progress
<1>2. CASE ReadCurrent(q)
  <2>1. version \in 0..SchemaVersion /\ mig'[q] = version + 1 /\ stmt'[q] = 1
    BY <1>2 DEF ReadCurrent, IInv, TypeOK, FirstToRun
  <2>2. version + 1 <= SchemaVersion
    <3>1. ~ FirstToRun(version) > SchemaVersion
      BY <1>2, MigratedGoes DEF ReadCurrent, IInv
    <3>2. QED
      BY <2>1, <3>1 DEF FirstToRun, SchemaVersion
  <2>3. \A m \in 1..version : Have(m)
    BY DEF IInv, VersionTells, Have
  <2>4. mig'[q] \in 1..SchemaVersion /\ \A m \in 1..SchemaVersion : m < mig'[q] => Have(m)
    BY <2>1, <2>2, <2>3 DEF SchemaVersion
  <2>5. \A i \in DOMAIN Migration[mig'[q]] : ~ i < stmt'[q]
    <3>1. Migration[mig'[q]] \in Seq(Statement)
      BY <2>4, MigrationTyped
    <3>2. QED
      BY <3>1, <2>1
  <2>6. QED
    BY <2>4, <2>5, KeepsHave
<1>3. CASE Execute(q)
  <2> DEFINE s == Migration[mig[q]][stmt[q]]
  <2>1. stage[q] = "migrating" /\ mig' = mig
    BY <1>3 DEF Execute
  <2>2. mig[q] \in 1..SchemaVersion /\ stmt[q] \in DOMAIN Migration[mig[q]]
    BY <1>3, <2>1, StatementTyped DEF IInv, Execute, Progress
  <2>3. /\ tables' = [tables EXCEPT ![s.on] = ShapeAfter(s, mig[q])]
        /\ stmt'[q] = stmt[q] + 1
    BY <1>3 DEF Execute, Goto, IInv, TypeOK
  <2>4. \A o \in Lasting : Adds(s, o) => s.on = o /\ ShapeAfter(s, mig[q]) # 0
    BY <2>2, StatementKeeps DEF IInv
  <2>5. \A o \in Lasting : Adds(s, o) => tables'[o] # 0
    BY <2>3, <2>4 DEF IInv, TypeOK, Lasting
  <2>6. Migration[mig[q]] \in Seq(Statement) /\ stmt[q] \in Nat \ {0}
    BY <2>2, MigrationTyped DEF IInv, TypeOK
  <2>7. \A i \in DOMAIN Migration[mig[q]] : i < stmt'[q] => i < stmt[q] \/ i = stmt[q]
    BY <2>3, <2>6
  <2>8. ASSUME NEW i \in DOMAIN Migration[mig[q]], NEW o \in Lasting,
               i < stmt'[q], Adds(Migration[mig[q]][i], o)
        PROVE  tables'[o] # 0
    <3>1. CASE i = stmt[q]
      BY <3>1, <2>5, <2>8
    <3>2. CASE i < stmt[q]
      BY <3>2, <2>1, <2>8, KeepsObjects DEF IInv, Progress
    <3>3. QED
      BY <3>1, <3>2, <2>7, <2>8
  <2>9. QED
    BY <2>1, <2>2, <2>8, KeepsHave DEF IInv, Progress
<1>4. CASE EndMigration(q)
  <2>1. stage[q] = "migrating" /\ mig[q] \in 1..SchemaVersion
    BY <1>4 DEF EndMigration, IInv, Progress
  <2>2. mig[q] # SchemaVersion /\ mig'[q] = mig[q] + 1 /\ stmt'[q] = 1
    BY <1>4, MigratedGoes DEF EndMigration, IInv, TypeOK
  <2>3. mig'[q] \in 1..SchemaVersion
    BY <2>1, <2>2 DEF SchemaVersion
  <2> PICK k \in 1..SchemaVersion : k = mig[q]
    BY <2>1
  <2>4. Have(k)'
    <3>1. ASSUME NEW o \in Creates[mig[q]] \cap Lasting PROVE tables[o] # 0
      <4>1. PICK i \in DOMAIN Migration[mig[q]] : Adds(Migration[mig[q]][i], o)
        BY <2>1, MigrationTyped DEF Creates, Adds
      <4>2. i < stmt[q]
        <5>1. /\ stmt[q] \in Nat /\ stmt[q] > Len(Migration[mig[q]])
              /\ Migration[mig[q]] \in Seq(Statement)
          BY <1>4, <2>1, MigrationTyped DEF EndMigration, IInv, TypeOK
        <5>2. QED
          BY <5>1
      <4>3. QED
        BY <2>1, <4>1, <4>2 DEF IInv, Progress
    <3>2. Have(k)
      BY <3>1 DEF Have
    <3>3. QED
      BY <3>2, KeepsHave
  <2>5. \A m \in 1..SchemaVersion : m < mig[q] => Have(m)'
    BY <2>1, KeepsHave DEF IInv, Progress
  <2>6. \A m \in 1..SchemaVersion : m < mig'[q] => Have(m)'
    <3>1. \A m \in 1..SchemaVersion : m < mig'[q] => m < mig[q] \/ m = k
      BY <2>1, <2>2 DEF SchemaVersion
    <3>2. QED
      BY <3>1, <2>4, <2>5
  <2>7. \A i \in DOMAIN Migration[mig'[q]] : ~ i < stmt'[q]
    <3>1. Migration[mig'[q]] \in Seq(Statement)
      BY <2>3, MigrationTyped
    <3>2. QED
      BY <3>1, <2>2
  <2>8. QED
    BY <2>3, <2>6, <2>7
<1>5. QED
  <2>1. CASE UNCHANGED vars
    BY <1>1, <2>1 DEF vars, opening
  <2>2. ASSUME NEW p \in Process, \/ Connect(p) \/ Search(p) \/ Fill(p) \/ Close(p)
               \/ \E b \in Block : StoreBlock(p, b)
        PROVE  stage[q] = "migrating" /\ mig'[q] = mig[q] /\ stmt'[q] = stmt[q]
    BY <2>2 DEF IInv, TypeOK, Connect, Search, Fill, Close, StoreBlock, Goto, opening
  <2>3. ASSUME NEW p \in Process, p # q, ReadCurrent(p) \/ Execute(p) \/ EndMigration(p)
        PROVE  stage[q] = "migrating" /\ mig'[q] = mig[q] /\ stmt'[q] = stmt[q]
    BY <2>3 DEF IInv, TypeOK, ReadCurrent, Execute, EndMigration, Goto, Migrated
  <2>4. QED
    BY <1>1, <1>2, <1>3, <1>4, <2>1, <2>2, <2>3 DEF Next

(* Whoever is through has seen the last migration, or that it was done.    *)
LEMMA AllThereStep ==
    ASSUME IInv, [Next]_vars
    PROVE  AllThere'
<1> SUFFICES ASSUME NEW q \in Process, stage'[q] \in {"searching", "filling", "open"}
             PROVE  \A m \in 1..SchemaVersion : Have(m)'
  BY DEF AllThere
<1>1. CASE stage[q] \in {"searching", "filling", "open"}
  BY <1>1, KeepsHave DEF IInv, AllThere
<1>2. CASE version' = SchemaVersion
  BY <1>2, VersionStep DEF VersionTells, Have
<1>3. ASSUME NEW p \in Process, ReadCurrent(p) PROVE stage'[q] = stage[q] \/ version' = SchemaVersion
  <2>1. CASE FirstToRun(version) > SchemaVersion
    BY <1>3, <2>1 DEF ReadCurrent, database, IInv, TypeOK, FirstToRun, SchemaVersion
  <2>2. CASE ~ FirstToRun(version) > SchemaVersion
    BY <1>3, <2>2 DEF ReadCurrent, Goto, IInv, TypeOK
  <2>3. QED
    BY <2>1, <2>2
<1>4. ASSUME NEW p \in Process, EndMigration(p) PROVE stage'[q] = stage[q] \/ version' = SchemaVersion
  <2>1. CASE mig[p] = SchemaVersion
    BY <1>4, <2>1 DEF EndMigration, VersionAfter, SchemaVersion
  <2>2. CASE mig[p] # SchemaVersion
    BY <1>4, <2>2 DEF EndMigration
  <2>3. QED
    BY <2>1, <2>2
<1>5. ASSUME NEW p \in Process, \/ Connect(p) \/ Execute(p) \/ Search(p) \/ Fill(p) \/ Close(p)
             \/ \E b \in Block : StoreBlock(p, b)
      PROVE  stage[q] \in {"searching", "filling", "open"}
  BY <1>5 DEF Connect, Execute, Search, Fill, Close, StoreBlock, Goto, opening, IInv, TypeOK
<1>6. CASE UNCHANGED vars
  BY <1>1, <1>6 DEF vars, opening
<1>7. QED
  BY <1>1, <1>2, <1>3, <1>4, <1>5, <1>6 DEF Next

(* The hashes that are missing only become fewer, what a backfill has read *)
(* is what it fills in, and only a fill opens what needed one.             *)
LEMMA BackfillStep ==
    ASSUME IInv, [Next]_vars
    PROVE  Found' /\ OpenerBackfills'
<1>1. unhashed' \subseteq unhashed
  BY DEF Next, vars, database, Connect, ReadCurrent, Execute, EndMigration, Search, Fill,
         StoreBlock, Close
<1>2. ASSUME NEW q \in Process, stage'[q] = "filling" PROVE unhashed' \subseteq todo'[q]
  <2>1. CASE stage[q] = "filling" /\ todo'[q] = todo[q]
    BY <1>1, <2>1 DEF IInv, Found
  <2>2. CASE Search(q)
    BY <1>1, <2>2 DEF Search, IInv, TypeOK
  <2>3. ASSUME NEW p \in Process, p # q, Search(p) \/ Fill(p) \/ Close(p)
        PROVE  stage[q] = "filling" /\ todo'[q] = todo[q]
    BY <1>2, <2>3 DEF Search, Fill, Close, Goto, IInv, TypeOK
  <2>4. CASE Fill(q) \/ Close(q)
    BY <1>2, <2>4 DEF Fill, Close, Goto, IInv, TypeOK
  <2>5. ASSUME NEW p \in Process, \/ Connect(p) \/ Execute(p)
               \/ \E b \in Block : StoreBlock(p, b)
        PROVE  stage[q] = "filling" /\ todo'[q] = todo[q]
    BY <1>2, <2>5 DEF Connect, Execute, StoreBlock, Goto, opening, IInv, TypeOK
  <2>6. ASSUME NEW p \in Process, ReadCurrent(p) \/ EndMigration(p)
        PROVE  stage[q] = "filling" /\ todo'[q] = todo[q]
    BY <1>2, <2>6 DEF ReadCurrent, EndMigration, Migrated, Goto, IInv, TypeOK
  <2>7. CASE UNCHANGED vars
    BY <1>2, <2>1, <2>7 DEF vars, opening
  <2>8. QED
    BY <2>1, <2>2, <2>3, <2>4, <2>5, <2>6, <2>7 DEF Next
<1>3. ASSUME NEW q \in Process, stage'[q] = "open", NeedsBackfill(q)' PROVE unhashed' = {}
  <2>1. CASE stage[q] = "open" /\ NeedsBackfill(q)
    BY <1>1, <2>1 DEF IInv, OpenerBackfills
  <2>2. CASE Fill(q)
    BY <2>2 DEF Fill, IInv, Found
  <2>3. CASE Connect(q) \/ Close(q)
    BY <1>3, <2>3 DEF Connect, Close, Goto, IInv, TypeOK
  <2>4. CASE ReadCurrent(q) \/ EndMigration(q)
    <3>1. NeedsBackfill(q)
      BY <1>3, <2>4 DEF ReadCurrent, EndMigration, NeedsBackfill
    <3>2. ~ Migrated(q)
      BY <1>3, <3>1, MigratedGoes DEF IInv
    <3>3. stage[q] = "open"
      BY <1>3, <2>4, <3>2 DEF ReadCurrent, EndMigration, Goto, IInv, TypeOK
    <3>4. QED
      BY <2>1, <3>1, <3>3
  <2>5. ASSUME NEW p \in Process, p # q, \/ Connect(p) \/ Close(p) \/ Fill(p)
                   \/ ReadCurrent(p) \/ EndMigration(p)
        PROVE  stage[q] = "open" /\ NeedsBackfill(q)
    BY <1>3, <2>5 DEF Connect, Close, Fill, ReadCurrent, EndMigration, Migrated, Goto,
                      NeedsBackfill, IInv, TypeOK
  <2>6. ASSUME NEW p \in Process, \/ Execute(p) \/ Search(p)
               \/ \E b \in Block : StoreBlock(p, b)
        PROVE  stage[q] = "open" /\ NeedsBackfill(q)
    BY <1>3, <2>6 DEF Execute, Search, StoreBlock, Goto, NeedsBackfill, opening, IInv, TypeOK
  <2>7. CASE UNCHANGED vars
    BY <1>3, <2>1, <2>7 DEF vars, opening, NeedsBackfill
  <2>8. QED
    BY <2>1, <2>2, <2>3, <2>4, <2>5, <2>6, <2>7 DEF Next
<1>4. QED
  BY <1>2, <1>3 DEF Found, OpenerBackfills

-----------------------------------------------------------------------------
(* A process beyond migration 2 has seen version 2.                        *)
LEMMA Beyond ==
    ASSUME IInv, ~raced, NEW p \in Process, stage[p] \notin {"closed", "connected"}, ~Low(p)
    PROVE  version >= 2
BY DEF IInv, OneLow, TypeOK, SchemaVersion

(* What a process executes.                                                *)
LEMMA ExecutesWhat ==
    ASSUME IInv, NEW p \in Process, Execute(p)
    PROVE  /\ stage[p] = "migrating"
           /\ mig[p] \in 1..SchemaVersion /\ stmt[p] \in DOMAIN Migration[mig[p]]
           /\ Low(p) => mig[p] \in {1, 2}
           /\ ~Low(p) => mig[p] \in 3..SchemaVersion
<1>1. stage[p] = "migrating" /\ mig[p] \in 1..SchemaVersion /\ stmt[p] \in DOMAIN Migration[mig[p]]
  BY StatementTyped DEF IInv, Execute, Progress
<1>2. QED
  BY <1>1 DEF Low, SchemaVersion

(* No statement fails unless openings raced: the early indexes find the    *)
(* table of their own migration, the late columns find their table.        *)
LEMMA NothingFails ==
    ASSUME IInv, NEW p \in Process, Execute(p), ~raced
    PROVE  ~Fails(Migration[mig[p]][stmt[p]], mig[p])
<1> DEFINE s == Migration[mig[p]][stmt[p]]
<1>1. /\ mig[p] \in 1..SchemaVersion /\ stmt[p] \in DOMAIN Migration[mig[p]]
      /\ Low(p) => mig[p] \in {1, 2}
      /\ ~Low(p) => mig[p] \in 3..SchemaVersion
  BY ExecutesWhat
<1>2. CASE Low(p)
  <2>1. Halfway(p)
    BY <1>2 DEF IInv, EarlyShapes
  <2>2. CASE mig[p] = 1
    BY <1>1, <2>1, <2>2, EarlyStatements DEF Fails, Halfway, Shape, Create, Index
  <2>3. CASE mig[p] = 2
    BY <1>1, <2>1, <2>3, EarlyStatements DEF Fails, Halfway, Shape, Create, Drop, Index
  <2>4. QED
    BY <1>1, <1>2, <2>2, <2>3
<1>3. CASE ~Low(p)
  <2>1. s.do # "index"
    BY <1>1, <1>3, LateStatements
  <2>2. tables["blocks"] # 0
    <3>1. Have(2)
      BY <1>1, <1>3, ExecutesWhat DEF IInv, Progress, SchemaVersion
    <3>2. "blocks" \in Creates[2]
      <4>1. 2 \in DOMAIN Migration /\ 4 \in DOMAIN Migration[2]
        BY MigrationTyped, EarlyStatements DEF SchemaVersion
      <4>2. Migration[2][4] = Create("blocks") /\ "blocks" \in Object
        BY EarlyStatements DEF Object
      <4>3. QED
        BY <4>1, <4>2 DEF Creates
    <3>3. "blocks" \in Lasting
      <4>1. ASSUME NEW m \in 1..SchemaVersion, NEW i \in DOMAIN Migration[m]
            PROVE  Migration[m][i] # Drop("blocks")
        <5>1. CASE m \in {1, 2}
          BY <5>1, EarlyStatements DEF Create, Drop, Index
        <5>2. CASE m \in 3..SchemaVersion
          BY <5>2, LateStatements DEF Drop
        <5>3. QED
          BY <5>1, <5>2 DEF SchemaVersion
      <4>2. QED
        BY <4>1, MigrationTyped DEF Lasting, Object
    <3>4. QED
      BY <3>1, <3>2, <3>3 DEF Have
  <2>3. QED
    BY <2>1, <2>2 DEF Fails
<1>4. QED
  BY <1>2, <1>3

(* ... so that an execution changes one table and goes on.                 *)
LEMMA Executed ==
    ASSUME IInv, NEW p \in Process, Execute(p), ~raced
    PROVE  LET s == Migration[mig[p]][stmt[p]] IN
           /\ tables' = [tables EXCEPT ![s.on] = ShapeAfter(s, mig[p])]
           /\ vectors' = IF s = Drop("contract_embeddings") THEN {} ELSE vectors
           /\ stmt' = [stmt EXCEPT ![p] = @ + 1]
           /\ UNCHANGED <<version, stored, unhashed, stage, caller, wasOld, mig, todo, raced,
                          abandoned>>
BY NothingFails DEF Execute

LEMMA RacedStays ==
    ASSUME IInv, [Next]_vars, ~raced'
    PROVE  ~raced
BY DEF Next, vars, database, Connect, ReadCurrent, Execute, EndMigration, Search, Fill,
       StoreBlock, Close, IInv, TypeOK

(* An opening enters migrations 1 and 2 alone, and only it moves the       *)
(* version while it is there.                                              *)
LEMMA OneLowStep ==
    ASSUME IInv, [Next]_vars
    PROVE  OneLow' /\ NoFailure'
<1> SUFFICES ASSUME ~raced' PROVE OneLow' /\ NoFailure'
  BY DEF OneLow, NoFailure
<1>0. ~raced
  BY RacedStays
<1>1. /\ \A p \in Process : stage[p] # "failed"
      /\ \A p \in Process : Low(p) => version = mig[p] - 1 /\ version < 2
      /\ \A p, q \in Process : Low(p) /\ Low(q) => p = q
      /\ version < 2 => /\ stored = {}
                        /\ \A p \in Process : stage[p] \in {"closed", "connected"} \/ Low(p)
      /\ version \in 0..SchemaVersion /\ \A p \in Process : mig[p] \in 1..SchemaVersion + 1
  BY <1>0 DEF IInv, OneLow, NoFailure, TypeOK, Low, SchemaVersion
<1>2. ASSUME UNCHANGED <<version, stored, mig>>,
             \A q \in Process : \/ stage'[q] = stage[q]
                                \/ stage'[q] \in {"closed", "connected"}
                                \/ stage'[q] # "migrating" /\ stage'[q] # "failed" /\ version >= 2
      PROVE  OneLow' /\ NoFailure'
  BY <1>1, <1>2 DEF OneLow, NoFailure, Low
<1>3. ASSUME NEW p \in Process, Connect(p) PROVE OneLow' /\ NoFailure'
  BY <1>2, <1>3 DEF Connect, Goto, database, IInv, TypeOK
<1>4. ASSUME NEW p \in Process, ReadCurrent(p) PROVE OneLow' /\ NoFailure'
  <2>1. /\ mig' = [mig EXCEPT ![p] = version + 1] /\ UNCHANGED <<version, stored>>
        /\ \A q \in Process : q # p => stage'[q] = stage[q] /\ mig'[q] = mig[q]
        /\ mig'[p] = version + 1
    BY <1>4 DEF ReadCurrent, FirstToRun, Migrated, Goto, database, IInv, TypeOK
  <2>2. CASE version < 2
    <3>1. stage'[p] = "migrating"
      BY <1>4, <2>2 DEF ReadCurrent, FirstToRun, Goto, IInv, TypeOK, SchemaVersion
    <3>2. \A q \in Process : q # p => ~Low(q)
      BY <1>4, <2>2 DEF ReadCurrent, Low
    <3>3. QED
      BY <1>1, <2>1, <2>2, <3>1, <3>2 DEF OneLow, NoFailure, Low
  <2>3. CASE version >= 2
    <3>1. stage'[p] \in {"migrating", "searching", "open"}
      BY <1>4, MigratedGoes DEF ReadCurrent, Goto, IInv, TypeOK
    <3>2. \A q \in Process : ~Low(q)'
      BY <1>1, <2>1, <2>3 DEF Low
    <3>3. QED
      BY <1>1, <2>1, <2>3, <3>1, <3>2 DEF OneLow, NoFailure
  <2>4. QED
    BY <1>1, <2>2, <2>3 DEF SchemaVersion
<1>5. ASSUME NEW p \in Process, Execute(p) PROVE OneLow' /\ NoFailure'
  BY <1>0, <1>2, <1>5, Executed
<1>6. ASSUME NEW p \in Process, EndMigration(p) PROVE OneLow' /\ NoFailure'
  <2>1. /\ stage[p] = "migrating" /\ mig[p] \in 1..SchemaVersion
        /\ version' = (IF mig[p] = 3 THEN version ELSE mig[p]) /\ stored' = stored
        /\ mig'[p] = mig[p] + 1
        /\ \A q \in Process : q # p => mig'[q] = mig[q] /\ stage'[q] = stage[q]
    BY <1>6 DEF EndMigration, VersionAfter, Migrated, Goto, IInv, TypeOK, Progress
  <2>2. stage'[p] \in {"migrating", "searching", "open"}
    BY <1>6, MigratedGoes DEF EndMigration, IInv, TypeOK
  <2>3. CASE mig[p] = 1
    <3>1. Low(p) /\ version' = 1 /\ mig'[p] = 2 /\ stage'[p] = "migrating"
      BY <1>6, <2>1, <2>3 DEF Low, EndMigration, SchemaVersion
    <3>2. \A q \in Process : q # p => ~Low(q) /\ stage'[q] \in {"closed", "connected"}
      BY <1>1, <2>1, <3>1
    <3>3. QED
      BY <1>1, <2>1, <3>1, <3>2 DEF OneLow, NoFailure, Low
  <2>4. CASE mig[p] # 1
    <3>1. version' >= 2 /\ ~Low(p)'
      <4>1. mig[p] = 3 => version >= 2
        BY <1>0, <2>1, Beyond DEF Low
      <4>2. QED
        BY <1>1, <2>1, <2>4, <4>1 DEF Low, SchemaVersion
    <3>2. \A q \in Process : q # p => ~Low(q)
      <4>1. CASE Low(p)
        BY <1>1, <4>1
      <4>2. CASE ~Low(p)
        BY <1>1, <2>1, <4>2
      <4>3. QED
        BY <4>1, <4>2
    <3>3. \A q \in Process : ~Low(q)'
      BY <2>1, <3>1, <3>2 DEF Low
    <3>4. QED
      BY <1>1, <2>1, <2>2, <3>1, <3>3 DEF OneLow, NoFailure, SchemaVersion
  <2>5. QED
    BY <2>3, <2>4
<1>7. ASSUME NEW p \in Process, Search(p) \/ Close(p) PROVE OneLow' /\ NoFailure'
  <2>1. CASE Search(p)
    <3>1. version >= 2
      BY <1>0, <2>1, Beyond DEF Search, Low
    <3>2. QED
      BY <1>2, <2>1, <3>1 DEF Search, Goto, database, IInv, TypeOK
  <2>2. CASE Close(p)
    BY <1>1, <2>2 DEF Close, Goto, database, OneLow, NoFailure, Low, IInv, TypeOK
  <2>3. QED
    BY <1>7, <2>1, <2>2
<1>8. ASSUME NEW p \in Process, Fill(p) PROVE OneLow' /\ NoFailure'
  <2>1. version >= 2 /\ version' >= 2
    BY <1>0, <1>8, Beyond DEF Fill, Low, SchemaVersion
  <2>2. \A q \in Process : ~Low(q)' /\ stage'[q] # "failed"
    BY <1>1, <1>8, <2>1 DEF Fill, Low, Goto, IInv, TypeOK
  <2>3. ~(version' < 2)
    BY <1>8 DEF Fill, SchemaVersion
  <2>4. QED
    BY <2>2, <2>3 DEF OneLow, NoFailure
<1>9. ASSUME NEW p \in Process, NEW b \in Block, StoreBlock(p, b) PROVE OneLow' /\ NoFailure'
  <2>1. version >= 2 /\ UNCHANGED <<version, stage, mig>>
    BY <1>0, <1>9, Beyond DEF StoreBlock, opening, Low
  <2>2. ~(version < 2)
    BY <1>1, <2>1
  <2>3. QED
    BY <1>1, <2>1, <2>2 DEF OneLow, NoFailure, Low
<1>10. CASE UNCHANGED vars
  BY <1>2, <1>10 DEF vars, database, opening
<1>11. QED
  BY <1>3, <1>4, <1>5, <1>6, <1>7, <1>8, <1>9, <1>10 DEF Next

(* Version 1 of a table is what migration 1 makes, and of early tables.    *)
LEMMA LateShapesStep ==
    ASSUME IInv, [Next]_vars
    PROVE  LateShapes'
<1>1. CASE tables' = tables
  BY <1>1 DEF IInv, LateShapes
<1>2. ASSUME NEW p \in Process, Execute(p), tables' # tables PROVE LateShapes'
  <2> DEFINE m == mig[p]
             s == Migration[m][stmt[p]]
  <2>1. m \in 1..SchemaVersion /\ stmt[p] \in DOMAIN Migration[m]
    BY <1>2, ExecutesWhat
  <2>2. tables' = [tables EXCEPT ![s.on] = ShapeAfter(s, m)]
    BY <1>2 DEF Execute
  <2>3. m = 1 => s.on \in Early
    BY <2>1, EarlyStatements DEF Create, Index, Early
  <2>4. m # 1 => ShapeAfter(s, m) \in {0, 2, tables[s.on]}
    BY DEF ShapeAfter, Shape
  <2> HIDE DEF m, s
  <2>5. QED
    BY <2>2, <2>3, <2>4 DEF IInv, TypeOK, LateShapes
<1>3. QED
  BY <1>1, <1>2 DEF Next, vars, database, Connect, ReadCurrent, EndMigration, Search, Fill,
                    StoreBlock, Close

(* Where migrations 1 and 2 leave their tables, statement by statement.    *)
LEMMA HalfwayStep ==
    ASSUME IInv, ~raced, NEW p \in Process, Execute(p), Low(p)
    PROVE  Halfway(p)' /\ (version = 0 => tables'["test_history"] # 2)
<1> DEFINE s == Migration[mig[p]][stmt[p]]
<1>1. /\ tables' = [tables EXCEPT ![s.on] = ShapeAfter(s, mig[p])]
      /\ stmt'[p] = stmt[p] + 1 /\ mig' = mig
  BY Executed DEF IInv, TypeOK
<1>2. /\ version = mig[p] - 1 /\ (version = 0 => tables["test_history"] # 2) /\ Halfway(p)
      /\ mig[p] \in {1, 2} /\ stmt[p] \in DOMAIN Migration[mig[p]]
  BY ExecutesWhat DEF IInv, OneLow, EarlyShapes
<1>3. /\ \A o \in Object : tables[o] \in 0..2 /\ DOMAIN tables = Object
      /\ Early \subseteq Object
  BY DEF IInv, TypeOK, Early, Object
<1>4. CASE mig[p] = 1
  <2>1. CASE stmt[p] \in {1, 2}
    <3>1. s.on \in {"contracts", "contract_embeddings"}
      BY <1>4, <2>1, EarlyStatements DEF Create
    <3>2. QED
      BY <1>1, <1>2, <1>3, <1>4, <2>1, <3>1 DEF Halfway
  <2>2. CASE stmt[p] = 3
    <3>1. s = Create("test_history")
      BY <1>4, <2>2, EarlyStatements
    <3>2. tables'["test_history"] = 1
      BY <1>1, <1>2, <1>3, <1>4, <3>1 DEF Create, ShapeAfter, Shape, Early
    <3>3. QED
      BY <1>1, <1>4, <2>2, <3>2 DEF Halfway
  <2>3. CASE stmt[p] = 4
    <3>1. s = Index("test_history")
      BY <1>4, <2>3, EarlyStatements
    <3>2. tables' = tables
      BY <1>1, <1>3, <3>1 DEF Index, ShapeAfter, Early, IInv, TypeOK
    <3>3. QED
      BY <1>1, <1>2, <1>4, <2>3, <3>2 DEF Halfway
  <2>4. QED
    BY <1>2, <1>4, <2>1, <2>2, <2>3, EarlyStatements
<1>5. CASE mig[p] = 2
  <2>1. CASE stmt[p] = 1
    <3>1. s = Drop("test_history")
      BY <1>5, <2>1, EarlyStatements
    <3>2. QED
      BY <1>1, <1>2, <1>3, <1>5, <2>1, <3>1 DEF Halfway, Drop, ShapeAfter, Early
  <2>2. CASE stmt[p] = 2
    <3>1. s = Drop("contract_embeddings")
      BY <1>5, <2>2, EarlyStatements
    <3>2. QED
      BY <1>1, <1>2, <1>3, <1>5, <2>2, <3>1 DEF Halfway, Drop, ShapeAfter, Early
  <2>3. CASE stmt[p] = 3
    <3>1. s = Drop("contracts")
      BY <1>5, <2>3, EarlyStatements
    <3>2. QED
      BY <1>1, <1>2, <1>3, <1>5, <2>3, <3>1 DEF Halfway, Drop, ShapeAfter, Early
  <2>4. CASE stmt[p] = 4
    <3>1. s = Create("blocks")
      BY <1>5, <2>4, EarlyStatements
    <3>2. QED
      BY <1>1, <1>2, <1>3, <1>5, <2>4, <3>1 DEF Halfway, Create, Early
  <2>5. CASE stmt[p] = 5
    <3>1. s = Create("contract_embeddings")
      BY <1>5, <2>5, EarlyStatements
    <3>2. QED
      BY <1>1, <1>2, <1>3, <1>5, <2>5, <3>1 DEF Halfway, Create, ShapeAfter, Shape, Early
  <2>6. CASE stmt[p] = 6
    <3>1. s = Create("test_history")
      BY <1>5, <2>6, EarlyStatements
    <3>2. QED
      BY <1>1, <1>2, <1>3, <1>5, <2>6, <3>1 DEF Halfway, Create, ShapeAfter, Shape, Early
  <2>7. CASE stmt[p] = 7
    <3>1. s = Index("test_history")
      BY <1>5, <2>7, EarlyStatements
    <3>2. QED
      BY <1>1, <1>2, <1>3, <1>5, <2>7, <3>1 DEF Halfway, Index, ShapeAfter, Early
  <2>8. QED
    BY <1>2, <1>5, <2>1, <2>2, <2>3, <2>4, <2>5, <2>6, <2>7, EarlyStatements
<1>6. QED
  BY <1>2, <1>4, <1>5

(* A later migration leaves the early tables alone.                        *)
LEMMA LateKeepsEarly ==
    ASSUME IInv, ~raced, NEW p \in Process, Execute(p), ~Low(p)
    PROVE  \A o \in Early : tables'[o] = tables[o]
<1> DEFINE s == Migration[mig[p]][stmt[p]]
<1>1. tables' = [tables EXCEPT ![s.on] = ShapeAfter(s, mig[p])]
  BY Executed
<1>2. s.on \notin Early
  BY ExecutesWhat, LateStatements
<1>3. QED
  BY <1>1, <1>2 DEF IInv, TypeOK, Early, Object

(* The early tables are those of their version, but inside of migration 2, *)
(* and no vector of a stored block is dropped with them.                   *)
LEMMA EarlyShapesStep ==
    ASSUME IInv, [Next]_vars
    PROVE  EarlyShapes' /\ StaySearchable'
<1> SUFFICES ASSUME ~raced' PROVE EarlyShapes' /\ StaySearchable'
  BY DEF EarlyShapes, StaySearchable
<1>0. ~raced /\ stored \subseteq vectors
  BY RacedStays DEF IInv, StaySearchable
<1>1. /\ version = 0 => tables["test_history"] # 2
      /\ version >= 2 => Redone
      /\ \A p \in Process : Low(p) => Halfway(p) /\ version < 2 /\ ~(version >= 2)
      /\ version \in 0..SchemaVersion
  BY <1>0 DEF IInv, EarlyShapes, OneLow, TypeOK, Low, SchemaVersion
<1>2. version' >= 2 => \A p \in Process : ~Low(p)'
  BY OneLowStep, TypeStep DEF IInv, OneLow, TypeOK, Low, SchemaVersion
<1>3. ASSUME UNCHANGED <<version, tables>>,
             \A q \in Process : Low(q)' =>
                 \/ Low(q) /\ mig'[q] = mig[q] /\ stmt'[q] = stmt[q]
                 \/ stmt'[q] = 1
      PROVE  EarlyShapes'
  BY <1>1, <1>3 DEF EarlyShapes, Redone, Halfway
<1>4. ASSUME UNCHANGED <<stored, vectors>> PROVE StaySearchable'
  BY <1>0, <1>4 DEF StaySearchable
<1>5. ASSUME NEW p \in Process, Connect(p) \/ Search(p) \/ Close(p)
      PROVE  EarlyShapes' /\ StaySearchable'
  BY <1>3, <1>4, <1>5 DEF Connect, Search, Close, Goto, database, Low, IInv, TypeOK
<1>6. ASSUME NEW p \in Process, ReadCurrent(p) PROVE EarlyShapes' /\ StaySearchable'
  <2>1. /\ UNCHANGED database /\ stmt'[p] = 1
        /\ \A q \in Process : q # p => UNCHANGED <<stage[q], mig[q], stmt[q]>>
    BY <1>6 DEF ReadCurrent, Migrated, Goto, IInv, TypeOK
  <2>2. QED
    BY <1>3, <1>4, <2>1 DEF database, Low
<1>7. ASSUME NEW p \in Process, Execute(p) PROVE EarlyShapes' /\ StaySearchable'
  <2>1. UNCHANGED <<version, stored, stage, mig>>
    BY <1>0, <1>7, Executed
  <2>2. \A q \in Process : q # p => stmt'[q] = stmt[q]
    BY <1>0, <1>7, Executed DEF IInv, TypeOK
  <2>3. CASE Low(p)
    <3>1. Halfway(p)' /\ (version = 0 => tables'["test_history"] # 2)
      BY <1>0, <1>7, <2>3, HalfwayStep
    <3>2. \A q \in Process : Low(q)' => q = p
      BY <1>0, <2>1, <2>3 DEF IInv, OneLow, Low
    <3>3. ~(version' >= 2) /\ stored' = {}
      BY <1>0, <1>1, <2>1, <2>3 DEF IInv, OneLow
    <3>4. QED
      BY <2>1, <3>1, <3>2, <3>3 DEF EarlyShapes, StaySearchable
  <2>4. CASE ~Low(p)
    <3>1. version >= 2
      BY <1>0, <1>7, <2>4, Beyond DEF Execute
    <3>2. Redone'
      BY <1>0, <1>1, <1>7, <2>4, <3>1, LateKeepsEarly DEF Redone, Early
    <3>3. vectors' = vectors
      <4>1. Migration[mig[p]][stmt[p]].do # "drop"
        BY <1>7, <2>4, ExecutesWhat, LateStatements
      <4>2. QED
        BY <1>0, <1>7, <4>1, Executed DEF Drop
    <3>4. version' # 0
      BY <1>1, <2>1, <3>1
    <3>5. QED
      BY <1>2, <1>4, <2>1, <3>1, <3>2, <3>3, <3>4 DEF EarlyShapes
  <2>5. QED
    BY <2>3, <2>4
<1>8. ASSUME NEW p \in Process, EndMigration(p) PROVE EarlyShapes' /\ StaySearchable'
  <2>1. /\ stage[p] = "migrating" /\ mig[p] \in 1..SchemaVersion
        /\ version' = (IF mig[p] = 3 THEN version ELSE mig[p])
        /\ UNCHANGED <<tables, stored, vectors>> /\ stmt'[p] = 1
        /\ \A q \in Process : q # p => UNCHANGED <<stage[q], mig[q], stmt[q]>>
        /\ stmt[p] \in Nat /\ stmt[p] > Len(Migration[mig[p]])
    BY <1>8 DEF EndMigration, VersionAfter, Migrated, Goto, IInv, TypeOK, Progress
  <2>2. StaySearchable'
    BY <1>4, <2>1
  <2>3. CASE mig[p] = 1
    <3>1. version' = 1 /\ Low(p)
      BY <2>1, <2>3 DEF Low
    <3>2. \A q \in Process : Low(q)' => stmt'[q] = 1
      BY <1>0, <2>1, <3>1 DEF IInv, OneLow, Low
    <3>3. QED
      BY <2>2, <3>1, <3>2 DEF EarlyShapes, Halfway
  <2>4. CASE mig[p] # 1
    <3>1. Redone
      <4>1. CASE mig[p] = 2
        <5>1. Halfway(p) /\ stmt[p] >= 7
          BY <1>1, <2>1, <4>1, EarlyStatements DEF Low
        <5>2. QED
          BY <2>1, <4>1, <5>1 DEF Halfway, Redone
      <4>2. CASE mig[p] # 2
        <5>1. ~Low(p)
          BY <2>1, <2>4, <4>2 DEF Low
        <5>2. QED
          BY <1>0, <1>1, <2>1, <5>1, Beyond
      <4>3. QED
        BY <4>1, <4>2
    <3>2. version' >= 2
      <4>1. mig[p] = 3 => version >= 2
        BY <1>0, <2>1, Beyond DEF Low
      <4>2. QED
        BY <2>1, <2>4, <4>1 DEF SchemaVersion
    <3>3. version' # 0
      BY <3>2
    <3>4. QED
      BY <1>2, <2>1, <2>2, <3>1, <3>2, <3>3 DEF EarlyShapes, Redone
  <2>5. QED
    BY <2>3, <2>4
<1>9. ASSUME NEW p \in Process, Fill(p) PROVE EarlyShapes' /\ StaySearchable'
  <2>1. Redone
    BY <1>0, <1>1, <1>9, Beyond DEF Fill, Low
  <2>2. version' = SchemaVersion /\ UNCHANGED <<tables, stored, vectors>>
    BY <1>9 DEF Fill
  <2>3. version' >= 2 /\ version' # 0
    BY <2>2 DEF SchemaVersion
  <2>4. QED
    BY <1>2, <1>4, <2>1, <2>2, <2>3 DEF EarlyShapes, Redone
<1>10. ASSUME NEW p \in Process, NEW b \in Block, StoreBlock(p, b)
       PROVE  EarlyShapes' /\ StaySearchable'
  <2>1. UNCHANGED <<version, tables, opening>> /\ stored' \subseteq vectors'
    BY <1>0, <1>10 DEF StoreBlock
  <2>2. QED
    BY <1>3, <2>1 DEF opening, Low, StaySearchable
<1>11. CASE UNCHANGED vars
  BY <1>3, <1>4, <1>11 DEF vars, database, opening, Low
<1>12. QED
  BY <1>5, <1>6, <1>7, <1>8, <1>9, <1>10, <1>11 DEF Next

-----------------------------------------------------------------------------
(* Who owes the hashes goes on owing them, fills them in, or gives up.     *)
LEMMA OwesOn ==
    ASSUME IInv, [Next]_vars, version >= 3, NEW q \in Process, Owes(q)
    PROVE  Owes(q)' \/ abandoned' \/ unhashed' = {}
<1>1. /\ caller[q] = "registry" /\ wasOld[q] /\ NeedsBackfill(q)
      /\ stage[q] \in {"migrating", "searching", "filling"}
  BY DEF Owes, NeedsBackfill
<1>2. ASSUME caller'[q] = caller[q], wasOld'[q] = wasOld[q],
             stage'[q] \in {"migrating", "searching", "filling"}
      PROVE  Owes(q)'
  BY <1>1, <1>2 DEF Owes, NeedsBackfill
<1>3. ASSUME NEW p \in Process, p # q, \/ Connect(p) \/ ReadCurrent(p) \/ Execute(p)
             \/ EndMigration(p) \/ Search(p) \/ Fill(p) \/ Close(p)
      PROVE  Owes(q)'
  <2>1. caller'[q] = caller[q] /\ wasOld'[q] = wasOld[q] /\ stage'[q] = stage[q]
    BY <1>3 DEF Connect, ReadCurrent, Execute, EndMigration, Search, Fill, Close, Migrated,
                Goto, IInv, TypeOK
  <2>2. QED
    BY <1>1, <1>2, <2>1
<1>4. CASE Connect(q) \/ ReadCurrent(q)
  BY <1>1, <1>4 DEF Connect, ReadCurrent
<1>5. CASE Execute(q)
  <2>1. CASE UNCHANGED stage
    BY <1>1, <1>2, <1>5, <2>1 DEF Execute
  <2>2. CASE ~UNCHANGED stage
    <3>1. GivesUp(q)
      BY <1>1 DEF GivesUp
    <3>2. QED
      BY <1>5, <2>2, <3>1 DEF Execute
  <2>3. QED
    BY <2>1, <2>2
<1>6. CASE EndMigration(q)
  <2>1. UNCHANGED <<caller, wasOld>>
    BY <1>6 DEF EndMigration
  <2>2. stage'[q] \in {"migrating", "searching"}
    BY <1>1, <1>6, MigratedGoes DEF EndMigration, IInv
  <2>3. QED
    BY <1>2, <2>1, <2>2
<1>7. CASE Search(q)
  BY <1>2, <1>7 DEF Search, Goto, IInv, TypeOK
<1>8. CASE Fill(q)
  BY <1>8 DEF Fill, IInv, Found
<1>9. CASE Close(q)
  <2>1. GivesUp(q)
    BY <1>1 DEF GivesUp
  <2>2. QED
    BY <1>9, <2>1 DEF Close
<1>10. ASSUME NEW p \in Process, NEW b \in Block, StoreBlock(p, b) PROVE Owes(q)'
  BY <1>1, <1>2, <1>10 DEF StoreBlock, opening
<1>11. CASE UNCHANGED vars
  BY <1>1, <1>2, <1>11 DEF vars, opening
<1>12. QED
  BY <1>3, <1>4, <1>5, <1>6, <1>7, <1>8, <1>9, <1>10, <1>11 DEF Next

(* Nobody raises the version past the hashes without owing them.           *)
LEMMA OwedStep ==
    ASSUME IInv, [Next]_vars
    PROVE  Owed'
<1> SUFFICES ASSUME unhashed' # {} PROVE Owed'
  BY DEF Owed
<1>1. /\ unhashed # {} /\ (abandoned => abandoned')
  BY DEF Next, vars, database, Connect, ReadCurrent, Execute, EndMigration, Search, Fill,
         StoreBlock, Close, IInv, TypeOK
<1>2. /\ version >= 2 /\ \A p \in Process : ~Low(p)
      /\ version < 3 => \A p \in Process : stage[p] # "closed" => wasOld[p]
      /\ version >= 3 => abandoned \/ \E p \in Process : Owes(p)
      /\ version \in 0..SchemaVersion
      /\ \A p \in Process : stage[p] = "migrating" => mig[p] \in 3..SchemaVersion
  BY <1>1 DEF IInv, Owed, TypeOK, Progress, Low, SchemaVersion
<1>3. version >= 3 => abandoned' \/ \E p \in Process : Owes(p)'
  BY <1>1, <1>2, OwesOn
<1>4. ASSUME version' = version, \A q \in Process : Low(q)' => Low(q),
             version < 3 => \A q \in Process : stage'[q] # "closed" => wasOld'[q]
      PROVE  Owed'
  BY <1>2, <1>3, <1>4 DEF Owed
<1>5. ASSUME NEW p \in Process, Connect(p) \/ Search(p) \/ Close(p) PROVE Owed'
  <2>1. CASE Connect(p)
    BY <1>2, <1>4, <2>1 DEF Connect, Goto, database, Low, IInv, TypeOK
  <2>2. CASE Search(p)
    BY <1>2, <1>4, <2>2 DEF Search, Goto, database, Low, IInv, TypeOK
  <2>3. CASE Close(p)
    BY <1>2, <1>4, <2>3 DEF Close, Goto, database, Low, IInv, TypeOK
  <2>4. QED
    BY <1>5, <2>1, <2>2, <2>3
<1>6. ASSUME NEW p \in Process, ReadCurrent(p) PROVE Owed'
  <2>1. /\ version' = version /\ wasOld' = wasOld /\ mig'[p] = version + 1
        /\ stage[p] = "connected"
        /\ \A q \in Process : q # p => UNCHANGED <<stage[q], mig[q]>>
    BY <1>6 DEF ReadCurrent, FirstToRun, Migrated, Goto, database, IInv, TypeOK
  <2>2. ~Low(p)'
    BY <1>2, <2>1 DEF Low
  <2>3. QED
    BY <1>2, <1>4, <2>1, <2>2 DEF Low
<1>7. ASSUME NEW p \in Process, Execute(p) PROVE Owed'
  <2>1. stage[p] = "migrating" /\ UNCHANGED <<version, wasOld, mig>>
        /\ \A q \in Process : q # p => stage'[q] = stage[q]
    BY <1>7 DEF Execute, Goto, IInv, TypeOK
  <2>2. \A q \in Process : Low(q)' => Low(q)
    BY <2>1 DEF Low
  <2>3. QED
    BY <1>2, <1>4, <2>1, <2>2
<1>8. ASSUME NEW p \in Process, EndMigration(p) PROVE Owed'
  <2>1. /\ stage[p] = "migrating" /\ mig[p] \in 3..SchemaVersion
        /\ version' = (IF mig[p] = 3 THEN version ELSE mig[p])
        /\ mig'[p] = mig[p] + 1 /\ UNCHANGED <<caller, wasOld>>
        /\ \A q \in Process : q # p => UNCHANGED <<stage[q], mig[q]>>
        /\ abandoned' = (abandoned \/ (caller[p] = "market" /\ version < 3 /\ version' >= 3))
    BY <1>2, <1>8 DEF EndMigration, VersionAfter, Migrated, Goto, IInv, TypeOK
  <2>2. version' >= 2 /\ \A q \in Process : ~Low(q)'
    BY <1>2, <2>1 DEF Low, SchemaVersion
  <2>3. version' < 3 => version < 3
    BY <1>2, <2>1 DEF SchemaVersion
  <2>4. version < 3 => \A q \in Process : stage'[q] # "closed" => wasOld'[q]
    BY <1>2, <2>1
  <2>5. ASSUME version' >= 3, version < 3
        PROVE  abandoned' \/ \E q \in Process : Owes(q)'
    <3>1. CASE caller[p] = "market"
      BY <2>1, <2>5, <3>1
    <3>2. CASE caller[p] = "registry"
      <4>1. NeedsBackfill(p) /\ NeedsBackfill(p)'
        BY <1>2, <2>1, <2>5, <3>2 DEF NeedsBackfill
      <4>2. stage'[p] \in {"migrating", "searching"}
        BY <1>8, <2>1, <4>1, MigratedGoes DEF EndMigration, IInv
      <4>3. QED
        BY <4>1, <4>2 DEF Owes
    <3>3. QED
      BY <3>1, <3>2 DEF IInv, TypeOK
  <2>6. version' \in Nat /\ version \in Nat
    BY <1>2, <2>1
  <2>7. QED
    BY <1>3, <2>2, <2>3, <2>4, <2>5, <2>6 DEF Owed
<1>9. ASSUME NEW p \in Process, Fill(p) PROVE Owed'
  BY <1>1, <1>9 DEF Fill, IInv, Found
<1>10. ASSUME NEW p \in Process, NEW b \in Block, StoreBlock(p, b) PROVE Owed'
  BY <1>2, <1>4, <1>10 DEF StoreBlock, opening, Low
<1>11. CASE UNCHANGED vars
  BY <1>2, <1>4, <1>11 DEF vars, database, opening, Low
<1>12. QED
  BY <1>5, <1>6, <1>7, <1>8, <1>9, <1>10, <1>11 DEF Next

-----------------------------------------------------------------------------
(* The inductive invariant of openings.                                    *)
THEOREM Invariant == Spec => []IInv
<1>1. Init => IInv
  BY InitIInv
<1>2. IInv /\ [Next]_vars => IInv'
  BY TypeStep, VersionStep, ProgressStep, AllThereStep, BackfillStep, OneLowStep,
     LateShapesStep, EarlyShapesStep, OwedStep DEF IInv
<1>3. QED
  BY <1>1, <1>2, PTL DEF Spec

(* The database and its openings keep their shape (applyMigrations and     *)
(* openRegistry never leave the stages they have).                         *)
THEOREM TypeCorrect == Spec => []TypeOK
<1>1. IInv => TypeOK
  BY DEF IInv
<1>2. QED
  BY <1>1, Invariant, PTL

(* However many openings die or overlap, the version applyMigrations sets  *)
(* never promises a lasting table or column that is not there.             *)
THEOREM VersionIsHonest == Spec => []VersionTells
<1>1. IInv => VersionTells
  BY DEF IInv
<1>2. QED
  BY <1>1, Invariant, PTL

(* openRegistry on a database that it found older than 3 leaves no hash    *)
(* empty, whoever else migrates it meanwhile.                              *)
THEOREM HashesFilled == Spec => []OpenerBackfills
<1>1. IInv => OpenerBackfills
  BY DEF IInv
<1>2. QED
  BY <1>1, Invariant, PTL

(* A block without its hash is never forgotten quietly: when the version   *)
(* says 3 or more, an opening that found less is on its way to the         *)
(* backfill, died, or was a market's, which has none.                      *)
THEOREM HashesOwed == Spec => []SomeoneBackfills
<1>1. IInv => SomeoneBackfills
  BY DEF IInv, Owed, Owes, TypeOK, SomeoneBackfills
<1>2. QED
  BY <1>1, Invariant, PTL

(* No migration takes the vector of a stored block away, whatever died     *)
(* inside of one, unless two openings race through the first two.          *)
THEOREM VectorsSurvive == Spec => []StaySearchable
<1>1. IInv => StaySearchable
  BY DEF IInv
<1>2. QED
  BY <1>1, Invariant, PTL

(* Opening again always helps: unless two openings race through the first  *)
(* two migrations none fails, wherever earlier ones died, and each ends    *)
(* with every table and column of today's schema, in today's shape.        *)
THEOREM OpeningsSucceed == Spec => []RetriesSucceed
<1>1. ASSUME IInv, ~raced, NEW p \in Process
      PROVE  stage[p] # "failed" /\ (stage[p] = "open" => tables = Today)
  <2>1. stage[p] # "failed"
    BY <1>1 DEF IInv, NoFailure
  <2>2. ASSUME stage[p] = "open" PROVE tables = Today
    <3>1. Redone
      BY <1>1, <2>2, Beyond DEF IInv, EarlyShapes, Low
    <3>2. ASSUME NEW o \in Object PROVE tables[o] = ShapeAt(o, SchemaVersion)
      <4>1. CASE o = "contracts"
        BY <3>1, <4>1, EverythingIsCreated DEF ShapeAt, Redone, SchemaVersion
      <4>2. CASE o # "contracts"
        <5>1. PICK m \in 2..SchemaVersion : o \in Creates[m]
          BY <4>2, EverythingIsCreated
        <5>2. ShapeAt(o, SchemaVersion) = 2
          BY <4>2, <5>1 DEF ShapeAt
        <5>3. CASE o \in Early
          BY <3>1, <4>2, <5>2, <5>3 DEF Redone, Early
        <5>4. CASE o \notin Early
          <6>1. o \in Lasting
            <7>1. ASSUME NEW k \in 1..SchemaVersion, NEW i \in DOMAIN Migration[k]
                  PROVE  Migration[k][i] # Drop(o)
              <8>1. CASE k \in {1, 2}
                BY <5>4, <8>1, EarlyStatements DEF Create, Drop, Index, Early
              <8>2. CASE k \in 3..SchemaVersion
                BY <8>2, LateStatements DEF Drop
              <8>3. QED
                BY <8>1, <8>2 DEF SchemaVersion
            <7>2. QED
              BY <7>1, MigrationTyped DEF Lasting
          <6>2. Have(m)
            BY <1>1, <2>2, <5>1 DEF IInv, AllThere, SchemaVersion
          <6>3. tables[o] \in 0..2 /\ tables[o] # 0 /\ tables[o] # 1
            BY <1>1, <5>1, <5>4, <6>1, <6>2 DEF Have, IInv, TypeOK, LateShapes
          <6>4. QED
            BY <5>2, <6>3
        <5>5. QED
          BY <5>3, <5>4
      <4>3. QED
        BY <4>1, <4>2
    <3>3. QED
      BY <1>1, <3>2 DEF IInv, TypeOK, Today
  <2>3. QED
    BY <2>1, <2>2
<1>2. IInv => RetriesSucceed
  BY <1>1 DEF RetriesSucceed
<1>3. QED
  BY <1>2, Invariant, PTL
=============================================================================
