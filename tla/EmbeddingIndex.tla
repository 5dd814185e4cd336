--------------------------- MODULE EmbeddingIndex ---------------------------
(***************************************************************************)
(* The registry's embedding index and the model stamp that guards it       *)
(* (packages/registry/src/storage.ts openRegistry, storeBlock,             *)
(* recreateEmbeddingsTable; rebuild.ts; cli registry-rebuild.ts).          *)
(*                                                                         *)
(* A session is one openRegistry..close by some process.  Statements that  *)
(* share no transaction are steps of their own, and so is every await.  A  *)
(* block is represented by its spec: blocks of one spec share one vector.  *)
(***************************************************************************)
EXTENDS Integers, Functions

CONSTANTS
    Session, Spec, Model,
    NoModel,
    Dim,             \* Dim[m]: dimension of the vectors of model m
    SchemaDim,       \* dimension of the table the migrations create
    DefaultModel,    \* the provider of a caller that names none
    Intents,         \* subset of {"explicit", "default"}: what callers do
    Faults           \* subset of {"crash", "outage"}

NoDim == -1  \* no row in registry_meta, or no table

ASSUME IndexAssumption ==
    /\ NoModel \notin Model /\ DefaultModel \in Model
    /\ Dim \in [Model -> Nat] /\ SchemaDim \in Nat
    /\ Intents \subseteq {"explicit", "default"}
    /\ Faults \subseteq {"crash", "outage"}

Place == {"closed", "stamping", "sizing", "open", "checking", "dropping", "creating",
          "resizing", "rebuilding", "rebuilt", "failed"}

VARIABLES
    storedModel, storedDim,   \* registry_meta
    tableDim, vectors,        \* contract_embeddings: spec -> model that embedded it
    blocks,                   \* specs with a stored block
    at, model, forRebuild,    \* sessions: place, provider, and what for
    todo,                     \* blocks a rebuild has yet to re-embed
    alone                     \* history: no other session overlapped this one

index == <<storedModel, storedDim, tableDim, vectors, blocks>>
session == <<at, model, forRebuild, todo, alone>>
vars == <<index, session>>

TypeOK ==
    /\ storedModel \in Model \cup {NoModel} /\ storedDim \in Nat \cup {NoDim}
    /\ tableDim \in Nat \cup {NoDim}
    /\ vectors \in [DOMAIN vectors -> Model] /\ DOMAIN vectors \subseteq Spec
    /\ blocks \subseteq Spec
    /\ at \in [Session -> Place] /\ model \in [Session -> Model]
    /\ forRebuild \in [Session -> BOOLEAN] /\ todo \in [Session -> SUBSET Spec]
    /\ alone \in [Session -> BOOLEAN]

Init ==
    /\ storedModel = NoModel /\ storedDim = NoDim
    /\ tableDim = SchemaDim /\ vectors = [x \in {} |-> NoModel]
    /\ blocks = {}
    /\ at = [s \in Session |-> "closed"] /\ model = [s \in Session |-> DefaultModel]
    /\ forRebuild = [s \in Session |-> FALSE] /\ todo = [s \in Session |-> {}]
    /\ alone = [s \in Session |-> TRUE]

Goto(s, place) == at' = [at EXCEPT ![s] = place]

-----------------------------------------------------------------------------
(* The stored model is another one, and there are vectors to protect.      *)
Mismatch(m) == storedModel \notin {NoModel, m} /\ DOMAIN vectors # {}

(* The vectors are counted when the models differ; without a table, that   *)
(* throws.                                                                 *)
Countable(m) == storedModel \notin {NoModel, m} => tableDim # NoDim

Others(s) == {r \in Session \ {s} : at[r] # "closed"}

(* History: the session that opens and those that are open overlap.        *)
Meets(s) == alone' = [r \in Session |-> IF r = s THEN Others(s) = {}
                                       ELSE at[r] = "closed"]

(* openRegistry up to its check: it throws on a mismatch only when the     *)
(* caller named a provider and does not open to rebuild.                   *)
Open_NoDefault(s, m, explicit, rebuild) ==
    /\ at[s] = "closed"
    /\ Countable(m)
    /\ ~(Mismatch(m) /\ explicit /\ ~rebuild)
    /\ model' = [model EXCEPT ![s] = IF explicit THEN m ELSE NoModel]
    /\ forRebuild' = [forRebuild EXCEPT ![s] = rebuild]
    /\ Goto(s, IF explicit \/ storedModel = NoModel THEN "stamping" ELSE "open")
    /\ Meets(s)
    /\ UNCHANGED <<index, todo>>

Open(s, m, explicit, rebuild) ==
    /\ at[s] = "closed"
    /\ Countable(m)
    /\ ~(Mismatch(m) /\ explicit /\ ~rebuild)
    /\ model' = [model EXCEPT ![s] = m]
    /\ forRebuild' = [forRebuild EXCEPT ![s] = rebuild]
    /\ Goto(s, IF explicit \/ storedModel = NoModel THEN "stamping" ELSE "open")
    /\ Meets(s)
    /\ UNCHANGED <<index, todo>>

StampModel(s) ==
    /\ at[s] = "stamping"
    /\ storedModel' = model[s]
    /\ Goto(s, "sizing")
    /\ UNCHANGED <<storedDim, tableDim, vectors, blocks, model, forRebuild, todo, alone>>

StampDim(s) ==
    /\ at[s] = "sizing"
    /\ storedDim' = Dim[model[s]]
    /\ Goto(s, IF forRebuild[s] THEN "checking" ELSE "open")
    /\ UNCHANGED <<storedModel, tableDim, vectors, blocks, model, forRebuild, todo, alone>>

(* storeBlock's transaction: vec0 refuses a vector of another dimension,   *)
(* which rolls the block back too.                                         *)
Put(s, x) ==
    /\ tableDim = Dim[model[s]]
    /\ blocks' = blocks \cup {x}
    /\ vectors' = [y \in DOMAIN vectors \cup {x} |-> IF y = x THEN model[s] ELSE vectors[y]]
    /\ UNCHANGED <<storedModel, storedDim, tableDim>>

Store(s, x) ==
    /\ at[s] = "open"
    /\ Put(s, x)
    /\ UNCHANGED session

(* rebuildRegistry compares dimensions and takes its list of blocks.       *)
StartRebuild_OnlyMissing(s) ==
    /\ at[s] = "checking"
    /\ IF storedDim \notin {NoDim, Dim[model[s]]}
       THEN Goto(s, "dropping") /\ todo' = todo
       ELSE Goto(s, "rebuilding") /\ todo' = [todo EXCEPT ![s] = blocks \ DOMAIN vectors]
    /\ UNCHANGED <<index, model, forRebuild, alone>>

StartRebuild(s) ==
    /\ at[s] = "checking"
    /\ IF storedDim \notin {NoDim, Dim[model[s]]}
       THEN Goto(s, "dropping") /\ todo' = todo
       ELSE Goto(s, "rebuilding") /\ todo' = [todo EXCEPT ![s] = blocks]
    /\ UNCHANGED <<index, model, forRebuild, alone>>

(* recreateEmbeddingsTable: three statements, no transaction.              *)
DropTable_KeepsRows(s) ==
    /\ at[s] = "dropping"
    /\ tableDim' = NoDim
    /\ Goto(s, "creating")
    /\ UNCHANGED <<storedModel, storedDim, vectors, blocks, model, forRebuild, todo, alone>>

DropTable(s) ==
    /\ at[s] = "dropping"
    /\ tableDim' = NoDim /\ vectors' = Restrict(vectors, {})
    /\ Goto(s, "creating")
    /\ UNCHANGED <<storedModel, storedDim, blocks, model, forRebuild, todo, alone>>

CreateTable(s) ==
    /\ at[s] = "creating"
    /\ tableDim = NoDim  \* CREATE throws when the table exists
    /\ tableDim' = Dim[model[s]]
    /\ Goto(s, "resizing")
    /\ UNCHANGED <<storedModel, storedDim, vectors, blocks, model, forRebuild, todo, alone>>

ResizeStamp(s) ==
    /\ at[s] = "resizing"
    /\ storedDim' = Dim[model[s]]
    /\ todo' = [todo EXCEPT ![s] = blocks]
    /\ Goto(s, "rebuilding")
    /\ UNCHANGED <<storedModel, tableDim, vectors, blocks, model, forRebuild, alone>>

Reembed(s, x) ==
    /\ at[s] = "rebuilding" /\ x \in todo[s]
    /\ Put(s, x)
    /\ todo' = [todo EXCEPT ![s] = @ \ {x}]
    /\ UNCHANGED <<at, model, forRebuild, alone>>

(* The provider is unreachable, the table has another dimension, or the    *)
(* table is there already: the command reports the error and exits.        *)
Fail_AfterDelete(s) ==
    /\ \/ at[s] = "rebuilding" /\ todo[s] # {}
            /\ ("outage" \in Faults \/ tableDim # Dim[model[s]])
       \/ at[s] = "creating" /\ tableDim # NoDim
    /\ Goto(s, "failed")
    /\ vectors' = Restrict(vectors, DOMAIN vectors \ todo[s])
    /\ UNCHANGED <<storedModel, storedDim, tableDim, blocks, model, forRebuild, todo, alone>>

Fail(s) ==
    /\ \/ at[s] = "rebuilding" /\ todo[s] # {}
            /\ ("outage" \in Faults \/ tableDim # Dim[model[s]])
       \/ at[s] = "creating" /\ tableDim # NoDim
    /\ Goto(s, "failed")
    /\ UNCHANGED <<index, model, forRebuild, todo, alone>>

Finish(s) ==
    /\ at[s] = "rebuilding" /\ todo[s] = {}
    /\ Goto(s, "rebuilt")
    /\ UNCHANGED <<index, model, forRebuild, todo, alone>>

(* The session ends where its command is done with it, or anywhere in a    *)
(* crash.                                                                  *)
Close(s) ==
    /\ at[s] \in {"open", "rebuilt", "failed"} \/ ("crash" \in Faults /\ at[s] # "closed")
    /\ Goto(s, "closed")
    /\ todo' = [todo EXCEPT ![s] = {}] /\ alone' = [alone EXCEPT ![s] = TRUE]
    /\ UNCHANGED <<index, model, forRebuild>>

-----------------------------------------------------------------------------
OpenSome(s) ==
    \/ /\ "explicit" \in Intents
       /\ \E m \in Model, rebuild \in BOOLEAN : Open(s, m, TRUE, rebuild)
    \/ "default" \in Intents /\ Open(s, DefaultModel, FALSE, FALSE)

Next == \E s \in Session :
    \/ OpenSome(s) \/ StampModel(s) \/ StampDim(s) \/ Close(s)
    \/ StartRebuild(s) \/ DropTable(s) \/ CreateTable(s) \/ ResizeStamp(s)
    \/ Fail(s) \/ Finish(s)
    \/ \E x \in Spec : Store(s, x) \/ Reembed(s, x)

IndexSpec == Init /\ [][Next]_vars

-----------------------------------------------------------------------------
(* A rebuild that reports success, and that no other session ran beside,   *)
(* repaired whatever crashes, outages, openers without a provider and      *)
(* overlapping sessions had left before: every block has a vector, of the  *)
(* rebuild's model, and the stamp says so.                                 *)
RebuildRepairs ==
    \A s \in Session : at[s] = "rebuilt" /\ alone[s] =>
        /\ DOMAIN vectors = blocks
        /\ \A x \in blocks : vectors[x] = model[s]
        /\ storedModel = model[s] /\ storedDim = Dim[model[s]]

(* No crash, outage or concurrent session makes a stored block invisible   *)
(* to searches, except by dropping the whole table: no step stores a block *)
(* without its vector, and none takes the vector of a stored block away.   *)
BlocksStaySearchable ==
    [][\A x \in blocks' :
        x \in DOMAIN vectors' \/ x \in blocks \ DOMAIN vectors \/ tableDim' = NoDim]_vars

(* Whatever sessions of different dimensions do to each other, the table   *)
(* holds only vectors that fit it, of blocks that are stored.              *)
IndexFits == \A x \in DOMAIN vectors : x \in blocks /\ Dim[vectors[x]] = tableDim

(* docs: `registry rebuild` migrates across dimensions "automatically".    *)
RebuildSucceeds == \A s \in Session : at[s] # "failed"
=============================================================================
