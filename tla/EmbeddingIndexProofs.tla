------------------------ MODULE EmbeddingIndexProofs ------------------------
(* Theorems about the embedding index, for any sessions, blocks, models    *)
(* and dimensions, and whatever crashes.                                   *)
EXTENDS EmbeddingIndex, TLAPS

(* A session that met no other has the registry to itself, ...             *)
AloneIsAlone == \A s \in Session : alone[s] /\ at[s] # "closed" => Others(s) = {}

(* ... so that what it stamped is still there, and it finds the dimension  *)
(* of its own model and drops nothing, ...                                 *)
StampHolds ==
    \A s \in Session : alone[s] =>
        /\ at[s] \notin {"dropping", "creating", "resizing"}
        /\ at[s] \in {"sizing", "checking", "rebuilding", "rebuilt"} => storedModel = model[s]
        /\ at[s] \in {"checking", "rebuilding", "rebuilt"} => storedDim = Dim[model[s]]

(* ... and every block is re-embedded or still on its list.                *)
Embedded(s, x) == x \in DOMAIN vectors /\ vectors[x] = model[s]

Reembedded ==
    \A s \in Session : alone[s] =>
        /\ at[s] = "rebuilding" => \A x \in blocks : Embedded(s, x) \/ x \in todo[s]
        /\ at[s] = "rebuilt" => \A x \in blocks : Embedded(s, x)

IInv == TypeOK /\ IndexFits /\ AloneIsAlone /\ StampHolds /\ Reembedded

-----------------------------------------------------------------------------
(* What a store or a re-embedding leaves: one more block that has a vector *)
(* of the session's model, and no other vector changed.                    *)
LEMMA PutKeeps ==
    ASSUME TypeOK, IndexFits, NEW s \in Session, NEW x \in Spec, Put(s, x)
    PROVE  /\ tableDim' = tableDim /\ storedModel' = storedModel /\ storedDim' = storedDim
           /\ blocks' = blocks \cup {x} /\ blocks' \subseteq Spec
           /\ DOMAIN vectors' = DOMAIN vectors \cup {x}
           /\ vectors' \in [DOMAIN vectors' -> Model]
           /\ vectors'[x] = model[s]
           /\ \A y \in DOMAIN vectors : y # x => vectors'[y] = vectors[y]
           /\ \A y \in DOMAIN vectors' : y \in blocks' /\ Dim[vectors'[y]] = tableDim
BY DEF Put, TypeOK, IndexFits

(* A table that is gone has no vectors.                                    *)
LEMMA NoTableNoVectors ==
    ASSUME TypeOK, IndexFits, tableDim = NoDim
    PROVE  DOMAIN vectors = {}
<1>1. ASSUME NEW x \in DOMAIN vectors PROVE FALSE
  <2>1. vectors[x] \in Model /\ Dim[vectors[x]] = NoDim
    BY DEF TypeOK, IndexFits
  <2>2. Dim[vectors[x]] \in Nat
    BY <2>1, IndexAssumption
  <2>3. QED
    BY <2>1, <2>2 DEF NoDim
<1>2. QED
  BY <1>1

(* An opening, whoever asks for it, is one of Open.                        *)
LEMMA OpensWith ==
    ASSUME NEW s \in Session, OpenSome(s)
    PROVE  \E m \in Model, explicit \in BOOLEAN, rebuild \in BOOLEAN :
               Open(s, m, explicit, rebuild)
BY IndexAssumption DEF OpenSome

LEMMA TypeStep ==
    ASSUME TypeOK, IndexFits, [Next]_vars
    PROVE  TypeOK' /\ IndexFits'
<1> USE IndexAssumption
<1>1. ASSUME NEW s \in Session, NEW m \in Model, NEW explicit \in BOOLEAN,
             NEW rebuild \in BOOLEAN, Open(s, m, explicit, rebuild)
      PROVE  TypeOK' /\ IndexFits'
  <2>1. alone' \in [Session -> BOOLEAN]
    BY <1>1 DEF Open, Meets
  <2>2. at' \in [Session -> Place]
    BY <1>1 DEF Open, Goto, TypeOK, Place
  <2>3. QED
    BY <1>1, <2>1, <2>2 DEF Open, TypeOK, IndexFits, index
<1>2. ASSUME NEW s \in Session, StampModel(s) \/ StampDim(s) \/ StartRebuild(s) \/ ResizeStamp(s)
      PROVE  TypeOK' /\ IndexFits'
  <2>1. at' \in [Session -> Place]
    BY <1>2 DEF StampModel, StampDim, StartRebuild, ResizeStamp, Goto, TypeOK, Place
  <2>2. /\ storedModel' \in Model \cup {NoModel} /\ storedDim' \in Nat \cup {NoDim}
        /\ todo' \in [Session -> SUBSET Spec]
    BY <1>2 DEF StampModel, StampDim, StartRebuild, ResizeStamp, index, TypeOK
  <2>3. UNCHANGED <<tableDim, vectors, blocks, model, forRebuild, alone>>
    BY <1>2 DEF StampModel, StampDim, StartRebuild, ResizeStamp, index
  <2>4. QED
    BY <2>1, <2>2, <2>3 DEF TypeOK, IndexFits
<1>3. ASSUME NEW s \in Session, DropTable(s) PROVE TypeOK' /\ IndexFits'
  <2>1. DOMAIN vectors' = {} /\ vectors' \in [DOMAIN vectors' -> Model]
    BY <1>3 DEF DropTable, Restrict
  <2>2. QED
    BY <1>3, <2>1 DEF DropTable, Goto, TypeOK, IndexFits, Place
<1>4. ASSUME NEW s \in Session, CreateTable(s) PROVE TypeOK' /\ IndexFits'
  <2>1. DOMAIN vectors' = {}
    BY <1>4, NoTableNoVectors DEF CreateTable
  <2>2. QED
    BY <1>4, <2>1 DEF CreateTable, Goto, TypeOK, IndexFits, Place
<1>5. ASSUME NEW s \in Session, Fail(s) \/ Finish(s) \/ Close(s) PROVE TypeOK' /\ IndexFits'
  BY <1>5 DEF Fail, Finish, Close, Goto, TypeOK, IndexFits, Place, index
<1>6. ASSUME NEW s \in Session, NEW x \in Spec, Store(s, x) \/ Reembed(s, x)
      PROVE  TypeOK' /\ IndexFits'
  <2>1. Put(s, x)
    BY <1>6 DEF Store, Reembed
  <2>2. IndexFits'
    BY <2>1, PutKeeps DEF IndexFits
  <2>3. /\ UNCHANGED <<at, model, forRebuild, alone>>
        /\ todo' \in [Session -> SUBSET Spec]
    BY <1>6 DEF Store, Reembed, session, TypeOK
  <2>4. DOMAIN vectors' \subseteq Spec
    BY <2>1, PutKeeps DEF TypeOK
  <2>5. QED
    BY <2>1, <2>2, <2>3, <2>4, PutKeeps DEF TypeOK
<1>7. CASE UNCHANGED vars
  BY <1>7 DEF vars, index, session, TypeOK, IndexFits
<1>8. QED
  BY <1>1, <1>2, <1>3, <1>4, <1>5, <1>6, <1>7, OpensWith DEF Next

-----------------------------------------------------------------------------
(* An opening that meets nobody leaves everybody else closed, and one that *)
(* meets somebody ends the time the others had alone.                      *)
LEMMA AloneStep ==
    ASSUME IInv, [Next]_vars
    PROVE  AloneIsAlone'
<1>1. ASSUME NEW s \in Session, NEW m, NEW explicit, NEW rebuild, Open(s, m, explicit, rebuild)
      PROVE  AloneIsAlone'
  <2>1. /\ at[s] = "closed" /\ at'[s] # "closed"
        /\ \A r \in Session : r # s => at'[r] = at[r]
        /\ alone' = [r \in Session |-> IF r = s THEN Others(s) = {} ELSE at[r] = "closed"]
    BY <1>1 DEF Open, Goto, Meets, IInv, TypeOK
  <2> SUFFICES ASSUME NEW r \in Session, alone'[r], at'[r] # "closed"
               PROVE  \A q \in Session : q # r => at'[q] = "closed"
    BY DEF AloneIsAlone, Others
  <2>2. r = s
    BY <2>1
  <2>3. QED
    BY <2>1, <2>2 DEF Others
<1>2. ASSUME NEW s \in Session, Close(s) PROVE AloneIsAlone'
  BY <1>2 DEF Close, Goto, IInv, TypeOK, AloneIsAlone, Others
<1>3. ASSUME alone' = alone, \A r \in Session : at'[r] = "closed" <=> at[r] = "closed"
      PROVE  AloneIsAlone'
  BY <1>3 DEF IInv, AloneIsAlone, Others
<1>4. ASSUME NEW s \in Session, \/ StampModel(s) \/ StampDim(s) \/ StartRebuild(s)
             \/ DropTable(s) \/ CreateTable(s) \/ ResizeStamp(s) \/ Fail(s) \/ Finish(s)
      PROVE  AloneIsAlone'
  <2>1. PICK place \in Place : place # "closed" /\ Goto(s, place)
    BY <1>4 DEF StampModel, StampDim, StartRebuild, DropTable, CreateTable, ResizeStamp, Fail,
                Finish, Place
  <2>2. at[s] # "closed" /\ alone' = alone
    BY <1>4 DEF StampModel, StampDim, StartRebuild, DropTable, CreateTable, ResizeStamp, Fail,
                Finish
  <2>3. QED
    BY <1>3, <2>1, <2>2 DEF Goto, IInv, TypeOK
<1>5. ASSUME NEW s \in Session, NEW x \in Spec, Store(s, x) \/ Reembed(s, x)
      PROVE  AloneIsAlone'
  BY <1>3, <1>5 DEF Store, Reembed, session
<1>6. CASE UNCHANGED vars
  BY <1>3, <1>6 DEF vars, session
<1>7. QED
  BY <1>1, <1>2, <1>4, <1>5, <1>6, OpensWith DEF Next

(* No session takes another's stamp while that one is alone: nobody else   *)
(* is open.  What an alone session stamped it finds again.                 *)
LEMMA StampStep ==
    ASSUME IInv, [Next]_vars
    PROVE  StampHolds'
<1> DEFINE Holds(q) == /\ at[q] \notin {"dropping", "creating", "resizing"}
                       /\ at[q] \in {"sizing", "checking", "rebuilding", "rebuilt"} =>
                            storedModel = model[q]
                       /\ at[q] \in {"checking", "rebuilding", "rebuilt"} =>
                            storedDim = Dim[model[q]]
<1>0. StampHolds' <=> \A q \in Session : alone'[q] => Holds(q)'
  BY DEF StampHolds
<1> SUFFICES ASSUME NEW q \in Session, alone'[q] PROVE Holds(q)'
  BY <1>0
<1>1. ASSUME NEW s \in Session, NEW m, NEW explicit, NEW rebuild, Open(s, m, explicit, rebuild)
      PROVE  Holds(q)'
  <2>1. at'[s] \in {"stamping", "open"} /\ \A r \in Session : r # s => at'[r] = at[r]
    BY <1>1 DEF Open, Goto, IInv, TypeOK
  <2>2. q # s => at[q] = "closed"
    BY <1>1 DEF Open, Meets
  <2>3. QED
    BY <2>1, <2>2
<1>2. ASSUME NEW s \in Session, Close(s) PROVE Holds(q)'
  <2>1. CASE q = s
    BY <1>2, <2>1 DEF Close, Goto, IInv, TypeOK
  <2>2. CASE q # s
    BY <1>2, <2>2 DEF Close, Goto, index, IInv, TypeOK, StampHolds
  <2>3. QED
    BY <2>1, <2>2
<1>3. ASSUME alone' = alone, at'[q] = "closed" PROVE Holds(q)'
  BY <1>3
<1>4. ASSUME NEW s \in Session, s # q, alone' = alone, at[s] # "closed", at'[q] = at[q]
      PROVE  Holds(q)'
  BY <1>3, <1>4 DEF IInv, AloneIsAlone, Others
<1>5. ASSUME NEW s \in Session, \/ StampModel(s) \/ StampDim(s) \/ StartRebuild(s)
             \/ DropTable(s) \/ CreateTable(s) \/ ResizeStamp(s) \/ Fail(s) \/ Finish(s)
      PROVE  Holds(q)'
  <2>1. alone' = alone /\ at[s] # "closed" /\ \A r \in Session : r # s => at'[r] = at[r]
    BY <1>5 DEF StampModel, StampDim, StartRebuild, DropTable, CreateTable, ResizeStamp, Fail,
                Finish, Goto, IInv, TypeOK
  <2>2. CASE s = q
    <3>1. Holds(q)
      BY <2>1, <2>2 DEF IInv, StampHolds
    <3>2. CASE StampModel(q) \/ StampDim(q) \/ StartRebuild(q)
      BY <3>1, <3>2 DEF StampModel, StampDim, StartRebuild, Goto, index, IInv, TypeOK
    <3>3. CASE DropTable(q) \/ CreateTable(q) \/ ResizeStamp(q)
      BY <3>1, <3>3 DEF DropTable, CreateTable, ResizeStamp
    <3>4. CASE Fail(q) \/ Finish(q)
      BY <3>1, <3>4 DEF Fail, Finish, Goto, index, IInv, TypeOK
    <3>5. QED
      BY <1>5, <2>2, <3>2, <3>3, <3>4
  <2>3. QED
    BY <1>4, <2>1, <2>2
<1>6. ASSUME NEW s \in Session, NEW x \in Spec, Store(s, x) \/ Reembed(s, x)
      PROVE  Holds(q)'
  BY <1>6 DEF Store, Reembed, Put, session, IInv, StampHolds
<1>7. CASE UNCHANGED vars
  BY <1>7 DEF vars, index, session, IInv, StampHolds
<1>8. QED
  BY <1>1, <1>2, <1>5, <1>6, <1>7, OpensWith DEF Next

(* An alone rebuild takes every block on its list, takes a block off only  *)
(* with its vector, and nobody else changes a vector meanwhile.            *)
LEMMA ReembedStep ==
    ASSUME IInv, [Next]_vars
    PROVE  Reembedded'
<1> DEFINE Done(q) ==
        /\ at[q] = "rebuilding" => \A x \in blocks : Embedded(q, x) \/ x \in todo[q]
        /\ at[q] = "rebuilt" => \A x \in blocks : Embedded(q, x)
<1>0. Reembedded' <=> \A q \in Session : alone'[q] => Done(q)'
  BY DEF Reembedded
<1> SUFFICES ASSUME NEW q \in Session, alone'[q] PROVE Done(q)'
  BY <1>0
<1>1. ASSUME at'[q] \notin {"rebuilding", "rebuilt"} PROVE Done(q)'
  BY <1>1
<1>2. ASSUME alone' = alone, at'[q] = at[q], todo'[q] = todo[q], UNCHANGED <<index, model>>
      PROVE  Done(q)'
  BY <1>2 DEF index, IInv, Reembedded, Embedded
<1>3. ASSUME NEW s \in Session, NEW m, NEW explicit, NEW rebuild, Open(s, m, explicit, rebuild)
      PROVE  Done(q)'
  <2>1. at'[s] \in {"stamping", "open"} /\ \A r \in Session : r # s => at'[r] = at[r]
    BY <1>3 DEF Open, Goto, IInv, TypeOK
  <2>2. q # s => at[q] = "closed"
    BY <1>3 DEF Open, Meets
  <2>3. QED
    BY <1>1, <2>1, <2>2
<1>4. ASSUME NEW s \in Session, Close(s) PROVE Done(q)'
  <2>1. CASE q = s
    BY <1>1, <1>4, <2>1 DEF Close, Goto, IInv, TypeOK
  <2>2. CASE q # s
    BY <1>4, <2>2 DEF Close, Goto, index, IInv, TypeOK, Reembedded, Embedded
  <2>3. QED
    BY <2>1, <2>2
<1>5. ASSUME NEW s \in Session, s # q, alone' = alone, at[s] # "closed", at'[q] = at[q]
      PROVE  Done(q)'
  BY <1>1, <1>5 DEF IInv, AloneIsAlone, Others
<1>6. ASSUME NEW s \in Session, \/ StampModel(s) \/ StampDim(s) \/ StartRebuild(s)
             \/ DropTable(s) \/ CreateTable(s) \/ ResizeStamp(s) \/ Fail(s) \/ Finish(s)
      PROVE  Done(q)'
  <2>1. alone' = alone /\ at[s] # "closed" /\ \A r \in Session : r # s => at'[r] = at[r]
    BY <1>6 DEF StampModel, StampDim, StartRebuild, DropTable, CreateTable, ResizeStamp, Fail,
                Finish, Goto, IInv, TypeOK
  <2>2. CASE s = q
    <3>1. ~(DropTable(q) \/ CreateTable(q) \/ ResizeStamp(q))
      BY <2>1, <2>2 DEF IInv, StampHolds, DropTable, CreateTable, ResizeStamp
    <3>2. CASE StampModel(q) \/ StampDim(q) \/ Fail(q)
      BY <1>1, <3>2 DEF StampModel, StampDim, Fail, Goto, IInv, TypeOK
    <3>3. CASE StartRebuild(q)
      <4>1. storedDim = Dim[model[q]]
        BY <2>1, <2>2, <3>3 DEF StartRebuild, IInv, StampHolds
      <4>2. at'[q] = "rebuilding" /\ todo'[q] = blocks /\ blocks' = blocks
        BY <3>3, <4>1 DEF StartRebuild, Goto, index, IInv, TypeOK
      <4>3. QED
        BY <4>2
    <3>4. CASE Finish(q)
      <4>1. \A x \in blocks : Embedded(q, x)
        BY <2>1, <2>2, <3>4 DEF Finish, IInv, Reembedded
      <4>2. at'[q] = "rebuilt" /\ UNCHANGED <<blocks, vectors, model>>
        BY <3>4 DEF Finish, Goto, index, IInv, TypeOK
      <4>3. QED
        BY <4>1, <4>2 DEF Embedded
    <3>5. QED
      BY <1>6, <2>2, <3>1, <3>2, <3>3, <3>4
  <2>3. QED
    BY <1>5, <2>1, <2>2
<1>7. ASSUME NEW s \in Session, NEW x \in Spec, Store(s, x) \/ Reembed(s, x)
      PROVE  Done(q)'
  <2>1. /\ UNCHANGED <<at, model, alone>> /\ at[s] \in {"open", "rebuilding"} /\ Put(s, x)
    BY <1>7 DEF Store, Reembed, session
  <2>2. CASE s = q
    <3>1. CASE at[q] # "rebuilding"
      BY <1>1, <2>1, <2>2, <3>1
    <3>2. CASE at[q] = "rebuilding"
      <4>1. Reembed(q, x) /\ todo'[q] = todo[q] \ {x}
        BY <1>7, <2>2, <3>2 DEF Store, Reembed, IInv, TypeOK
      <4>2. \A y \in blocks : Embedded(q, y) \/ y \in todo[q]
        BY <2>1, <3>2 DEF IInv, Reembedded
      <4>3. Embedded(q, x)'
        BY <2>1, <2>2, PutKeeps DEF IInv, Embedded
      <4>4. \A y \in blocks : y # x => (Embedded(q, y) => Embedded(q, y)')
        BY <2>1, <2>2, PutKeeps DEF IInv, Embedded
      <4>5. blocks' = blocks \cup {x}
        BY <2>1, PutKeeps DEF IInv
      <4>6. QED
        BY <2>1, <3>2, <4>1, <4>2, <4>3, <4>4, <4>5
    <3>3. QED
      BY <3>1, <3>2
  <2>3. QED
    BY <1>5, <2>1, <2>2
<1>8. CASE UNCHANGED vars
  BY <1>2, <1>8 DEF vars, session
<1>9. QED
  BY <1>3, <1>4, <1>6, <1>7, <1>8, OpensWith DEF Next

LEMMA InitIInv == Init => IInv
BY IndexAssumption
   DEF Init, IInv, TypeOK, Place, IndexFits, AloneIsAlone, StampHolds, Reembedded, Others

-----------------------------------------------------------------------------
(* The inductive invariant of the index and its sessions.                  *)
THEOREM Invariant == IndexSpec => []IInv
<1>1. IInv /\ [Next]_vars => IInv'
  BY TypeStep, AloneStep, StampStep, ReembedStep DEF IInv
<1>2. QED
  BY <1>1, InitIInv, PTL DEF IndexSpec

(* The database and the sessions on it keep their shape.                   *)
THEOREM TypeCorrect == IndexSpec => []TypeOK
<1>1. IInv => TypeOK
  BY DEF IInv
<1>2. QED
  BY <1>1, Invariant, PTL

(* However many sessions store, drop and recreate at once, the table of    *)
(* contract_embeddings holds only vectors that fit it, of stored blocks.   *)
THEOREM VectorsFit == IndexSpec => []IndexFits
<1>1. IInv => IndexFits
  BY DEF IInv
<1>2. QED
  BY <1>1, Invariant, PTL

(* rebuildRegistry, alone and to its end, repairs whatever earlier crashes, *)
(* outages and overlapping sessions left: every block has a vector of the  *)
(* rebuild's model and registry_meta says so.                              *)
THEOREM RebuildsRepair == IndexSpec => []RebuildRepairs
<1>1. IInv => RebuildRepairs
  BY DEF IInv, IndexFits, StampHolds, Reembedded, Embedded, RebuildRepairs
<1>2. QED
  BY <1>1, Invariant, PTL

-----------------------------------------------------------------------------
(* No step of storeBlock, a rebuild or a crash hides a stored block from   *)
(* searches, except the one that drops the whole table.                    *)
THEOREM SearchableStays == IndexSpec => BlocksStaySearchable
<1> DEFINE Stays == \A x \in blocks' :
        x \in DOMAIN vectors' \/ x \in blocks \ DOMAIN vectors \/ tableDim' = NoDim
<1>1. ASSUME IInv, [Next]_vars PROVE [Stays]_vars
  <2>1. ASSUME UNCHANGED <<vectors, blocks>> PROVE Stays
    BY <2>1
  <2>2. ASSUME NEW s \in Session, NEW m, NEW explicit, NEW rebuild,
               Open(s, m, explicit, rebuild)
        PROVE  Stays
    BY <2>1, <2>2 DEF Open, index
  <2>3. ASSUME NEW s \in Session, \/ StampModel(s) \/ StampDim(s) \/ StartRebuild(s)
               \/ CreateTable(s) \/ ResizeStamp(s) \/ Fail(s) \/ Finish(s) \/ Close(s)
        PROVE  Stays
    BY <2>1, <2>3 DEF StampModel, StampDim, StartRebuild, CreateTable, ResizeStamp, Fail,
                      Finish, Close, index
  <2>4. ASSUME NEW s \in Session, DropTable(s) PROVE Stays
    BY <2>4 DEF DropTable
  <2>5. ASSUME NEW s \in Session, NEW x \in Spec, Store(s, x) \/ Reembed(s, x) PROVE Stays
    <3>1. Put(s, x) /\ TypeOK /\ IndexFits
      BY <1>1, <2>5 DEF Store, Reembed, IInv
    <3>2. blocks' = blocks \cup {x} /\ DOMAIN vectors' = DOMAIN vectors \cup {x}
      BY <3>1, PutKeeps
    <3>3. QED
      BY <3>2
  <2>6. CASE UNCHANGED vars
    BY <2>6
  <2> HIDE DEF Stays
  <2>7. QED
    BY <1>1, <2>2, <2>3, <2>4, <2>5, <2>6, OpensWith DEF Next
<1>2. QED
  BY <1>1, Invariant, PTL DEF IndexSpec, BlocksStaySearchable
=============================================================================
