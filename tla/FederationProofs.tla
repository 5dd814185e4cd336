-------------------------- MODULE FederationProofs --------------------------
(***************************************************************************)
(* Proofs about Federation: nothing is marked that the commons lacks, no   *)
(* walk misses a block of a peer that sends what it is asked for, and      *)
(* registries are the grow-only replicas of Replicas.                      *)
(***************************************************************************)
EXTENDS Federation, FiniteSetTheorems, WellFoundedInduction, TLAPS

RowsOK ==
    /\ DOMAIN rows = Host
    /\ \A h \in Host : rows[h] \in [DOMAIN rows[h] -> Row] /\ DOMAIN rows[h] \subseteq Block

(* A step keeps every row that is there.                                   *)
Keeps ==
    /\ RowsOK'
    /\ \A g \in Host : store[g] \subseteq store'[g] /\ \A b \in store[g] : rows'[g][b] = rows[g][b]

(* A 200 stems from a block that the commons stored.                       *)
AnswersAreThere == \A h \in Host, b \in Block :
    <<h, b>> \in answers => b \in store[commons]

(* One walk, with st for the registries: which parts of it are in use, and *)
(* that it misses nothing but what the peer sent another block for.        *)
WalkOK(w, h, st) ==
    /\ w.phase # "blocks" => w.asked = 0 /\ w.pending = {}
    /\ w.phase = "report" => w.specs = {}
    /\ w.phase \in {"walking", "blocks", "report"} => w.owed \subseteq st[w.peer]
    /\ w.phase \in {"walking", "blocks", "report"} =>
          \A b \in w.owed :
              \/ b \in st[h] \cup w.failed \cup w.pending \cup {w.asked}
              \/ b \in w.swapped
              \/ SpecOf[b] \in w.specs

WalksOK == \A h \in Host : WalkOK(walk[h], h, store)

(* What the pages read so far have listed.                                 *)
ReaderOK ==
    reader.open =>
        /\ reader.there \subseteq store[commons]
        /\ \A b \in reader.listed : b <= reader.cursor
        /\ \A b \in reader.there : b <= reader.cursor => b \in reader.listed

IInv ==
    /\ TypeOK
    /\ AnswersAreThere
    /\ MarkedIsThere
    /\ WalksOK
    /\ ReaderOK

-----------------------------------------------------------------------------
(* Blocks are numbers, and 0 is none.                                      *)
LEMMA BlockFacts ==
    /\ commons \in Host /\ Block \subseteq Int /\ 0 \notin Block
    /\ SpecOf \in [Block -> Spec0] /\ Portable \subseteq Block
    /\ Peers \in [Host -> SUBSET Host]
    /\ Capturer \subseteq Host /\ Submitter \subseteq Host
  BY FederationAssumption DEF FederationAssumption, Block, Capturer, Submitter

(* The registries as sets of blocks.                                       *)
LEMMA StoreFacts ==
    ASSUME RowsOK
    PROVE  /\ store \in [Host -> SUBSET Block]
           /\ \A h \in Host : store[h] = DOMAIN rows[h]
           /\ \A h \in Host : \A b \in store[h] : rows[h][b] \in Row
  BY DEF RowsOK, store

LEMMA Types ==
    ASSUME TypeOK
    PROVE  RowsOK /\ store \in [Host -> SUBSET Block]
  <1>1. RowsOK
    BY DEF TypeOK, RowsOK
  <1> QED  BY <1>1, StoreFacts

(* A step that leaves the rows alone keeps them.                           *)
LEMMA SameRows ==
    ASSUME RowsOK, UNCHANGED rows
    PROVE  Keeps /\ store' = store
  BY DEF RowsOK, store, Keeps

(* An insert only adds, and only its block.                                *)
LEMMA InsertFacts ==
    ASSUME RowsOK, NEW h \in Host, NEW b \in Block, NEW row \in Row, Insert(h, b, row)
    PROVE  Keeps /\ b \in store'[h]
  <1> DEFINE new == [c \in store[h] \cup {b} |-> IF c \in store[h] THEN rows[h][c] ELSE row]
  <1>1. /\ DOMAIN rows' = Host /\ rows'[h] = new
        /\ \A g \in Host \ {h} : rows'[g] = rows[g]
    BY DEF RowsOK, Insert
  <1>2. /\ store[h] \subseteq Block /\ \A c \in store[h] : rows[h][c] \in Row
        /\ \A g \in Host : store[g] = DOMAIN rows[g]
    BY StoreFacts
  <1>3. /\ new \in [store[h] \cup {b} -> Row] /\ DOMAIN new = store[h] \cup {b}
        /\ \A c \in store[h] : new[c] = rows[h][c]
    BY <1>2
  <1> HIDE DEF new
  <1>4. RowsOK'
    BY <1>1, <1>2, <1>3 DEF RowsOK
  <1>5. store' = [g \in Host |-> DOMAIN rows'[g]]
    BY DEF store
  <1> QED  BY <1>1, <1>2, <1>3, <1>4, <1>5 DEF Keeps

(* What can be sent is a message about a block of the sender's.            *)
LEMMA AcceptedFacts ==
    ASSUME NEW m \in Message, Accepted(m)
    PROVE  m.root \in Portable /\ m.root \in Block /\ m.form \in Row
  BY DEF Message, Accepted, Row

(* A walk takes one step and the others none.                              *)
LEMMA WalksFacts ==
    ASSUME walk \in [Host -> Walk], NEW h \in Host, NEW w \in Walk, Walks(h, w)
    PROVE  /\ walk' \in [Host -> Walk]
           /\ walk'[h] = w
           /\ \A g \in Host \ {h} : walk'[g] = walk[g]
  BY DEF Walks

(* No walk: nothing is in hand.                                           *)
LEMMA IdleFacts ==
    /\ Idle \in Walk
    /\ Idle.phase = "none" /\ Idle.asked = 0 /\ Idle.pending = {} /\ Idle.specs = {}
  BY BlockFacts DEF Idle, Walk

LEMMA IdleOK ==
    ASSUME NEW h \in Host, NEW st
    PROVE  WalkOK(Idle, h, st)
  BY BlockFacts, IdleFacts DEF WalkOK

(* What holds of a walk goes on holding while the registries grow.         *)
LEMMA WalkOKGrows ==
    ASSUME NEW w \in Walk, NEW h \in Host, NEW st, NEW st2,
           \A g \in Host : st[g] \subseteq st2[g], WalkOK(w, h, st)
    PROVE  WalkOK(w, h, st2)
  <1>1. w.peer \in Host
    BY DEF Walk
  <1> QED  BY <1>1 DEF WalkOK

(* A step that touches no walk, while the registries only grow.            *)
LEMMA WalksGrow ==
    ASSUME TypeOK, WalksOK, UNCHANGED walk, \A g \in Host : store[g] \subseteq store'[g]
    PROVE  WalksOK'
  <1> SUFFICES ASSUME NEW h \in Host PROVE WalkOK(walk[h], h, store')
    BY DEF WalksOK
  <1>1. walk[h] \in Walk /\ WalkOK(walk[h], h, store)
    BY DEF TypeOK, WalksOK
  <1> QED  BY <1>1, WalkOKGrows

(* A step of the walk on h.                                                *)
LEMMA WalksStep ==
    ASSUME TypeOK, WalksOK, NEW h \in Host, NEW w \in Walk, Walks(h, w),
           \A g \in Host : store[g] \subseteq store'[g],
           WalkOK(w, h, store')
    PROVE  WalksOK'
  <1> SUFFICES ASSUME NEW g \in Host PROVE WalkOK(walk'[g], g, store')
    BY DEF WalksOK
  <1>1. walk \in [Host -> Walk]
    BY DEF TypeOK
  <1>2. CASE g = h
    BY <1>1, <1>2, WalksFacts
  <1>3. CASE g # h
    <2>1. walk[g] \in Walk /\ WalkOK(walk[g], g, store)
      BY <1>1 DEF WalksOK
    <2>2. walk'[g] = walk[g]
      BY <1>1, <1>3, WalksFacts
    <2> QED  BY <2>1, <2>2, WalkOKGrows
  <1> QED  BY <1>2, <1>3

-----------------------------------------------------------------------------
(* Every set of numbers that is not empty has a least element: the least   *)
(* of the intervals that end in it.                                        *)
LEMMA LeastElement ==
    ASSUME NEW S \in SUBSET Nat, S # {}
    PROVE  \E b \in S : \A c \in S : b <= c
  <1> DEFINE T == {1..b : b \in S}
  <1> DEFINE R == StrictSubsetOrdering(Nat)
  <1>1. T \subseteq FiniteSubsetsOf(Nat) /\ T # {}
    <2>1. \A b \in S : IsFiniteSet(1..b) /\ 1..b \subseteq Nat
      BY FS_Interval
    <2> QED  BY <2>1 DEF FiniteSubsetsOf
  <1>2. IsWellFoundedOn(R, FiniteSubsetsOf(Nat))
    BY FS_StrictSubsetOrderingWellFounded
  <1>3. PICK x \in T : \A y \in T : ~(<<y, x>> \in R)
    <2> HIDE DEF T, R
    <2> QED  BY <1>1, <1>2, WFMin
  <1>4. PICK b \in S : x = 1..b
    OBVIOUS
  <1>5. ASSUME NEW c \in S, c < b PROVE FALSE
    <2>1. 1..c \in T /\ 1..c \subseteq 1..b /\ b \in 1..b /\ b \notin 1..c
      BY <1>5
    <2>2. <<1..c, x>> \in R
      BY <2>1, <1>4 DEF StrictSubsetOrdering
    <2> QED  BY <1>3, <2>1, <2>2
  <1> QED  BY <1>5

(* And a greatest, if it is a set of blocks: the least of its upper bounds.*)
LEMMA GreatestBlock ==
    ASSUME NEW S \in SUBSET Block, S # {}
    PROVE  \E b \in S : \A c \in S : c <= b
  <1> DEFINE U == {n \in Nat : \A c \in S : c <= n}
  <1>1. U \in SUBSET Nat /\ LastBlock \in U
    BY FederationAssumption DEF FederationAssumption, Block
  <1>2. PICK m \in U : \A n \in U : m <= n
    <2> HIDE DEF U
    <2> QED  BY <1>1, LeastElement
  <1>3. m \in Nat /\ S \subseteq Nat \ {0} /\ \A c \in S : c <= m
    BY <1>2, FederationAssumption DEF FederationAssumption, Block
  <1>4. m > 0
    <2>1. PICK c \in S : TRUE
      OBVIOUS
    <2>2. c \in Nat /\ c # 0 /\ c <= m
      BY <1>3
    <2> QED  BY <1>3, <2>2
  <1>5. ASSUME m \notin S PROVE FALSE
    <2>1. m - 1 \in Nat /\ \A c \in S : c <= m - 1
      BY <1>3, <1>4, <1>5
    <2>2. m - 1 \in U
      BY <2>1
    <2> QED  BY <1>2, <1>3, <2>2
  <1> QED  BY <1>3, <1>5

(* The first n of a set: it is closed downwards, it is not empty if the    *)
(* set is not, and it is the whole set if it has fewer than n elements.    *)
LEMMA FirstFacts ==
    ASSUME NEW S \in SUBSET Block, NEW n \in Nat \ {0}
    PROVE  /\ First(n, S) \subseteq S
           /\ \A b \in First(n, S), c \in S : c <= b => c \in First(n, S)
           /\ S # {} => First(n, S) # {}
           /\ Cardinality(First(n, S)) < n => First(n, S) = S
  <1> DEFINE Below(b) == {c \in S : c < b}
  <1>1. S \subseteq Nat /\ IsFiniteSet(S)
    <2>1. IsFiniteSet(Block) /\ Block \subseteq Nat
      BY FS_Interval, FederationAssumption DEF FederationAssumption, Block
    <2> QED  BY <2>1, FS_Subset
  <1>2. \A b : IsFiniteSet(Below(b)) /\ Cardinality(Below(b)) \in Nat
    BY <1>1, FS_Subset, FS_CardinalityType
  <1>3. First(n, S) = {b \in S : Cardinality(Below(b)) < n}
    BY DEF First
  <1>4. ASSUME NEW b \in First(n, S), NEW c \in S, c <= b PROVE c \in First(n, S)
    <2>0. b \in Nat /\ c \in Nat
      BY <1>1, <1>3
    <2>1. Below(c) \subseteq Below(b)
      <3>1. ASSUME NEW e \in S, e < c PROVE e < b
        <4>1. e \in Nat
          BY <1>1
        <4> QED  BY <1>4, <2>0, <3>1, <4>1
      <3> QED  BY <3>1
    <2>2. Cardinality(Below(c)) <= Cardinality(Below(b))
      BY <1>2, <2>1, FS_Subset
    <2>3. Cardinality(Below(b)) < n
      BY <1>3
    <2> HIDE DEF Below
    <2>4. Cardinality(Below(c)) < n
      BY <1>2, <2>2, <2>3
    <2> QED  BY <1>3, <2>4
  <1>5. ASSUME S # {} PROVE First(n, S) # {}
    <2>1. PICK b \in S : \A c \in S : b <= c
      BY <1>1, <1>5, LeastElement
    <2>2. Below(b) = {}
      <3>1. ASSUME NEW e \in S, e < b PROVE FALSE
        <4>1. e \in Nat /\ b \in Nat /\ b <= e
          BY <1>1, <2>1
        <4> QED  BY <3>1, <4>1
      <3> QED  BY <3>1
    <2>3. Cardinality(Below(b)) = 0
      BY <2>2, FS_EmptySet
    <2> QED  BY <1>3, <2>3
  <1>6. ASSUME Cardinality(First(n, S)) < n, First(n, S) # S PROVE FALSE
    <2>1. S \ First(n, S) # {} /\ S \ First(n, S) \in SUBSET Nat
      BY <1>1, <1>3, <1>6
    <2>2. PICK b \in S \ First(n, S) : \A c \in S \ First(n, S) : b <= c
      BY <2>1, LeastElement
    <2>3. Below(b) \subseteq First(n, S)
      <3>1. ASSUME NEW e \in S, e < b PROVE e \in First(n, S)
        <4>1. e \in Nat /\ b \in Nat
          BY <1>1, <2>2
        <4>2. e \notin S \ First(n, S)
          BY <2>2, <3>1, <4>1
        <4> QED  BY <4>2
      <3> QED  BY <3>1
    <2>4. IsFiniteSet(First(n, S)) /\ Cardinality(First(n, S)) \in Nat
      BY <1>1, <1>3, FS_Subset, FS_CardinalityType
    <2>5. Cardinality(Below(b)) <= Cardinality(First(n, S))
      BY <2>3, <2>4, FS_Subset
    <2> HIDE DEF Below
    <2>6. Cardinality(Below(b)) < n
      BY <1>2, <1>6, <2>4, <2>5
    <2> QED  BY <1>3, <2>2, <2>6
  <1> QED  BY <1>3, <1>4, <1>5, <1>6

(* A page holds what comes after the cursor, up to the next cursor if there*)
(* is one.                                                                 *)
LEMMA PageFacts ==
    ASSUME TypeOK, NEW cursor \in Block \cup {0}
    PROVE  LET After == {b \in store[commons] : b > cursor}
               next == NextCursor(cursor)
           IN  /\ next \in Block \cup {0}
               /\ next = 0 => Page(cursor) = After
               /\ next # 0 => next > cursor /\ Page(cursor) = {b \in After : b <= next}
  <1> DEFINE After == {b \in store[commons] : b > cursor}
  <1> DEFINE next == NextCursor(cursor)
  <1>1. /\ After \in SUBSET Block /\ Block \subseteq Nat \ {0}
        /\ PageLimit \in Nat \ {0} /\ PageLimit + 1 \in Nat \ {0}
    BY FederationAssumption, Types DEF FederationAssumption, Block
  <1>2. Rows(cursor) = First(PageLimit + 1, After)
    BY DEF Rows
  <1> HIDE DEF After
  <1>3. /\ Rows(cursor) \in SUBSET Block /\ Rows(cursor) \subseteq After
        /\ \A b \in Rows(cursor), c \in After : c <= b => c \in Rows(cursor)
        /\ Cardinality(Rows(cursor)) < PageLimit + 1 => Rows(cursor) = After
    <2> DEFINE F == First(PageLimit + 1, After)
    <2>1. /\ F \subseteq After
          /\ \A b \in F, c \in After : c <= b => c \in F
          /\ Cardinality(F) < PageLimit + 1 => F = After
      BY <1>1, FirstFacts
    <2> HIDE DEF F
    <2>2. Rows(cursor) = F
      BY <1>2 DEF F
    <2> QED  BY <1>1, <2>1, <2>2
  <1>4. IsFiniteSet(Rows(cursor)) /\ Cardinality(Rows(cursor)) \in Nat
    <2>1. IsFiniteSet(Block)
      BY FS_Interval, FederationAssumption DEF FederationAssumption, Block
    <2> QED  BY <1>3, <2>1, FS_Subset, FS_CardinalityType
  <1>5. CASE ~HasMore(cursor)
    <2>1. next = 0 /\ Page(cursor) = Rows(cursor)
      BY <1>5 DEF NextCursor, Page
    <2>2. Cardinality(Rows(cursor)) < PageLimit + 1
      BY <1>1, <1>4, <1>5 DEF HasMore
    <2> QED  BY <1>3, <2>1, <2>2 DEF After
  <1>6. CASE HasMore(cursor)
    <2>1. Rows(cursor) # {}
      <3>1. Cardinality(Rows(cursor)) # 0
        BY <1>1, <1>4, <1>6 DEF HasMore
      <3> QED  BY <3>1, FS_EmptySet
    <2>2. /\ Page(cursor) \in SUBSET Block /\ Page(cursor) \subseteq Rows(cursor)
          /\ Page(cursor) # {}
          /\ \A b \in Page(cursor), c \in Rows(cursor) : c <= b => c \in Page(cursor)
      <3> DEFINE F == First(PageLimit, Rows(cursor))
      <3>1. /\ F \subseteq Rows(cursor)
            /\ \A b \in F, c \in Rows(cursor) : c <= b => c \in F
            /\ Rows(cursor) # {} => F # {}
        <4>1. Rows(cursor) \in SUBSET Block
          BY <1>3
        <4> QED  BY <1>1, <4>1, FirstFacts
      <3> HIDE DEF F
      <3>2. Page(cursor) = F
        BY <1>6 DEF Page, F
      <3> QED  BY <1>3, <2>1, <3>1, <3>2
    <2>3. next \in Page(cursor) /\ \A c \in Page(cursor) : c <= next
      <3>1. \E b \in Page(cursor) : \A c \in Page(cursor) : c <= b
        BY <2>2, GreatestBlock
      <3>2. next = CHOOSE b \in Page(cursor) : \A c \in Page(cursor) : c <= b
        BY <1>6 DEF NextCursor
      <3> HIDE DEF next
      <3> QED  BY <3>1, <3>2
    <2> HIDE DEF next
    <2>4. next \in Block /\ next # 0 /\ next \in After
      BY <1>1, <1>3, <2>2, <2>3
    <2>5. \A b \in After : b <= next => b \in Page(cursor)
      BY <1>3, <2>2, <2>3
    <2>6. Page(cursor) = {b \in After : b <= next}
      BY <1>3, <2>2, <2>3, <2>5
    <2>7. next > cursor
      BY <2>4 DEF After
    <2> QED  BY <2>4, <2>6, <2>7 DEF After, next
  <1> QED  BY <1>5, <1>6

-----------------------------------------------------------------------------
LEMMA InitHolds == Init => IInv
  <1> SUFFICES ASSUME Init PROVE IInv
    OBVIOUS
  <1>1. TypeOK
    <2>1. Closed \in Reader
      BY DEF Closed, Reader
    <2> QED  BY <2>1, IdleFacts DEF Init, TypeOK, Row
  <1>2. WalksOK
    BY IdleOK DEF Init, WalksOK
  <1>3. AnswersAreThere /\ MarkedIsThere /\ ReaderOK
    BY DEF Init, AnswersAreThere, MarkedIsThere, ReaderOK, Closed
  <1> QED  BY <1>1, <1>2, <1>3 DEF IInv

(* A step of a capturing command or of the commons' answer to it.          *)
LEMMA CaptureStep ==
    ASSUME IInv,
           UNCHANGED <<walk, reader>>,
           Keeps,
           marked' \in [Host -> SUBSET Block],
           session' \in [Host -> {"none", "open", "closed"}],
           requests' \subseteq Submitter \X Block,
           orphans' \subseteq Submitter \X Block,
           answers' \subseteq Submitter \X Block,
           AnswersAreThere', MarkedIsThere'
    PROVE  IInv'
  <1>1. TypeOK'
    BY DEF IInv, TypeOK, RowsOK, Keeps
  <1>2. WalksOK'
    BY WalksGrow DEF IInv, Keeps
  <1>3. ReaderOK'
    BY BlockFacts DEF IInv, ReaderOK, Keeps
  <1> QED  BY <1>1, <1>2, <1>3 DEF IInv

(* A step of the mirror on h, which leads to the walk w.                   *)
LEMMA MirrorStepHolds ==
    ASSUME IInv, NEW h \in Host, NEW w \in Walk,
           Walks(h, w),
           UNCHANGED <<captureVars, reader>>,
           Keeps,
           WalkOK(w, h, store')
    PROVE  IInv'
  <1>1. walk' \in [Host -> Walk]
    BY WalksFacts DEF IInv, TypeOK
  <1>2. TypeOK'
    BY <1>1 DEF IInv, TypeOK, RowsOK, Keeps, captureVars
  <1>3. WalksOK'
    BY WalksStep DEF IInv, Keeps
  <1>4. AnswersAreThere' /\ MarkedIsThere' /\ ReaderOK'
    BY BlockFacts DEF IInv, captureVars, AnswersAreThere, MarkedIsThere, ReaderOK, Keeps
  <1> QED  BY <1>2, <1>3, <1>4 DEF IInv

-----------------------------------------------------------------------------
(* The actions of a capturing command.                                     *)
LEMMA SessionSteps ==
    ASSUME IInv, NEW h \in Submitter, OpenSession(h) \/ CloseRegistry(h) \/ Exit(h)
    PROVE  IInv'
  <1>1. UNCHANGED <<rows, marked, walk, reader>>
    BY DEF OpenSession, CloseRegistry, Exit
  <1>same. Keeps /\ store' = store
    BY <1>1, Types, SameRows DEF IInv
  <1>2. session' \in [Host -> {"none", "open", "closed"}]
    BY DEF IInv, TypeOK, OpenSession, CloseRegistry, Exit
  <1>3. /\ requests' \subseteq requests /\ answers' \subseteq answers
        /\ orphans' \subseteq requests \cup orphans
    BY DEF OpenSession, CloseRegistry, Exit
  <1>4. AnswersAreThere' /\ MarkedIsThere'
    BY <1>same, <1>1, <1>3 DEF IInv, AnswersAreThere, MarkedIsThere
  <1> QED  BY <1>same, <1>1, <1>2, <1>3, <1>4, CaptureStep DEF IInv, TypeOK

LEMMA StoreBlockStep ==
    ASSUME IInv, NEW h \in Host, NEW b \in Block, StoreBlock(h, b)
    PROVE  IInv'
  <1>1. Insert(h, b, "whole") /\ Keeps
    BY Types, InsertFacts DEF IInv, StoreBlock, Row
  <1>2. requests' \subseteq requests \cup ({<<h, b>>} \cap (Submitter \X Block))
    BY DEF StoreBlock, Posted
  <1>3. UNCHANGED <<marked, session, orphans, answers, walk, reader>>
    BY DEF StoreBlock
  <1>4. AnswersAreThere' /\ MarkedIsThere'
    BY <1>1, <1>3, BlockFacts DEF IInv, AnswersAreThere, MarkedIsThere, Keeps
  <1> QED  BY <1>1, <1>2, <1>3, <1>4, CaptureStep DEF IInv, TypeOK

LEMMA SubmitBlockStep ==
    ASSUME IInv, NEW h \in Submitter, NEW m \in Message, SubmitBlock(h, m)
    PROVE  IInv'
  <1>0. h \in Host /\ commons \in Host /\ m.root \in Block
    BY BlockFacts DEF Message
  <1>1. Keeps /\ (Accepted(m) => m.root \in store'[commons])
    <2>1. CASE Accepted(m)
      BY <1>0, <2>1, Types, AcceptedFacts, InsertFacts DEF IInv, SubmitBlock
    <2>2. CASE ~Accepted(m)
      BY <2>2, Types, SameRows DEF IInv, SubmitBlock
    <2> QED  BY <2>1, <2>2
  <1>2. /\ requests' \subseteq requests /\ orphans' \subseteq orphans
        /\ UNCHANGED <<marked, session, walk, reader>>
    BY DEF SubmitBlock
  <1>3. \/ answers' = answers
        \/ Accepted(m) /\ answers' \subseteq answers \cup ({<<h, m.root>>} \cap requests)
    BY DEF SubmitBlock, Replied
  <1>4. MarkedIsThere'
    BY <1>0, <1>1, <1>2 DEF IInv, MarkedIsThere, Keeps
  <1>5. AnswersAreThere'
    <2> SUFFICES ASSUME NEW g \in Host, NEW c \in Block, <<g, c>> \in answers'
                 PROVE  c \in store'[commons]
      BY DEF AnswersAreThere
    <2>1. CASE <<g, c>> \in answers
      BY <1>0, <1>1, <2>1 DEF IInv, AnswersAreThere, Keeps
    <2>2. CASE Accepted(m) /\ <<g, c>> = <<h, m.root>>
      BY <1>1, <2>2
    <2> QED  BY <1>3, <2>1, <2>2
  <1>6. answers' \subseteq Submitter \X Block
    BY <1>3 DEF IInv, TypeOK
  <1> QED  BY <1>1, <1>2, <1>4, <1>5, <1>6, CaptureStep DEF IInv, TypeOK

LEMMA LossSteps ==
    ASSUME IInv, NEW h \in Submitter, NEW b \in Block,
           LoseRequest(h, b) \/ LoseAnswer(h, b)
    PROVE  IInv'
  <1>1. /\ requests' \subseteq requests /\ orphans' \subseteq orphans
        /\ answers' \subseteq answers
        /\ UNCHANGED <<rows, marked, session, walk, reader>>
    BY DEF LoseRequest, LoseAnswer
  <1>2. Keeps /\ store' = store
    BY <1>1, Types, SameRows DEF IInv
  <1>3. AnswersAreThere' /\ MarkedIsThere'
    BY <1>1, <1>2 DEF IInv, AnswersAreThere, MarkedIsThere
  <1> QED  BY <1>1, <1>2, <1>3, CaptureStep DEF IInv, TypeOK

LEMMA MarkSubmittedStep ==
    ASSUME IInv, NEW h \in Submitter, NEW b \in Block, MarkSubmitted(h, b)
    PROVE  IInv'
  <1>1. /\ answers' \subseteq answers
        /\ UNCHANGED <<rows, session, requests, orphans, walk, reader>>
    BY DEF MarkSubmitted
  <1>same. Keeps /\ store' = store
    BY <1>1, Types, SameRows DEF IInv
  <1>2. h \in Host /\ b \in store[commons]
    BY BlockFacts DEF IInv, AnswersAreThere, MarkSubmitted
  <1>3. /\ marked' \in [Host -> SUBSET Block]
        /\ \A g \in Host : marked'[g] \subseteq marked[g] \cup {b}
    BY <1>2 DEF IInv, TypeOK, MarkSubmitted
  <1>4. AnswersAreThere' /\ MarkedIsThere'
    BY <1>same, <1>1, <1>2, <1>3 DEF IInv, AnswersAreThere, MarkedIsThere
  <1> QED  BY <1>same, <1>1, <1>3, <1>4, CaptureStep DEF IInv, TypeOK

(* The pull command.                                                       *)
LEMMA PullStep ==
    ASSUME IInv, NEW h \in Host, NEW peer \in Host, NEW m \in Message, Pull(h, peer, m)
    PROVE  IInv'
  <1>1. Insert(h, m.root, m.form) /\ UNCHANGED <<captureVars, walk, reader>>
    BY DEF Pull
  <1>2. Keeps
    BY <1>1, Types, AcceptedFacts, InsertFacts DEF IInv, Pull
  <1>3. AnswersAreThere' /\ MarkedIsThere'
    BY <1>1, <1>2, BlockFacts DEF IInv, AnswersAreThere, MarkedIsThere, captureVars, Keeps
  <1> QED  BY <1>1, <1>2, <1>3, CaptureStep DEF IInv, TypeOK, captureVars

-----------------------------------------------------------------------------
(* The actions of a mirror command.                                        *)
LEMMA StartsAndEnds ==
    ASSUME IInv, NEW h \in Host, NEW peer \in Host,
           \/ StartMirror(h, peer) \/ CheckSchemaVersion(h)
           \/ EndMirror(h) \/ AbortMirror(h)
    PROVE  IInv'
  <1>1. UNCHANGED <<rows, captureVars, reader>>
    BY DEF StartMirror, CheckSchemaVersion, EndMirror, AbortMirror
  <1>2. Keeps /\ store' = store
    BY <1>1, Types, SameRows DEF IInv
  <1>3. ASSUME Walks(h, Idle) PROVE IInv'
    BY <1>1, <1>2, <1>3, IdleFacts, IdleOK, MirrorStepHolds
  <1>4. ASSUME StartMirror(h, peer) PROVE IInv'
    <2> DEFINE w == [Idle EXCEPT !.phase = "gate", !.peer = peer]
    <2>1. /\ w \in Walk /\ w.phase = "gate"
          /\ w.asked = 0 /\ w.pending = {}
      BY BlockFacts DEF Idle, Walk
    <2>2. Walks(h, w)
      BY <1>4 DEF StartMirror
    <2> HIDE DEF w
    <2>3. WalkOK(w, h, store')
      BY <2>1, BlockFacts DEF WalkOK
    <2> QED  BY <1>1, <1>2, <2>1, <2>2, <2>3, MirrorStepHolds
  <1>5. ASSUME CheckSchemaVersion(h), ~Walks(h, Idle) PROVE IInv'
    <2> DEFINE w == [walk[h] EXCEPT !.phase = "specs"]
    <2>1. walk[h] \in Walk /\ walk[h].asked = 0 /\ walk[h].pending = {}
      BY <1>5 DEF IInv, TypeOK, WalksOK, WalkOK, CheckSchemaVersion
    <2>2. w \in Walk /\ w.phase = "specs" /\ w.asked = 0 /\ w.pending = {}
      BY <2>1 DEF Walk
    <2>3. Walks(h, w)
      BY <1>5 DEF CheckSchemaVersion, Abandon
    <2> HIDE DEF w
    <2>4. WalkOK(w, h, store')
      BY <2>2, BlockFacts DEF WalkOK
    <2> QED  BY <1>1, <1>2, <2>2, <2>3, <2>4, MirrorStepHolds
  <1> QED  BY <1>3, <1>4, <1>5 DEF EndMirror, AbortMirror, Abandon

LEMMA ListSpecsStep ==
    ASSUME IInv, NEW h \in Host, ListSpecs(h)
    PROVE  IInv'
  <1> DEFINE there == store[walk[h].peer]
  <1> DEFINE w == [walk[h] EXCEPT !.phase = "walking", !.specs = {SpecOf[b] : b \in there},
                                 !.owed = there]
  <1>1. UNCHANGED <<rows, captureVars, reader>> /\ Walks(h, w)
    BY DEF ListSpecs
  <1>2. Keeps /\ store' = store
    BY <1>1, Types, SameRows DEF IInv
  <1>3. walk[h] \in Walk /\ walk[h].asked = 0 /\ walk[h].pending = {}
    BY DEF IInv, TypeOK, WalksOK, WalkOK, ListSpecs
  <1>4. there \in SUBSET Block
    BY <1>3, Types DEF IInv, Walk
  <1>5. {SpecOf[b] : b \in there} \in SUBSET Spec0
    BY <1>4, BlockFacts
  <1>6. /\ w \in Walk /\ w.phase = "walking" /\ w.asked = 0 /\ w.pending = {}
        /\ w.owed = there /\ w.specs = {SpecOf[b] : b \in there}
        /\ w.peer = walk[h].peer
    BY <1>3, <1>4, <1>5 DEF Walk
  <1> HIDE DEF w
  <1>7. WalkOK(w, h, store)
    BY <1>6, BlockFacts DEF WalkOK
  <1>8. WalkOK(w, h, store')
    BY <1>2, <1>7
  <1> QED  BY <1>1, <1>2, <1>6, <1>8, MirrorStepHolds

LEMMA ListBlocksStep ==
    ASSUME IInv, NEW h \in Host, NEW s \in Spec0, ListBlocks(h, s)
    PROVE  IInv'
  <1> DEFINE w == [walk[h] EXCEPT !.phase = "blocks", !.specs = @ \ {s}, !.pending = Listed(h, s)]
  <1>1. UNCHANGED <<rows, captureVars, reader>> /\ Walks(h, w)
    BY DEF ListBlocks
  <1>2. Keeps /\ store' = store
    BY <1>1, Types, SameRows DEF IInv
  <1>3. /\ walk[h] \in Walk /\ WalkOK(walk[h], h, store)
        /\ walk[h].phase = "walking"
    BY DEF IInv, TypeOK, WalksOK, ListBlocks
  <1>4. Listed(h, s) \in SUBSET Block /\ Listed(h, s) \subseteq store[walk[h].peer]
        /\ \A b \in store[walk[h].peer] : SpecOf[b] = s => b \in Listed(h, s)
    BY <1>3, Types DEF IInv, Walk, Listed
  <1>5. /\ w \in Walk /\ w.phase = "blocks" /\ w.asked = walk[h].asked
        /\ w.pending = Listed(h, s) /\ w.owed = walk[h].owed /\ w.failed = walk[h].failed
        /\ w.swapped = walk[h].swapped /\ w.specs = walk[h].specs \ {s} /\ w.peer = walk[h].peer
    BY <1>3, <1>4 DEF Walk
  <1> HIDE DEF w
  <1>6. walk[h].asked = 0 /\ walk[h].pending = {} /\ w.asked = 0
    BY <1>3, <1>5 DEF WalkOK
  <1>7. WalkOK(w, h, store)
    <2>1. w.owed \subseteq store[w.peer]
      BY <1>3, <1>5 DEF WalkOK
    <2>2. ASSUME NEW b \in w.owed
          PROVE  \/ b \in store[h] \cup w.failed \cup w.pending \cup {w.asked}
                 \/ b \in w.swapped
                 \/ SpecOf[b] \in w.specs
      <3>1. \/ b \in store[h] \cup walk[h].failed \cup walk[h].pending \cup {walk[h].asked}
            \/ b \in walk[h].swapped
            \/ SpecOf[b] \in walk[h].specs
        BY <1>3, <1>5 DEF WalkOK
      <3>2. SpecOf[b] = s => b \in w.pending
        BY <1>4, <1>5, <2>1, <2>2
      <3> QED  BY <1>5, <1>6, <3>1, <3>2
    <2> QED  BY <1>5, <1>6, <2>1, <2>2 DEF WalkOK
  <1>8. WalkOK(w, h, store')
    BY <1>2, <1>7
  <1> QED  BY <1>1, <1>2, <1>5, <1>8, MirrorStepHolds

LEMMA ConsiderBlockStep ==
    ASSUME IInv, NEW h \in Host, NEW b \in Block, ConsiderBlock(h, b)
    PROVE  IInv'
  <1> DEFINE a == IF b \in store[h] THEN 0 ELSE b
  <1> DEFINE w == [walk[h] EXCEPT !.pending = @ \ {b}, !.asked = a]
  <1>1. UNCHANGED <<rows, captureVars, reader>> /\ Walks(h, w)
    BY DEF ConsiderBlock
  <1>2. Keeps /\ store' = store
    BY <1>1, Types, SameRows DEF IInv
  <1>3. /\ walk[h] \in Walk /\ WalkOK(walk[h], h, store)
        /\ walk[h].phase = "blocks" /\ walk[h].asked = 0 /\ b \in walk[h].pending
    BY DEF IInv, TypeOK, WalksOK, ConsiderBlock
  <1>4. a \in Block \cup {0} /\ a \in {0, b} /\ (a # b => b \in store[h])
    OBVIOUS
  <1> HIDE DEF a
  <1>5. /\ w \in Walk /\ w.phase = "blocks" /\ w.asked = a
        /\ w.pending = walk[h].pending \ {b} /\ w.owed = walk[h].owed
        /\ w.failed = walk[h].failed /\ w.swapped = walk[h].swapped
        /\ w.specs = walk[h].specs /\ w.peer = walk[h].peer
    BY <1>3, <1>4 DEF Walk
  <1> HIDE DEF w
  <1>6. WalkOK(w, h, store)
    <2>1. w.owed \subseteq store[w.peer]
      BY <1>3, <1>5 DEF WalkOK
    <2>2. ASSUME NEW c \in w.owed
          PROVE  \/ c \in store[h] \cup w.failed \cup w.pending \cup {w.asked}
                 \/ c \in w.swapped
                 \/ SpecOf[c] \in w.specs
      <3>1. \/ c \in store[h] \cup walk[h].failed \cup walk[h].pending \cup {walk[h].asked}
            \/ c \in walk[h].swapped
            \/ SpecOf[c] \in walk[h].specs
        BY <1>3, <1>5 DEF WalkOK
      <3>2. c # 0
        BY <1>3, <1>5, BlockFacts DEF Walk
      <3> QED  BY <1>3, <1>4, <1>5, <3>1, <3>2
    <2> QED  BY <1>5, <2>1, <2>2 DEF WalkOK
  <1>7. WalkOK(w, h, store')
    BY <1>2, <1>6
  <1> QED  BY <1>1, <1>2, <1>5, <1>7, MirrorStepHolds

LEMMA BlockArrivesStep ==
    ASSUME IInv, NEW h \in Host, NEW m \in Message, BlockArrives(h, m)
    PROVE  IInv'
  <1> DEFINE b == walk[h].asked
  <1>1. /\ walk[h] \in Walk /\ WalkOK(walk[h], h, store)
        /\ walk[h].phase = "blocks" /\ b # 0 /\ b \in Block
        /\ UNCHANGED <<captureVars, reader>>
    BY DEF IInv, TypeOK, WalksOK, BlockArrives, Walk
  <1>2. CASE Accepted(m)
    <2> DEFINE w == [walk[h] EXCEPT !.asked = 0, !.swapped = @ \cup ({b} \ {m.root})]
    <2>1. Insert(h, m.root, m.form) /\ Walks(h, w)
      BY <1>2 DEF BlockArrives
    <2>2. Keeps /\ m.root \in store'[h]
      BY <1>2, <2>1, Types, AcceptedFacts, InsertFacts DEF IInv
    <2>3. /\ w \in Walk /\ w.phase = "blocks" /\ w.asked = 0
          /\ w.pending = walk[h].pending /\ w.owed = walk[h].owed
          /\ w.failed = walk[h].failed /\ w.swapped = walk[h].swapped \cup ({b} \ {m.root})
          /\ w.specs = walk[h].specs /\ w.peer = walk[h].peer
      BY <1>1 DEF Walk
    <2> HIDE DEF w
    <2>4. WalkOK(walk[h], h, store')
      BY <1>1, <2>2, WalkOKGrows DEF Keeps
    <2>5. WalkOK(w, h, store')
      <3>1. ASSUME NEW c \in w.owed
            PROVE  \/ c \in store'[h] \cup w.failed \cup w.pending \cup {w.asked}
                   \/ c \in w.swapped
                   \/ SpecOf[c] \in w.specs
        <4>1. \/ c \in store'[h] \cup walk[h].failed \cup walk[h].pending \cup {b}
              \/ c \in walk[h].swapped
              \/ SpecOf[c] \in walk[h].specs
          BY <1>1, <2>3, <2>4 DEF WalkOK
        <4> QED  BY <2>2, <2>3, <4>1
      <3> QED  BY <1>1, <2>3, <2>4, <3>1 DEF WalkOK
    <2> QED  BY <1>1, <2>1, <2>2, <2>3, <2>5, MirrorStepHolds
  <1>3. CASE ~Accepted(m)
    <2> DEFINE w == [walk[h] EXCEPT !.asked = 0, !.failed = @ \cup {b}]
    <2>1. UNCHANGED rows /\ Walks(h, w)
      BY <1>3 DEF BlockArrives, Fails
    <2>2. Keeps /\ store' = store
      BY <2>1, Types, SameRows DEF IInv
    <2>3. /\ w \in Walk /\ w.phase = "blocks" /\ w.asked = 0
          /\ w.pending = walk[h].pending /\ w.owed = walk[h].owed
          /\ w.failed = walk[h].failed \cup {b} /\ w.swapped = walk[h].swapped
          /\ w.specs = walk[h].specs /\ w.peer = walk[h].peer
      BY <1>1 DEF Walk
    <2> HIDE DEF w
    <2>4. WalkOK(w, h, store)
      BY <1>1, <2>3 DEF WalkOK
    <2>5. WalkOK(w, h, store')
      BY <2>2, <2>4
    <2> HIDE DEF b
    <2> QED  BY <1>1, <2>1, <2>2, <2>3, <2>5, MirrorStepHolds
  <1> QED  BY <1>2, <1>3

LEMMA FinishSteps ==
    ASSUME IInv, NEW h \in Host, FinishSpec(h) \/ Report(h)
    PROVE  IInv'
  <1> DEFINE next == IF FinishSpec(h) THEN "walking" ELSE "report"
  <1> DEFINE w == [walk[h] EXCEPT !.phase = next]
  <1>1. UNCHANGED <<rows, captureVars, reader>>
    BY DEF FinishSpec, Report
  <1>2. Keeps /\ store' = store
    BY <1>1, Types, SameRows DEF IInv
  <1>3. Walks(h, w)
    BY DEF FinishSpec, Report
  <1>4. /\ walk[h] \in Walk /\ WalkOK(walk[h], h, store)
        /\ walk[h].asked = 0 /\ walk[h].pending = {}
        /\ walk[h].phase \in {"walking", "blocks"}
        /\ next \in {"walking", "report"} /\ (next = "report" => walk[h].specs = {})
    BY DEF IInv, TypeOK, WalksOK, WalkOK, FinishSpec, Report
  <1> HIDE DEF next
  <1>5. /\ w \in Walk /\ w.phase = next /\ w.asked = walk[h].asked
        /\ w.pending = walk[h].pending /\ w.owed = walk[h].owed
        /\ w.failed = walk[h].failed /\ w.swapped = walk[h].swapped
        /\ w.specs = walk[h].specs /\ w.peer = walk[h].peer
    BY <1>4 DEF Walk
  <1> HIDE DEF w
  <1>6. WalkOK(w, h, store)
    BY <1>4, <1>5, BlockFacts DEF WalkOK
  <1>7. WalkOK(w, h, store')
    BY <1>2, <1>6
  <1> QED  BY <1>1, <1>2, <1>3, <1>5, <1>7, MirrorStepHolds

(* A step of the catalog's reader.                                         *)
LEMMA ReaderSteps ==
    ASSUME IInv, OpenCatalog \/ ReadPage
    PROVE  IInv'
  <1> DEFINE c == reader.cursor
  <1> DEFINE next == NextCursor(c)
  <1>1. UNCHANGED <<rows, captureVars, walk>>
    BY DEF OpenCatalog, ReadPage
  <1>same. Keeps /\ store' = store
    BY <1>1, Types, SameRows DEF IInv
  <1>2. reader \in Reader /\ ReaderOK /\ c \in Block \cup {0} /\ store[commons] \in SUBSET Block
    BY BlockFacts, Types DEF IInv, TypeOK, Reader
  <1>3. reader' \in Reader /\ ReaderOK'
    <2>1. CASE OpenCatalog
      <3>1. /\ reader' \in Reader /\ reader'.listed = {} /\ reader'.cursor = 0
            /\ reader'.there = store[commons]
        BY <1>2, <2>1 DEF OpenCatalog, Reader
      <3>2. \A b \in Block : ~(b <= 0)
        BY FederationAssumption DEF FederationAssumption, Block
      <3> QED  BY <1>same, <1>2, <3>1, <3>2 DEF ReaderOK
    <2>2. CASE ReadPage /\ next = 0
      <3>1. reader' = Closed
        BY <2>2 DEF ReadPage
      <3> QED  BY <3>1 DEF Closed, Reader, ReaderOK
    <2>3. CASE ReadPage /\ next # 0
      <3>1. /\ next \in Block /\ next > c
            /\ Page(c) = {b \in store[commons] : b > c /\ b <= next}
        <4>1. LET After == {b \in store[commons] : b > c}
              IN  /\ next \in Block \cup {0}
                  /\ next # 0 => next > c /\ Page(c) = {b \in After : b <= next}
          <5> HIDE DEF c
          <5> QED  BY <1>2, PageFacts DEF IInv
        <4> HIDE DEF c, next
        <4> QED  BY <2>3, <4>1
      <3>2. reader' = [reader EXCEPT !.listed = @ \cup Page(c), !.cursor = next]
        BY <2>3 DEF ReadPage
      <3>3. /\ reader' \in Reader /\ reader'.listed = reader.listed \cup Page(c)
            /\ reader'.cursor = next /\ reader'.there = reader.there
        <4> HIDE DEF next
        <4>1. Page(c) \in SUBSET Block
          BY <1>2, <3>1
        <4> HIDE DEF c
        <4> QED  BY <1>2, <3>1, <3>2, <4>1 DEF Reader
      <3>4. /\ reader.there \subseteq store[commons] /\ \A b \in reader.listed : b <= c
            /\ \A b \in reader.there : b <= c => b \in reader.listed
        BY <1>2, <2>3 DEF ReaderOK, ReadPage
      <3>5. reader.listed \subseteq Int /\ c \in Int /\ next \in Int /\ store[commons] \subseteq Int
        <4> HIDE DEF next
        <4>1. Block \subseteq Int /\ 0 \in Int
          BY BlockFacts
        <4>2. reader.listed \subseteq Block
          BY <1>2 DEF Reader
        <4> HIDE DEF c
        <4> QED  BY <1>2, <3>1, <4>1, <4>2
      <3> HIDE DEF c, next
      <3>6. \A b \in reader'.listed : b <= next
        BY <3>1, <3>3, <3>4, <3>5
      <3>7. \A b \in reader.there : b <= next => b \in reader'.listed
        BY <3>1, <3>3, <3>4, <3>5
      <3> QED  BY <1>same, <3>3, <3>4, <3>6, <3>7 DEF ReaderOK
    <2> QED  BY <2>1, <2>2, <2>3
  <1>4. TypeOK'
    BY <1>1, <1>3 DEF IInv, TypeOK, captureVars
  <1>5. WalksOK'
    BY <1>same, <1>1, WalksGrow DEF IInv
  <1>6. AnswersAreThere' /\ MarkedIsThere'
    BY <1>same, <1>1 DEF IInv, captureVars, AnswersAreThere, MarkedIsThere
  <1> QED  BY <1>3, <1>4, <1>5, <1>6 DEF IInv

-----------------------------------------------------------------------------
LEMMA NextHolds == IInv /\ [Next]_vars => IInv'
  <1> SUFFICES ASSUME IInv, [Next]_vars PROVE IInv'
    OBVIOUS
  <1>1. ASSUME NEW h \in Capturer, NEW b \in Block, StoreBlock(h, b) PROVE IInv'
    <2>1. h \in Host
      BY BlockFacts
    <2> QED  BY <1>1, <2>1, StoreBlockStep
  <1>2. ASSUME NEW h \in Submitter, OpenSession(h) \/ CloseRegistry(h) \/ Exit(h) PROVE IInv'
    BY <1>2, SessionSteps
  <1>3. ASSUME NEW h \in Submitter, NEW m \in Message, SubmitBlock(h, m) PROVE IInv'
    BY <1>3, SubmitBlockStep
  <1>4. ASSUME NEW h \in Submitter, NEW b \in Block,
               LoseRequest(h, b) \/ LoseAnswer(h, b) \/ MarkSubmitted(h, b)
        PROVE  IInv'
    BY <1>4, LossSteps, MarkSubmittedStep
  <1>5. ASSUME NEW h \in Host, MirrorStep(h) PROVE IInv'
    <2>1. CASE CheckSchemaVersion(h) \/ EndMirror(h)
      BY <2>1, BlockFacts, StartsAndEnds
    <2>2. CASE ListSpecs(h)
      BY <2>2, ListSpecsStep
    <2>3. CASE \E s \in Spec0 : ListBlocks(h, s)
      BY <2>3, ListBlocksStep
    <2>4. CASE \E b \in Block : ConsiderBlock(h, b)
      BY <2>4, ConsiderBlockStep
    <2>5. CASE \E m \in Message : BlockArrives(h, m)
      BY <2>5, BlockArrivesStep
    <2>6. CASE FinishSpec(h) \/ Report(h)
      BY <2>6, FinishSteps
    <2> QED  BY <1>5, <2>1, <2>2, <2>3, <2>4, <2>5, <2>6 DEF MirrorStep
  <1>6. ASSUME NEW h \in Host, NEW peer \in Host, AbortMirror(h) \/ StartMirror(h, peer)
        PROVE  IInv'
    BY <1>6, StartsAndEnds
  <1>7. ASSUME NEW h \in Host, NEW peer \in Host, NEW m \in Message, Pull(h, peer, m)
        PROVE  IInv'
    BY <1>7, PullStep
  <1>8. ASSUME OpenCatalog \/ ReadPage PROVE IInv'
    BY <1>8, ReaderSteps
  <1>9. ASSUME UNCHANGED vars PROVE IInv'
    <2>0. store' = store
      BY <1>9, Types, SameRows DEF IInv, vars
    <2>1. TypeOK'
      BY <1>9 DEF IInv, TypeOK, vars
    <2>2. WalksOK'
      BY <1>9, <2>0, WalksGrow DEF IInv, vars
    <2>3. AnswersAreThere' /\ MarkedIsThere' /\ ReaderOK'
      BY <1>9, <2>0 DEF IInv, vars, AnswersAreThere, MarkedIsThere, ReaderOK
    <2> QED  BY <2>1, <2>2, <2>3 DEF IInv
  <1> QED  BY <1>1, <1>2, <1>3, <1>4, <1>5, <1>6, <1>7, <1>8, <1>9, BlockFacts DEF Next

(* IInv holds in every state the system reaches.                           *)
THEOREM Invariant == Spec => []IInv
  BY InitHolds, NextHolds, PTL DEF Spec

(* Every variable keeps to the values the code can give it.                *)
THEOREM TypeCorrect == Spec => []TypeOK
  <1>1. IInv => TypeOK
    BY DEF IInv
  <1> QED  BY <1>1, Invariant, PTL

(* No block is marked as submitted that the commons has not stored,        *)
(* whatever is lost and whenever commands end (commons-submit.ts, serve.ts *)
(* handleSubmitBlock).                                                     *)
THEOREM QueueForgetsNothing == Spec => []MarkedIsThere
  <1>1. IInv => MarkedIsThere
    BY DEF IInv
  <1> QED  BY <1>1, Invariant, PTL

(* Wherever a walk stands, the blocks its peer had when it listed its specs*)
(* are here, failed or ahead of it, and the report of mirrorRegistry       *)
(* accounts for all of them but those in whose place the peer sent another:*)
(* pullBlock does not compare the roots, and that is the only gap.         *)
THEOREM MirrorAccountsForPeer == Spec => [](WalkMissesNothing /\ ReportAccountsForPeer)
  <1>1. IInv => WalkMissesNothing
    BY DEF IInv, WalksOK, WalkOK, WalkMissesNothing
  <1>2. IInv => ReportAccountsForPeer
    <2> SUFFICES ASSUME IInv, NEW h \in Host, walk[h].phase = "report",
                        NEW b \in walk[h].owed,
                        b \notin walk[h].failed \cup walk[h].swapped
                 PROVE  b \in store[h]
      BY DEF ReportAccountsForPeer
    <2>1. WalkOK(walk[h], h, store) /\ walk[h] \in Walk
      BY DEF IInv, TypeOK, WalksOK
    <2>2. b # 0
      BY <2>1, BlockFacts DEF Walk
    <2> QED  BY <2>1, <2>2 DEF WalkOK
  <1> QED  BY <1>1, <1>2, Invariant, PTL

(* Whatever is inserted between the pages of listCatalogPage, a client     *)
(* that follows nextCursor to its end lists all that was there when it     *)
(* began, each block once.                                                 *)
THEOREM CatalogReading == Spec => []CatalogIsComplete
  <1>1. IInv => CatalogIsComplete
    <2> SUFFICES ASSUME IInv, reader.open
                 PROVE  /\ Page(reader.cursor) \cap reader.listed = {}
                        /\ NextCursor(reader.cursor) = 0 =>
                               reader.there \subseteq reader.listed \cup Page(reader.cursor)
      BY DEF CatalogIsComplete
    <2> DEFINE c == reader.cursor
    <2> DEFINE next == NextCursor(c)
    <2>1. /\ c \in Block \cup {0} /\ reader.listed \subseteq Int /\ c \in Int
          /\ store[commons] \subseteq Int
      <3>1. reader \in Reader /\ store[commons] \in SUBSET Block
        BY BlockFacts, Types DEF IInv, TypeOK
      <3>2. reader.cursor \in Block \cup {0} /\ reader.listed \subseteq Block
        BY <3>1 DEF Reader
      <3>3. Block \subseteq Int
        BY BlockFacts
      <3>4. c \in Block \cup {0}
        BY <3>2
      <3> HIDE DEF c
      <3>5. c \in Int
        BY <3>3, <3>4
      <3>6. reader.listed \subseteq Int
        BY <3>2, <3>3
      <3>7. store[commons] \subseteq Int
        BY <3>1, <3>3
      <3> QED  BY <3>4, <3>5, <3>6, <3>7
    <2>2. /\ reader.there \subseteq store[commons]
          /\ \A b \in reader.listed : b <= c
          /\ \A b \in reader.there : b <= c => b \in reader.listed
      BY DEF IInv, ReaderOK
    <2>3. LET After == {b \in store[commons] : b > c}
          IN  /\ next = 0 => Page(c) = After
              /\ next # 0 => Page(c) = {b \in After : b <= next}
      <3> HIDE DEF c
      <3> QED  BY <2>1, PageFacts DEF IInv
    <2> HIDE DEF c, next
    <2>4. \A b \in Page(c) : b \in Int /\ b > c
      BY <2>1, <2>3
    <2>5. Page(c) \cap reader.listed = {}
      BY <2>1, <2>2, <2>4
    <2>6. next = 0 => reader.there \subseteq reader.listed \cup Page(c)
      BY <2>1, <2>2, <2>3
    <2> QED  BY <2>5, <2>6 DEF c, next
  <1> QED  BY <1>1, Invariant, PTL

-----------------------------------------------------------------------------
(* Every step of the federation is a step of Replicas or leaves the        *)
(* registries alone.                                                       *)
LEMMA AbstractStep == IInv /\ [Next]_vars => [Abstract!Next]_rows
  <1> SUFFICES ASSUME IInv, Next, rows' # rows PROVE Abstract!Next
    BY DEF vars
  <1>0. \A h \in Host : store[h] = DOMAIN rows[h]
    BY Types, StoreFacts DEF IInv
  <1>1. ASSUME NEW h \in Host, NEW b \in Block, NEW row, Insert(h, b, row)
        PROVE  Abstract!Gain(h, b, row)
    BY <1>0, <1>1 DEF Insert, Abstract!Gain
  <1>2. ASSUME NEW h \in Capturer, NEW b \in Block, StoreBlock(h, b) PROVE Abstract!Next
    <2>1. h \in Host /\ b \in Made[h] /\ Insert(h, b, "whole")
      BY <1>2, BlockFacts DEF StoreBlock
    <2>2. Abstract!Create(h, b)
      BY <1>1, <2>1 DEF Abstract!Create
    <2> QED  BY <2>1, <2>2 DEF Abstract!Next
  <1>3. ASSUME NEW from \in Host, NEW to \in Host, NEW m \in Message,
               Sent(from, m), Accepted(m), Insert(to, m.root, m.form)
        PROVE  Abstract!Next
    <2>1. m.root \in Portable /\ m.root \in Block /\ m.form \in {"whole", "altered"}
      BY <1>3, AcceptedFacts DEF Row
    <2>2. m.root \in DOMAIN rows[from] /\ m.form \in {rows[from][m.root], "altered"}
      BY <1>0, <1>3, <2>1 DEF Sent
    <2>3. Abstract!Copy(from, to, m.root, m.form)
      BY <1>1, <1>3, <2>1, <2>2 DEF Abstract!Copy
    <2> QED  BY <2>1, <2>3 DEF Abstract!Next
  <1>4. ASSUME NEW h \in Submitter, NEW m \in Message, SubmitBlock(h, m) PROVE Abstract!Next
    <2>1. Sent(h, m) /\ Accepted(m) /\ Insert(commons, m.root, m.form)
      BY <1>4 DEF SubmitBlock
    <2> QED  BY <1>3, <2>1, BlockFacts
  <1>5. ASSUME NEW h \in Host, NEW m \in Message, BlockArrives(h, m) PROVE Abstract!Next
    <2>1. Sent(walk[h].peer, m) /\ Accepted(m) /\ Insert(h, m.root, m.form)
      BY <1>5 DEF BlockArrives
    <2>2. walk[h].peer \in Host
      BY DEF IInv, TypeOK, Walk
    <2> QED  BY <1>3, <2>1, <2>2
  <1>6. ASSUME NEW h \in Host, NEW peer \in Host, NEW m \in Message, Pull(h, peer, m)
        PROVE  Abstract!Next
    BY <1>3, <1>6 DEF Pull
  <1>7. \/ \E h \in Capturer, b \in Block : StoreBlock(h, b)
        \/ \E h \in Submitter, m \in Message : SubmitBlock(h, m)
        \/ \E h \in Host, m \in Message : BlockArrives(h, m)
        \/ \E h, peer \in Host, m \in Message : Pull(h, peer, m)
    BY DEF Next, MirrorStep, OpenSession, CloseRegistry, Exit, LoseRequest, LoseAnswer,
           MarkSubmitted, CheckSchemaVersion, ListSpecs, ListBlocks, ConsiderBlock, FinishSpec,
           Report, EndMirror, AbortMirror, StartMirror, OpenCatalog, ReadPage
  <1> QED  BY <1>2, <1>4, <1>5, <1>6, <1>7

(* The federation implements Replicas: whatever is mirrored, pulled or     *)
(* posted, and in whatever state it arrives, registries only gain blocks,  *)
(* which were created there or stand in the registry they were copied      *)
(* from, no row changes once it is there, and a row altered on its way     *)
(* (deserializeWireBlockTriplet checks only what the root covers) never    *)
(* becomes whole again in a copy.                                          *)
THEOREM Refinement == Spec => ImplementsReplicas
  <1>1. Init => Abstract!Init
    BY DEF Init, Abstract!Init
  <1> QED  BY <1>1, AbstractStep, Invariant, PTL DEF Spec, ImplementsReplicas, Abstract!Spec

-----------------------------------------------------------------------------
(* Why a mirror ends.  A walk has so much left: its stages, then the specs *)
(* it has yet to list, then the blocks of one spec, then the answer it     *)
(* waits for, in this order of importance.                                 *)
Stage(w) == CASE w.phase = "gate" -> 4 [] w.phase = "specs" -> 3
              [] w.phase \in {"walking", "blocks"} -> 2 [] w.phase = "report" -> 1 [] OTHER -> 0

Fewer(S, T) == S \subseteq T /\ S # T

Nearer(v, w) ==
    \/ Stage(v) < Stage(w)
    \/ /\ Stage(v) = Stage(w)
       /\ \/ Fewer(v.specs, w.specs)
          \/ /\ v.specs = w.specs /\ w.phase = "blocks"
             /\ \/ v.phase = "walking"
                \/ v.phase = "blocks" /\ Fewer(v.pending, w.pending)
                \/ v.phase = "blocks" /\ v.pending = w.pending /\ w.asked # 0 /\ v.asked = 0

Progress ==
    \A h \in Host :
        /\ MirrorStep(h) => Nearer(walk'[h], walk[h])
        /\ walk[h].phase # "none" => walk'[h] = walk[h] \/ Nearer(walk'[h], walk[h])

LEMMA IdleIsNearest ==
    ASSUME NEW w \in Walk, w.phase # "none"
    PROVE  Nearer(Idle, w)
  BY IdleFacts DEF Nearer, Stage, Walk

(* A request that is answered or fails, or a list that is gone through.    *)
LEMMA MirrorStepIsNearer ==
    ASSUME IInv, NEW h \in Host, MirrorStep(h)
    PROVE  Nearer(walk'[h], walk[h])
  <1>1. walk \in [Host -> Walk] /\ walk[h] \in Walk /\ WalkOK(walk[h], h, store)
    BY DEF IInv, TypeOK, WalksOK
  <1>2. ASSUME NEW w, Walks(h, w) PROVE walk'[h] = w
    BY <1>1, <1>2 DEF Walks
  <1>3. ASSUME Walks(h, Idle), walk[h].phase # "none" PROVE Nearer(walk'[h], walk[h])
    BY <1>1, <1>2, <1>3, IdleIsNearest
  <1>4. CASE CheckSchemaVersion(h)
    BY <1>1, <1>2, <1>3, <1>4 DEF CheckSchemaVersion, Abandon, Nearer, Stage, Walk
  <1>5. CASE ListSpecs(h)
    <2> DEFINE there == store[walk[h].peer]
    <2> DEFINE w == [walk[h] EXCEPT !.phase = "walking", !.specs = {SpecOf[b] : b \in there},
                                   !.owed = there]
    <2>1. walk'[h] = w /\ walk[h].phase = "specs"
      BY <1>2, <1>5 DEF ListSpecs
    <2>2. w.phase = "walking"
      BY <1>1 DEF Walk
    <2> QED  BY <2>1, <2>2 DEF Nearer, Stage
  <1>6. ASSUME NEW s \in Spec0, ListBlocks(h, s) PROVE Nearer(walk'[h], walk[h])
    <2> DEFINE w == [walk[h] EXCEPT !.phase = "blocks", !.specs = @ \ {s},
                                   !.pending = Listed(h, s)]
    <2>1. walk'[h] = w /\ walk[h].phase = "walking" /\ s \in walk[h].specs
      BY <1>2, <1>6 DEF ListBlocks
    <2>2. w.phase = "blocks" /\ w.specs = walk[h].specs \ {s}
      BY <1>1 DEF Walk
    <2> QED  BY <2>1, <2>2 DEF Nearer, Stage, Fewer
  <1>7. ASSUME NEW b \in Block, ConsiderBlock(h, b) PROVE Nearer(walk'[h], walk[h])
    <2> DEFINE a == IF b \in store[h] THEN 0 ELSE b
    <2> DEFINE w == [walk[h] EXCEPT !.pending = @ \ {b}, !.asked = a]
    <2>1. walk'[h] = w /\ walk[h].phase = "blocks" /\ b \in walk[h].pending
      BY <1>2, <1>7 DEF ConsiderBlock
    <2> HIDE DEF a
    <2>2. w.phase = "blocks" /\ w.specs = walk[h].specs /\ w.pending = walk[h].pending \ {b}
      BY <1>1, <2>1 DEF Walk
    <2> QED  BY <2>1, <2>2 DEF Nearer, Stage, Fewer
  <1>8. ASSUME NEW m \in Message, BlockArrives(h, m) PROVE Nearer(walk'[h], walk[h])
    <2> DEFINE lost == walk[h].swapped \cup ({walk[h].asked} \ {m.root})
    <2> DEFINE w == [walk[h] EXCEPT !.asked = 0, !.swapped = lost]
    <2> DEFINE v == [walk[h] EXCEPT !.asked = 0, !.failed = @ \cup {walk[h].asked}]
    <2>1. walk[h].phase = "blocks" /\ walk[h].asked # 0 /\ (walk'[h] = w \/ walk'[h] = v)
      BY <1>2, <1>8 DEF BlockArrives, Fails
    <2> HIDE DEF lost
    <2>2. /\ w.phase = "blocks" /\ w.specs = walk[h].specs
          /\ w.pending = walk[h].pending /\ w.asked = 0
      BY <1>1, <2>1 DEF Walk
    <2>3. /\ v.phase = "blocks" /\ v.specs = walk[h].specs
          /\ v.pending = walk[h].pending /\ v.asked = 0
      BY <1>1, <2>1 DEF Walk
    <2> HIDE DEF w, v
    <2> QED  BY <2>1, <2>2, <2>3 DEF Nearer, Stage
  <1>9. CASE FinishSpec(h) \/ Report(h)
    BY <1>1, <1>2, <1>9 DEF FinishSpec, Report, Nearer, Stage, Walk
  <1>10. CASE EndMirror(h)
    BY <1>3, <1>10 DEF EndMirror, Abandon
  <1> QED  BY <1>4, <1>5, <1>6, <1>7, <1>8, <1>9, <1>10 DEF MirrorStep

(* Every step of a mirror leaves less of it to do, whatever fails, and no  *)
(* step of anybody else leaves more, though the peer grows meanwhile: no   *)
(* failed block is asked for again and no new one joins the lists, so that *)
(* the walk is over after finitely many steps of its own.                  *)
THEOREM MirrorOnlyAdvances == Spec => [][Progress]_vars
  <1>1. IInv /\ [Next]_vars => [Progress]_vars
    <2> SUFFICES ASSUME IInv, Next, NEW h \in Host
                 PROVE  /\ MirrorStep(h) => Nearer(walk'[h], walk[h])
                        /\ walk[h].phase # "none" => walk'[h] = walk[h] \/ Nearer(walk'[h], walk[h])
      BY DEF Progress
    <2>1. ASSUME walk[h].phase # "none", walk'[h] # walk[h] PROVE Nearer(walk'[h], walk[h])
      <3>1. walk \in [Host -> Walk] /\ walk[h] \in Walk
        BY DEF IInv, TypeOK
      <3>2. PICK g \in Host : \/ MirrorStep(g) \/ AbortMirror(g)
                              \/ \E peer \in Host : StartMirror(g, peer)
        BY <2>1 DEF Next, OpenSession, CloseRegistry, Exit, StoreBlock, SubmitBlock, LoseRequest,
                    LoseAnswer, MarkSubmitted, Pull, OpenCatalog, ReadPage
      <3>3. ASSUME g # h PROVE walk'[h] = walk[h]
        <4>1. ASSUME NEW w, Walks(g, w) PROVE walk'[h] = walk[h]
          BY <3>1, <3>3, <4>1 DEF Walks
        <4>2. \E w : Walks(g, w)
          BY <3>2 DEF MirrorStep, CheckSchemaVersion, ListSpecs, ListBlocks, ConsiderBlock,
                      BlockArrives, Fails, FinishSpec, Report, EndMirror, AbortMirror,
                      StartMirror, Abandon
        <4> QED  BY <4>1, <4>2
      <3>4. CASE MirrorStep(h)
        BY <3>4, MirrorStepIsNearer
      <3>5. CASE AbortMirror(h)
        BY <2>1, <3>1, <3>5, IdleIsNearest DEF AbortMirror, Abandon, Walks
      <3> QED  BY <2>1, <3>2, <3>3, <3>4, <3>5 DEF StartMirror
    <2> QED  BY <2>1, MirrorStepIsNearer
  <1> QED  BY <1>1, Invariant, PTL DEF Spec
=============================================================================
