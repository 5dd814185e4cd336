--------------------------- MODULE AssemblyProofs ---------------------------
(***************************************************************************)
(* Proofs about Assembly, for any blocks, compositions and seeds: what     *)
(* visitBlock's stack owes to the order it writes.                         *)
(***************************************************************************)
EXTENDS Assembly, SequenceTheorems, FunctionTheorems, FiniteSetTheorems, TLAPS

-----------------------------------------------------------------------------
(* Sequences that grow and shrink at the end.                              *)
LEMMA Pushed ==
  ASSUME NEW S, NEW s \in Seq(S), NEW x \in S
  PROVE  /\ Append(s, x) \in Seq(S)
         /\ Len(Append(s, x)) = Len(s) + 1 /\ DOMAIN Append(s, x) = 1..(Len(s) + 1)
         /\ \A i \in 1..Len(s) : Append(s, x)[i] = s[i]
         /\ Append(s, x)[Len(s) + 1] = x
  OBVIOUS

LEMMA RangePushed ==
  ASSUME NEW S, NEW s \in Seq(S), NEW x \in S
  PROVE  Range(Append(s, x)) = Range(s) \cup {x}
<1>1. DOMAIN s = 1..Len(s) /\ Len(s) \in Nat
  OBVIOUS
<1>2. ASSUME NEW y \in Range(s) PROVE y \in Range(Append(s, x))
  BY <1>1, Pushed DEF Range
<1>3. x \in Range(Append(s, x))
  BY <1>1, Pushed DEF Range
<1>4. ASSUME NEW y \in Range(Append(s, x)) PROVE y \in Range(s) \cup {x}
  BY <1>1, Pushed DEF Range
<1>5. QED
  BY <1>2, <1>3, <1>4

LEMMA Popped ==
  ASSUME NEW S, NEW s \in Seq(S), s # <<>>
  PROVE  /\ SubSeq(s, 1, Len(s) - 1) \in Seq(S)
         /\ Len(SubSeq(s, 1, Len(s) - 1)) = Len(s) - 1
         /\ DOMAIN SubSeq(s, 1, Len(s) - 1) = 1..(Len(s) - 1)
         /\ \A i \in 1..(Len(s) - 1) : SubSeq(s, 1, Len(s) - 1)[i] = s[i]
<1> DEFINE n == Len(s) - 1
           t == SubSeq(s, 1, n)
<1>1. n \in Nat /\ \A i \in 1..n : s[i] \in S
  OBVIOUS
<1>2. 1 \in Int /\ n \in Int
  BY <1>1
<1> HIDE DEF n
<1>3. /\ t \in Seq(S)
      /\ Len(t) = IF 1 <= n THEN n - 1 + 1 ELSE 0
      /\ \A i \in 1..(n - 1 + 1) : t[i] = s[1 + i - 1]
  BY <1>1, <1>2, SubSeqProperties
<1> HIDE DEF t
<1>4. Len(t) = n /\ DOMAIN t = 1..n
  BY <1>1, <1>3
<1>5. \A i \in 1..n : t[i] = s[i]
  BY <1>1, <1>3
<1>6. QED
  BY <1>3, <1>4, <1>5 DEF n, t

LEMMA Replaced ==
  ASSUME NEW S, NEW s \in Seq(S), s # <<>>, NEW x \in S
  PROVE  /\ [s EXCEPT ![Len(s)] = x] \in Seq(S)
         /\ Len([s EXCEPT ![Len(s)] = x]) = Len(s)
         /\ DOMAIN [s EXCEPT ![Len(s)] = x] = DOMAIN s
         /\ \A i \in 1..(Len(s) - 1) : [s EXCEPT ![Len(s)] = x][i] = s[i]
         /\ [s EXCEPT ![Len(s)] = x][Len(s)] = x
  OBVIOUS

LEMMA Indices ==
  ASSUME NEW S, NEW s \in Seq(S)
  PROVE  /\ DOMAIN s = 1..Len(s) /\ Len(s) \in Nat
         /\ s # <<>> <=> Len(s) > 0
         /\ \A i \in DOMAIN s : s[i] \in S
         /\ \A x : x \in Range(s) <=> \E i \in DOMAIN s : s[i] = x
  BY DEF Range

-----------------------------------------------------------------------------
(* What is chosen for a name is stored, and the least block of its spec.   *)
LEMMA ChosenIsLeast ==
  ASSUME NEW rows \in SUBSET Root, NEW n, Chosen(n, rows) # NoRoot
  PROVE  /\ Chosen(n, rows) \in Candidates(SpecNamed(n), rows)
         /\ \A s \in Candidates(SpecNamed(n), rows) : Chosen(n, rows) <= s
<1> DEFINE candidates == Candidates(SpecNamed(n), rows)
<1>1. candidates \in SUBSET Root /\ candidates # {}
  BY DEF Candidates, Chosen
<1>2. \E r \in candidates : \A s \in candidates : r <= s
  BY <1>1, RootsHaveLeast
<1>3. QED
  BY <1>1, <1>2 DEF Chosen

LEMMA ChosenIsStored ==
  ASSUME NEW rows \in SUBSET Root, NEW n, Chosen(n, rows) # NoRoot
  PROVE  Chosen(n, rows) \in rows
  BY ChosenIsLeast DEF Candidates

-----------------------------------------------------------------------------
(* Each step, by what it does to the rows and to the stack.                *)
LEMMA StoreAdds ==
  ASSUME TypeOK, NEW r \in Root, Store(r)
  PROVE  stored' \in Seq(Root) /\ Rows' = Rows \cup {r}
<1>1. CASE r \in Rows
  BY <1>1 DEF Store, TypeOK, Rows
<1>2. CASE r \notin Rows
  BY <1>2, Pushed, RangePushed DEF Store, TypeOK, Rows
<1>3. QED
  BY <1>1, <1>2

LEMMA FrameFacts ==
  ASSUME NEW x \in Frame
  PROVE  x.root \in Root /\ x.subs \in Seq(Root) /\ x.next \in Nat \ {0}
  BY DEF Frame

LEMMA StackFacts ==
  ASSUME TypeOK
  PROVE  /\ Len(stack) \in Nat /\ DOMAIN stack = 1..Len(stack)
         /\ stack # <<>> <=> Len(stack) > 0
         /\ \A i \in DOMAIN stack :
               /\ stack[i] \in Frame
               /\ stack[i].root \in Root /\ stack[i].subs \in Seq(Root)
               /\ stack[i].next \in Nat \ {0}
<1>1. stack \in Seq(Frame)
  BY DEF TypeOK
<1>2. \A i \in DOMAIN stack : stack[i] \in Frame
  BY <1>1, Indices
<1>3. QED
  BY <1>1, <1>2, Indices, FrameFacts

LEMMA EnterEffect ==
  ASSUME TypeOK, Enter
  PROVE  /\ stack' \in Seq(Frame)
         /\ Len(stack') = Len(stack) + 1 /\ DOMAIN stack' = 1..(Len(stack) + 1)
         /\ \A i \in 1..Len(stack) : stack'[i] = stack[i]
         /\ stack'[Len(stack) + 1].root = pending /\ stack'[Len(stack) + 1].next = 1
         /\ Range(stack'[Len(stack) + 1].subs) = {}
<1> DEFINE x == [root |-> pending, next |-> 1, subs |-> <<>>]
<1>1. pending \in Root
  BY Indices DEF Enter, TypeOK, Rows
<1>2. x \in Frame /\ x.root = pending /\ x.next = 1 /\ x.subs = <<>>
  BY <1>1 DEF Frame
<1>3. Range(x.subs) = {}
  BY <1>2 DEF Range
<1> HIDE DEF x
<1>4. stack \in Seq(Frame) /\ stack' = Append(stack, x)
  BY DEF TypeOK, Enter, x
<1>5. QED
  BY <1>2, <1>3, <1>4, Pushed

LEMMA AdvanceEffect ==
  ASSUME TypeOK, stack # <<>>, NEW subs \in Seq(Root), Advance(subs)
  PROVE  /\ stack' \in Seq(Frame)
         /\ Len(stack') = Len(stack) /\ DOMAIN stack' = DOMAIN stack
         /\ \A i \in 1..(Len(stack) - 1) : stack'[i] = stack[i]
         /\ \A i \in DOMAIN stack : stack'[i].root = stack[i].root
         /\ stack'[Len(stack)].subs = subs /\ stack'[Len(stack)].next = Top.next + 1
<1> DEFINE x == [root |-> Top.root, next |-> Top.next + 1, subs |-> subs]
<1>1. Top \in Frame /\ Top = stack[Len(stack)]
  BY StackFacts DEF Top
<1>2. x \in Frame /\ x.root = Top.root /\ x.subs = subs /\ x.next = Top.next + 1
  BY <1>1, FrameFacts DEF Frame
<1>3. stack \in Seq(Frame) /\ stack' = [stack EXCEPT ![Len(stack)] = x]
  BY DEF TypeOK, Advance
<1> HIDE DEF x
<1>4. /\ stack' \in Seq(Frame) /\ Len(stack') = Len(stack) /\ DOMAIN stack' = DOMAIN stack
      /\ \A i \in 1..(Len(stack) - 1) : stack'[i] = stack[i]
      /\ stack'[Len(stack)] = x
  BY <1>2, <1>3, Replaced
<1>5. ASSUME NEW i \in DOMAIN stack PROVE stack'[i].root = stack[i].root
  BY <1>1, <1>2, <1>4, StackFacts
<1>6. QED
  BY <1>2, <1>4, <1>5

LEMMA ImportEffect ==
  ASSUME TypeOK, NEW r, Import(r)
  PROVE  /\ r \in Root /\ r \in Rows
         /\ stack' \in Seq(Frame)
         /\ Len(stack') = Len(stack) /\ DOMAIN stack' = DOMAIN stack
         /\ \A i \in 1..(Len(stack) - 1) : stack'[i] = stack[i]
         /\ \A i \in DOMAIN stack : stack'[i].root = stack[i].root
         /\ Range(stack'[Len(stack)].subs) = Range(Top.subs) \cup {r}
         /\ stack'[Len(stack)].next = Top.next + 1
<1>1. Rows \in SUBSET Root
  BY Indices DEF TypeOK, Rows
<1>2. r \in Rows /\ r \in Root
  BY <1>1, ChosenIsStored DEF Import
<1>3. Top.subs \in Seq(Root)
  BY StackFacts DEF Import, Top
<1>4. /\ Append(Top.subs, r) \in Seq(Root)
      /\ Range(Append(Top.subs, r)) = Range(Top.subs) \cup {r}
  BY <1>2, <1>3, Pushed, RangePushed
<1>5. stack # <<>> /\ Advance(Append(Top.subs, r))
  BY DEF Import
<1>6. QED
  BY <1>2, <1>4, <1>5, AdvanceEffect

LEMMA PassOverEffect ==
  ASSUME TypeOK, PassOver
  PROVE  /\ stack' \in Seq(Frame)
         /\ Len(stack') = Len(stack) /\ DOMAIN stack' = DOMAIN stack
         /\ \A i \in 1..(Len(stack) - 1) : stack'[i] = stack[i]
         /\ \A i \in DOMAIN stack : stack'[i].root = stack[i].root
         /\ \A i \in DOMAIN stack : stack'[i].subs = stack[i].subs
         /\ stack'[Len(stack)].next = Top.next + 1
<1>1. stack # <<>> /\ Top.subs \in Seq(Root) /\ Top = stack[Len(stack)]
  BY StackFacts DEF PassOver, Top
<1>2. Advance(Top.subs)
  BY DEF PassOver
<1>3. /\ stack' \in Seq(Frame)
      /\ Len(stack') = Len(stack) /\ DOMAIN stack' = DOMAIN stack
      /\ \A i \in 1..(Len(stack) - 1) : stack'[i] = stack[i]
      /\ \A i \in DOMAIN stack : stack'[i].root = stack[i].root
      /\ stack'[Len(stack)].subs = Top.subs /\ stack'[Len(stack)].next = Top.next + 1
  BY <1>1, <1>2, AdvanceEffect
<1>4. ASSUME NEW i \in DOMAIN stack PROVE stack'[i].subs = stack[i].subs
  BY <1>1, <1>3, StackFacts
<1>5. QED
  BY <1>3, <1>4

LEMMA LeaveEffect ==
  ASSUME TypeOK, Leave
  PROVE  /\ stack # <<>> /\ Top.root \in Root /\ Top.subs \in Seq(Root)
         /\ stack' \in Seq(Frame)
         /\ Len(stack') = Len(stack) - 1 /\ DOMAIN stack' = 1..(Len(stack) - 1)
         /\ \A i \in 1..(Len(stack) - 1) : stack'[i] = stack[i]
         /\ DOMAIN blocks' = DOMAIN blocks \cup {Top.root}
         /\ \A r \in DOMAIN blocks \ {Top.root} : blocks'[r] = blocks[r]
         /\ blocks'[Top.root] = Top.subs
         /\ order' \in Seq(Root)
         /\ Len(order') = Len(order) + 1 /\ DOMAIN order' = 1..(Len(order) + 1)
         /\ \A i \in 1..Len(order) : order'[i] = order[i]
         /\ order'[Len(order) + 1] = Top.root
         /\ Range(order') = Range(order) \cup {Top.root}
<1>1. stack # <<>> /\ Top.root \in Root /\ Top.subs \in Seq(Root)
  BY StackFacts DEF Leave, Top
<1>2. stack \in Seq(Frame) /\ stack' = SubSeq(stack, 1, Len(stack) - 1)
  BY DEF TypeOK, Leave
<1>3. order \in Seq(Root) /\ order' = Append(order, Top.root)
  BY DEF TypeOK, Leave
<1>4. /\ DOMAIN blocks' = DOMAIN blocks \cup {Top.root}
      /\ \A r \in DOMAIN blocks \ {Top.root} : blocks'[r] = blocks[r]
      /\ blocks'[Top.root] = Top.subs
  BY DEF Leave
<1>5. /\ stack' \in Seq(Frame)
      /\ Len(stack') = Len(stack) - 1 /\ DOMAIN stack' = 1..(Len(stack) - 1)
      /\ \A i \in 1..(Len(stack) - 1) : stack'[i] = stack[i]
  BY <1>1, <1>2, Popped
<1>6. QED
  BY <1>1, <1>3, <1>4, <1>5, Pushed, RangePushed

-----------------------------------------------------------------------------
(* The variables keep to their values: no null, and no block but one of    *)
(* the registry's, gets into the order, the sub-blocks or the calls.       *)
LEMMA TypeStep == TypeOK /\ [Next]_vars => TypeOK'
<1> SUFFICES ASSUME TypeOK, [Next]_vars PROVE TypeOK'
  OBVIOUS
<1> USE DEF Over
<1>1. ASSUME NEW r \in Root, OthersStore(r) PROVE TypeOK'
  <2>1. stored' \in Seq(Root)
    BY <1>1, StoreAdds DEF OthersStore
  <2>2. QED
    BY <1>1, <2>1 DEF OthersStore, TypeOK, walk
<1>2. ASSUME NEW r \in Root, Start(r) PROVE TypeOK'
  <2>1. Rows \in SUBSET Root
    BY Indices DEF TypeOK, Rows
  <2>2. stack' \in Seq(Frame) /\ order' \in Seq(Root)
    BY <1>2 DEF Start
  <2>3. DOMAIN blocks' = {} /\ blocks' \in [DOMAIN blocks' -> Seq(Root)]
    BY <1>2 DEF Start
  <2>4. QED
    BY <1>2, <2>1, <2>2, <2>3 DEF Start, TypeOK
<1>3. ASSUME Seed PROVE TypeOK'
  <2>1. PICK i \in DOMAIN Known : Store(Known[i])
    BY <1>3 DEF Seed
  <2>2. Known[i] \in Root
    BY AssemblyAssumption, Indices
  <2>3. stored' \in Seq(Root)
    BY <2>1, <2>2, StoreAdds
  <2>4. QED
    BY <1>3, <2>3 DEF Seed, TypeOK, walk
<1>4. ASSUME Seeded PROVE TypeOK'
  BY <1>4 DEF Seeded, TypeOK, walk
<1>5. ASSUME Visit PROVE TypeOK'
  <2>1. stack' \in Seq(Frame) /\ phase' \in {"walking", "cycle", "missing"}
    <3>1. CASE Skip
      BY <3>1 DEF Skip, TypeOK
    <3>2. CASE Enter
      BY <3>2, EnterEffect DEF Enter
    <3>3. CASE Throw
      BY <3>3 DEF Throw, TypeOK
    <3>4. QED
      BY <1>5, <3>1, <3>2, <3>3 DEF Visit
  <2>2. QED
    BY <1>5, <2>1 DEF Visit, TypeOK
<1>6. ASSUME NEW r \in Root \cup {NoRoot}, Import(r) PROVE TypeOK'
  <2>1. stack' \in Seq(Frame) /\ r \in Root
    BY <1>6, ImportEffect
  <2>2. QED
    BY <1>6, <2>1 DEF Import, TypeOK
<1>7. ASSUME PassOver PROVE TypeOK'
  <2>1. stack' \in Seq(Frame)
    BY <1>7, PassOverEffect
  <2>2. QED
    BY <1>7, <2>1 DEF PassOver, TypeOK
<1>8. ASSUME Leave PROVE TypeOK'
  <2>1. stack' \in Seq(Frame) /\ order' \in Seq(Root)
    BY <1>8, LeaveEffect
  <2>2. DOMAIN blocks' \subseteq Root /\ blocks' \in [DOMAIN blocks' -> Seq(Root)]
    <3>1. Top.root \in Root /\ Top.subs \in Seq(Root)
      BY <1>8, LeaveEffect
    <3>2. QED
      BY <1>8, <3>1 DEF Leave, TypeOK
  <2>3. QED
    BY <1>8, <2>1, <2>2 DEF Leave, TypeOK
<1>9. CASE UNCHANGED vars
  BY <1>9 DEF vars, TypeOK
<1>10. QED
  BY <1>1, <1>2, <1>3, <1>4, <1>5, <1>6, <1>7, <1>8, <1>9 DEF Next, Resolve

THEOREM TypeCorrect == Spec => []TypeOK
<1>1. Init => TypeOK
  BY DEF Init, TypeOK
<1>2. QED
  BY <1>1, TypeStep, PTL DEF Spec

-----------------------------------------------------------------------------
(* The inductive invariant.  Of the calls under way: they are of stored    *)
(* blocks that are not listed yet, each block at most once, and each call  *)
(* is of a sub-block of the one below.                                     *)
CallsOK ==
    /\ \A i \in DOMAIN stack : stack[i].root \in Rows /\ stack[i].root \notin DOMAIN blocks
    /\ \A i, j \in DOMAIN stack : stack[i].root = stack[j].root => i = j
    /\ \A i \in 1..(Len(stack) - 1) : stack[i + 1].root \in Range(stack[i].subs)
    /\ stack # <<>> => stack[1].root = entry

(* What the phases say of the stack and of the block to visit.             *)
PhaseOK ==
    /\ phase \in {"seeding", "ready", "assembled"} => stack = <<>>
    /\ phase = "walking" => stack # <<>>
    /\ phase \in {"visiting", "cycle", "missing"} /\ stack = <<>> =>
         pending = entry /\ DOMAIN blocks = {}
    /\ phase \in {"visiting", "cycle", "missing"} /\ stack # <<>> =>
         pending \in Range(Top.subs) /\ pending \in Rows
    /\ phase = "cycle" => pending \in Path
    /\ phase = "missing" => stack = <<>>

(* A sub-block of a call is listed, or is being visited.                   *)
SubsOK ==
    \A i \in DOMAIN stack : \A s \in Range(stack[i].subs) :
        \/ s \in DOMAIN blocks
        \/ i < Len(stack) /\ s = stack[i + 1].root
        \/ i = Len(stack) /\ phase # "walking" /\ s = pending

(* Listed blocks are needed by a later one or by a call under way.         *)
UsedOK ==
    \A i \in DOMAIN order :
        \/ order[i] = entry
        \/ \E j \in DOMAIN order : j > i /\ order[i] \in Subs(order[j])
        \/ \E k \in DOMAIN stack : order[i] \in Range(stack[k].subs)

Inv == CallsOK /\ PhaseOK /\ SubsOK /\ LeavesFirst /\ UsedOK

LEMMA InvStored ==
  ASSUME TypeOK, Inv, Rows \subseteq Rows', UNCHANGED <<phase, walk>>
  PROVE  Inv'
<1> USE DEF walk, Inv
<1>1. CallsOK'
  BY DEF CallsOK
<1>2. PhaseOK'
  BY DEF PhaseOK, Top, Path
<1>3. SubsOK'
  BY DEF SubsOK
<1>4. LeavesFirst'
  BY DEF LeavesFirst, Subs
<1>5. UsedOK'
  BY DEF UsedOK, Subs
<1>6. QED
  BY <1>1, <1>2, <1>3, <1>4, <1>5

LEMMA InvSeeded ==
  ASSUME TypeOK, Inv, Seeded
  PROVE  Inv'
<1> USE DEF walk, Inv, Seeded
<1>1. CallsOK'
  BY DEF CallsOK, Rows
<1>2. PhaseOK'
  BY DEF PhaseOK, Top, Path
<1>3. SubsOK'
  BY DEF SubsOK, PhaseOK
<1>4. LeavesFirst'
  BY DEF LeavesFirst, Subs
<1>5. UsedOK'
  BY DEF UsedOK, Subs
<1>6. QED
  BY <1>1, <1>2, <1>3, <1>4, <1>5

LEMMA InvStart ==
  ASSUME TypeOK, NEW e \in Root, Start(e)
  PROVE  Inv'
<1>1. /\ phase' = "visiting" /\ pending' = entry'
      /\ stack' = <<>> /\ order' = <<>> /\ DOMAIN blocks' = {}
  BY DEF Start
<1>2. DOMAIN stack' = {} /\ DOMAIN order' = {} /\ Range(order') = {} /\ Len(stack') = 0
  BY <1>1 DEF Range
<1>3. CallsOK'
  BY <1>1, <1>2 DEF CallsOK
<1>4. PhaseOK'
  BY <1>1 DEF PhaseOK
<1>5. SubsOK'
  BY <1>2 DEF SubsOK
<1>6. LeavesFirst'
  BY <1>1, <1>2 DEF LeavesFirst, IsInjective
<1>7. UsedOK'
  BY <1>2 DEF UsedOK
<1>8. QED
  BY <1>3, <1>4, <1>5, <1>6, <1>7 DEF Inv

LEMMA InvSkip ==
  ASSUME TypeOK, Inv, Visit, Skip
  PROVE  Inv'
<1> USE DEF Inv, Visit, Skip
<1>1. stack # <<>>
  BY DEF PhaseOK
<1>2. CallsOK'
  BY DEF CallsOK, Rows
<1>3. PhaseOK'
  BY <1>1 DEF PhaseOK
<1>4. SubsOK'
  BY DEF SubsOK
<1>5. LeavesFirst'
  BY DEF LeavesFirst, Subs
<1>6. UsedOK'
  BY DEF UsedOK, Subs
<1>7. QED
  BY <1>2, <1>3, <1>4, <1>5, <1>6

LEMMA InvThrow ==
  ASSUME TypeOK, Inv, Visit, Throw
  PROVE  Inv'
<1> USE DEF Inv, Visit, Throw
<1>1. CallsOK'
  BY DEF CallsOK, Rows
<1>2. PhaseOK'
  BY DEF PhaseOK, Path, Rows, Top
<1>3. SubsOK'
  BY DEF SubsOK
<1>4. LeavesFirst'
  BY DEF LeavesFirst, Subs
<1>5. UsedOK'
  BY DEF UsedOK, Subs
<1>6. QED
  BY <1>1, <1>2, <1>3, <1>4, <1>5

LEMMA InvEnter ==
  ASSUME TypeOK, Inv, Visit, Enter
  PROVE  Inv'
<1> DEFINE n == Len(stack)
<1>1. /\ n \in Nat /\ DOMAIN stack = 1..n /\ (stack # <<>> <=> n > 0)
      /\ Len(stack') = n + 1 /\ DOMAIN stack' = 1..(n + 1)
      /\ \A i \in 1..n : stack'[i] = stack[i]
      /\ stack'[n + 1].root = pending /\ Range(stack'[n + 1].subs) = {}
  BY StackFacts, EnterEffect
<1>2. /\ pending \in Rows /\ pending \notin DOMAIN blocks
      /\ \A i \in 1..n : stack[i].root # pending
      /\ phase = "visiting" /\ phase' = "walking"
      /\ Rows' = Rows
      /\ UNCHANGED <<entry, pending, blocks, order>>
  BY <1>1 DEF Visit, Enter, Path, Rows
<1>3. stack' # <<>>
  BY <1>1
<1> HIDE DEF n
<1>4. CallsOK'
  <2>1. ASSUME NEW i \in DOMAIN stack'
        PROVE  stack'[i].root \in Rows' /\ stack'[i].root \notin DOMAIN blocks'
    BY <1>1, <1>2, <2>1 DEF Inv, CallsOK
  <2>2. ASSUME NEW i \in DOMAIN stack', NEW j \in DOMAIN stack', stack'[i].root = stack'[j].root
        PROVE  i = j
    BY <1>1, <1>2, <2>2 DEF Inv, CallsOK
  <2>3. ASSUME NEW i \in 1..n
        PROVE  stack'[i + 1].root \in Range(stack'[i].subs)
    <3>1. CASE i = n
      BY <1>1, <1>2, <2>3, <3>1 DEF Inv, PhaseOK, Top, n
    <3>2. CASE i # n
      <4>1. i \in 1..(n - 1) /\ i + 1 \in 1..n
        BY <1>1, <2>3, <3>2
      <4>2. stack[i + 1].root \in Range(stack[i].subs)
        BY <4>1 DEF Inv, CallsOK, n
      <4>3. QED
        BY <1>1, <2>3, <4>1, <4>2
    <3>3. QED
      BY <3>1, <3>2
  <2>4. stack'[1].root = entry'
    <3>1. CASE n = 0
      BY <1>1, <1>2, <3>1 DEF Inv, PhaseOK
    <3>2. CASE n # 0
      BY <1>1, <1>2, <3>2 DEF Inv, CallsOK
    <3>3. QED
      BY <3>1, <3>2
  <2>5. QED
    BY <1>1, <2>1, <2>2, <2>3, <2>4 DEF CallsOK
<1>5. PhaseOK'
  BY <1>2, <1>3 DEF PhaseOK
<1>6. SubsOK'
  <2>1. ASSUME NEW i \in DOMAIN stack', NEW s \in Range(stack'[i].subs)
        PROVE  s \in DOMAIN blocks' \/ (i < Len(stack') /\ s = stack'[i + 1].root)
    <3>1. i \in 1..n /\ stack'[i] = stack[i]
      BY <1>1, <2>1
    <3>2. CASE i = n
      BY <1>1, <1>2, <2>1, <3>1, <3>2 DEF Inv, SubsOK, n
    <3>3. CASE i < n
      BY <1>1, <1>2, <2>1, <3>1, <3>3 DEF Inv, SubsOK, n
    <3>4. QED
      BY <1>1, <3>1, <3>2, <3>3
  <2>2. QED
    BY <2>1 DEF SubsOK
<1>7. LeavesFirst'
  BY <1>2 DEF Inv, LeavesFirst, Subs
<1>8. UsedOK'
  <2>1. ASSUME NEW k \in DOMAIN stack PROVE k \in DOMAIN stack' /\ stack'[k] = stack[k]
    BY <1>1, <2>1
  <2>2. QED
    BY <1>2, <2>1 DEF Inv, UsedOK, Subs
<1>9. QED
  BY <1>4, <1>5, <1>6, <1>7, <1>8 DEF Inv

LEMMA InvImport ==
  ASSUME TypeOK, Inv, NEW r, Import(r)
  PROVE  Inv'
<1>a. /\ Len(stack) \in Nat /\ Len(stack) > 0 /\ DOMAIN stack = 1..Len(stack)
      /\ Top = stack[Len(stack)]
  BY StackFacts DEF Import, Top
<1>b. /\ stack' \in Seq(Frame) /\ Len(stack') = Len(stack) /\ DOMAIN stack' = DOMAIN stack
      /\ \A i \in 1..(Len(stack) - 1) : stack'[i] = stack[i]
      /\ \A i \in DOMAIN stack : stack'[i].root = stack[i].root
      /\ Range(stack'[Len(stack)].subs) = Range(Top.subs) \cup {r}
  BY ImportEffect
<1> DEFINE n == Len(stack)
<1>1. /\ n \in Nat /\ n > 0 /\ DOMAIN stack = 1..n /\ Top = stack[n]
      /\ Len(stack') = n /\ DOMAIN stack' = 1..n /\ stack' # <<>>
      /\ \A i \in 1..(n - 1) : stack'[i] = stack[i]
      /\ \A i \in 1..n : stack'[i].root = stack[i].root
      /\ Range(stack'[n].subs) = Range(stack[n].subs) \cup {r}
  BY <1>a, <1>b
<1>2. /\ r \in Rows /\ phase = "walking" /\ phase' = "visiting" /\ pending' = r
      /\ Rows' = Rows
      /\ UNCHANGED <<entry, blocks, order>>
  BY ImportEffect DEF Import, Rows
<1> HIDE DEF n
<1>3. \A i \in 1..n : Range(stack[i].subs) \subseteq Range(stack'[i].subs)
  <2>1. ASSUME NEW i \in 1..n PROVE i = n \/ i \in 1..(n - 1)
    BY <1>1, <2>1
  <2>2. QED
    BY <1>1, <2>1
<1>4. CallsOK'
  <2>1. \A i \in DOMAIN stack' : stack'[i].root \in Rows' /\ stack'[i].root \notin DOMAIN blocks'
    BY <1>1, <1>2 DEF Inv, CallsOK
  <2>2. \A i, j \in DOMAIN stack' : stack'[i].root = stack'[j].root => i = j
    BY <1>1 DEF Inv, CallsOK
  <2>3. ASSUME NEW i \in 1..(n - 1)
        PROVE  stack'[i + 1].root \in Range(stack'[i].subs)
    <3>1. i + 1 \in 1..n /\ stack[i + 1].root \in Range(stack[i].subs)
      BY <1>1, <2>3 DEF Inv, CallsOK, n
    <3>2. QED
      BY <1>1, <2>3, <3>1
  <2>4. stack'[1].root = entry'
    <3>1. 1 \in 1..n
      BY <1>1
    <3>2. QED
      BY <1>1, <1>2, <3>1 DEF Inv, CallsOK
  <2>5. QED
    BY <1>1, <2>1, <2>2, <2>3, <2>4 DEF CallsOK
<1>5. PhaseOK'
  <2>1. pending' \in Range(Top'.subs) /\ pending' \in Rows'
    BY <1>1, <1>2 DEF Top
  <2>2. QED
    BY <1>1, <1>2, <2>1 DEF PhaseOK
<1>6. SubsOK'
  <2>1. ASSUME NEW i \in DOMAIN stack', NEW s \in Range(stack'[i].subs)
        PROVE  \/ s \in DOMAIN blocks'
               \/ i < Len(stack') /\ s = stack'[i + 1].root
               \/ i = Len(stack') /\ s = pending'
    <3>1. CASE i = n
      BY <1>1, <1>2, <2>1, <3>1 DEF Inv, SubsOK, n
    <3>2. CASE i # n
      <4>1. i \in 1..(n - 1) /\ i + 1 \in 1..n /\ stack'[i] = stack[i]
        BY <1>1, <2>1, <3>2
      <4>2. s \in DOMAIN blocks \/ s = stack[i + 1].root
        BY <1>1, <1>2, <2>1, <3>2, <4>1 DEF Inv, SubsOK, n
      <4>3. QED
        BY <1>1, <1>2, <4>1, <4>2
    <3>3. QED
      BY <3>1, <3>2
  <2>2. QED
    BY <1>2, <2>1 DEF SubsOK
<1>7. LeavesFirst'
  BY <1>2 DEF Inv, LeavesFirst, Subs
<1>8. UsedOK'
  BY <1>1, <1>2, <1>3 DEF Inv, UsedOK, Subs
<1>9. QED
  BY <1>4, <1>5, <1>6, <1>7, <1>8 DEF Inv

LEMMA InvPassOver ==
  ASSUME TypeOK, Inv, PassOver
  PROVE  Inv'
<1>1. /\ Len(stack) \in Nat /\ Len(stack) > 0 /\ DOMAIN stack = 1..Len(stack)
      /\ Len(stack') = Len(stack) /\ DOMAIN stack' = DOMAIN stack
      /\ stack # <<>> /\ stack' # <<>>
      /\ \A i \in DOMAIN stack : stack'[i].root = stack[i].root
      /\ \A i \in DOMAIN stack : stack'[i].subs = stack[i].subs
  BY StackFacts, PassOverEffect DEF PassOver
<1>2. /\ phase = "walking" /\ Rows' = Rows
      /\ UNCHANGED <<phase, entry, pending, blocks, order>>
  BY DEF PassOver, Rows
<1>3. CallsOK'
  <2>1. ASSUME NEW i \in 1..(Len(stack) - 1)
        PROVE  stack'[i + 1].root \in Range(stack'[i].subs)
    <3>1. i \in DOMAIN stack /\ i + 1 \in DOMAIN stack
      BY <1>1, <2>1
    <3>2. QED
      BY <1>1, <2>1, <3>1 DEF Inv, CallsOK
  <2>2. 1 \in DOMAIN stack
    BY <1>1
  <2>3. QED
    BY <1>1, <1>2, <2>1, <2>2 DEF Inv, CallsOK
<1>4. PhaseOK'
  BY <1>1, <1>2 DEF PhaseOK
<1>5. SubsOK'
  <2>1. ASSUME NEW i \in DOMAIN stack', NEW s \in Range(stack'[i].subs)
        PROVE  s \in DOMAIN blocks' \/ (i < Len(stack') /\ s = stack'[i + 1].root)
    <3>1. s \in DOMAIN blocks \/ (i < Len(stack) /\ s = stack[i + 1].root)
      BY <1>1, <1>2, <2>1 DEF Inv, SubsOK
    <3>2. i < Len(stack) => i + 1 \in DOMAIN stack
      BY <1>1, <2>1
    <3>3. QED
      BY <1>1, <1>2, <3>1, <3>2
  <2>2. QED
    BY <2>1 DEF SubsOK
<1>6. LeavesFirst'
  BY <1>2 DEF Inv, LeavesFirst, Subs
<1>7. UsedOK'
  BY <1>1, <1>2 DEF Inv, UsedOK, Subs
<1>8. QED
  BY <1>3, <1>4, <1>5, <1>6, <1>7 DEF Inv

LEMMA InvLeave ==
  ASSUME TypeOK, Inv, Leave
  PROVE  Inv'
<1> DEFINE n == Len(stack)
           m == Len(order)
           t == Top.root
<1>1. /\ n \in Nat /\ n > 0 /\ stack # <<>> /\ DOMAIN stack = 1..n /\ Top = stack[n] /\ t = stack[n].root
      /\ Len(stack') = n - 1 /\ DOMAIN stack' = 1..(n - 1)
      /\ stack' \in Seq(Frame)
      /\ \A i \in 1..(n - 1) : stack'[i] = stack[i]
  BY StackFacts, LeaveEffect DEF Top
<1>2. m \in Nat /\ DOMAIN order = 1..m
  BY DEF TypeOK
<1>3. /\ Len(order') = m + 1 /\ DOMAIN order' = 1..(m + 1)
      /\ \A i \in 1..m : order'[i] = order[i]
      /\ order'[m + 1] = t /\ Range(order') = Range(order) \cup {t}
      /\ DOMAIN blocks' = DOMAIN blocks \cup {t}
      /\ \A r \in DOMAIN blocks \ {t} : blocks'[r] = blocks[r]
      /\ blocks'[t] = Top.subs
  BY LeaveEffect
<1>4. /\ phase = "walking" /\ phase' = IF n = 1 THEN "assembled" ELSE "walking"
      /\ Rows' = Rows /\ UNCHANGED <<entry, pending>>
  BY DEF Leave, Rows
<1> HIDE DEF n, m, t
<1>5. /\ t \notin DOMAIN blocks /\ Range(order) = DOMAIN blocks
      /\ \A i \in 1..(n - 1) : stack[i].root # t
  <2>1. \A i \in 1..(n - 1) : i \in 1..n /\ i # n
    BY <1>1
  <2>2. n \in 1..n
    BY <1>1
  <2>3. QED
    BY <1>1, <2>1, <2>2 DEF Inv, CallsOK, LeavesFirst
<1>6. \A i \in 1..m : order[i] \in DOMAIN blocks /\ order[i] # t
  BY <1>2, <1>5 DEF Range
<1>7. \A r \in DOMAIN blocks : Range(blocks'[r]) = Subs(r)
  BY <1>3, <1>5 DEF Subs
<1>8. Range(blocks'[t]) = Range(Top.subs)
  BY <1>3
<1>9. \A i \in 1..(n - 1) : i \in 1..n
  BY <1>1
<1>a. n = 1 => t = entry
  BY <1>1 DEF Inv, CallsOK
<1>10. CallsOK'
  <2>1. \A i \in DOMAIN stack' : stack'[i].root \in Rows' /\ stack'[i].root \notin DOMAIN blocks'
    BY <1>1, <1>3, <1>4, <1>5, <1>9 DEF Inv, CallsOK
  <2>2. \A i, j \in DOMAIN stack' : stack'[i].root = stack'[j].root => i = j
    BY <1>1, <1>9 DEF Inv, CallsOK
  <2>3. ASSUME NEW i \in 1..(n - 1 - 1)
        PROVE  stack'[i + 1].root \in Range(stack'[i].subs)
    <3>1. i \in 1..(n - 1) /\ i + 1 \in 1..(n - 1)
      BY <1>1, <2>3
    <3>2. QED
      BY <1>1, <3>1 DEF Inv, CallsOK, n
  <2>4. stack' # <<>> => stack'[1].root = entry'
    <3>1. ASSUME stack' # <<>> PROVE 1 \in 1..(n - 1)
      BY <1>1, <3>1, Indices
    <3>2. QED
      BY <1>1, <1>4, <1>9, <3>1 DEF Inv, CallsOK
  <2>5. QED
    BY <1>1, <2>1, <2>2, <2>3, <2>4 DEF CallsOK
<1>11. PhaseOK'
  <2>1. stack' = <<>> <=> n = 1
    BY <1>1, Indices
  <2>2. QED
    BY <1>4, <2>1 DEF PhaseOK
<1>12. SubsOK'
  <2>1. ASSUME NEW i \in DOMAIN stack', NEW s \in Range(stack'[i].subs)
        PROVE  s \in DOMAIN blocks' \/ (i < Len(stack') /\ s = stack'[i + 1].root)
    <3>1. i \in 1..(n - 1) /\ i \in 1..n /\ i # n /\ stack'[i] = stack[i]
      BY <1>1, <2>1
    <3>2. s \in DOMAIN blocks \/ s = stack[i + 1].root
      BY <1>1, <1>4, <2>1, <3>1 DEF Inv, SubsOK, n
    <3>3. CASE s = stack[i + 1].root /\ i + 1 = n
      BY <1>1, <1>3, <3>3
    <3>4. CASE s = stack[i + 1].root /\ i + 1 # n
      <4>1. i + 1 \in 1..(n - 1) /\ i < n - 1
        BY <1>1, <3>1, <3>4
      <4>2. QED
        BY <1>1, <3>4, <4>1
    <3>5. QED
      BY <1>3, <3>2, <3>3, <3>4
  <2>2. QED
    BY <2>1 DEF SubsOK
<1>13. LeavesFirst'
  <2>1. IsInjective(order')
    <3>1. ASSUME NEW i \in 1..(m + 1), NEW j \in 1..(m + 1), order'[i] = order'[j]
          PROVE  i = j
      <4>1. CASE i \in 1..m /\ j \in 1..m
        BY <1>2, <1>3, <3>1, <4>1 DEF Inv, LeavesFirst, IsInjective
      <4>2. CASE i = m + 1 \/ j = m + 1
        BY <1>2, <1>3, <1>6, <3>1, <4>2
      <4>3. QED
        BY <1>2, <3>1, <4>1, <4>2
    <3>2. QED
      BY <1>3, <3>1 DEF IsInjective
  <2>2. Range(order') = DOMAIN blocks'
    BY <1>3, <1>5
  <2>3. ASSUME NEW i \in 1..(m + 1), NEW s \in Range(blocks'[order'[i]]), i \in 1..m
        PROVE  \E j \in 1..(i - 1) : order'[j] = s
    <3>1. s \in Subs(order[i])
      BY <1>3, <1>6, <1>7, <2>3
    <3>2. PICK j \in 1..(i - 1) : order[j] = s
      BY <1>2, <2>3, <3>1 DEF Inv, LeavesFirst
    <3>3. j \in 1..m
      BY <1>2, <2>3
    <3>4. QED
      BY <1>3, <3>2, <3>3
  <2>4. ASSUME NEW s \in Range(Top.subs)
        PROVE  \E j \in 1..m : order'[j] = s
    <3>1. s \in DOMAIN blocks
      BY <1>1, <1>4, <2>4 DEF Inv, SubsOK, n
    <3>2. PICK j \in 1..m : order[j] = s
      BY <1>2, <1>5, <3>1 DEF Range
    <3>3. QED
      BY <1>3, <3>2
  <2>5. ASSUME NEW i \in DOMAIN order', NEW s \in Range(blocks'[order'[i]])
        PROVE  \E j \in 1..(i - 1) : order'[j] = s
    <3>1. CASE i \in 1..m
      BY <1>3, <2>3, <2>5, <3>1
    <3>2. CASE i = m + 1
      <4>1. s \in Range(Top.subs) /\ i - 1 = m
        BY <1>2, <1>3, <1>8, <2>5, <3>2
      <4>2. QED
        BY <2>4, <4>1
    <3>3. QED
      BY <1>2, <1>3, <2>5, <3>1, <3>2
  <2>6. phase' = "assembled" => order' # <<>> /\ order'[Len(order')] = entry'
    BY <1>2, <1>3, <1>4, <1>a
  <2>7. QED
    BY <2>1, <2>2, <2>5, <2>6 DEF LeavesFirst, Subs
<1>14. UsedOK'
  <2>1. ASSUME NEW i \in 1..m
        PROVE  \/ order'[i] = entry'
               \/ \E j \in DOMAIN order' : j > i /\ order'[i] \in Range(blocks'[order'[j]])
               \/ \E k \in DOMAIN stack' : order'[i] \in Range(stack'[k].subs)
    <3>1. CASE order[i] = entry
      BY <1>3, <1>4, <3>1
    <3>2. CASE \E j \in DOMAIN order : j > i /\ order[i] \in Subs(order[j])
      <4>1. PICK j \in 1..m : j > i /\ order[i] \in Subs(order[j])
        BY <1>2, <3>2
      <4>2. j \in DOMAIN order' /\ order'[i] \in Range(blocks'[order'[j]])
        BY <1>2, <1>3, <1>6, <1>7, <4>1
      <4>3. QED
        BY <4>1, <4>2
    <3>3. CASE \E k \in DOMAIN stack : order[i] \in Range(stack[k].subs)
      <4>1. PICK k \in 1..n : order[i] \in Range(stack[k].subs)
        BY <1>1, <3>3
      <4>2. CASE k = n
        <5>1. order'[i] \in Range(blocks'[order'[m + 1]]) /\ m + 1 \in DOMAIN order' /\ m + 1 > i
          BY <1>1, <1>2, <1>3, <1>8, <4>1, <4>2
        <5>2. QED
          BY <5>1
      <4>3. CASE k # n
        <5>1. k \in 1..(n - 1)
          BY <1>1, <4>1, <4>3
        <5>2. QED
          BY <1>1, <1>3, <4>1, <5>1
      <4>4. QED
        BY <4>2, <4>3
    <3>4. QED
      BY <1>2, <3>1, <3>2, <3>3 DEF Inv, UsedOK
  <2>2. t = entry' \/ \E k \in DOMAIN stack' : t \in Range(stack'[k].subs)
    <3>1. CASE n = 1
      BY <1>4, <1>a, <3>1
    <3>2. CASE n # 1
      <4>1. n - 1 \in 1..(n - 1) /\ n - 1 + 1 = n
        BY <1>1, <3>2
      <4>2. t \in Range(stack[n - 1].subs)
        BY <1>1, <4>1 DEF Inv, CallsOK, n
      <4>3. QED
        BY <1>1, <4>1, <4>2
    <3>3. QED
      BY <3>1, <3>2
  <2>3. QED
    BY <1>2, <1>3, <2>1, <2>2 DEF UsedOK, Subs
<1>15. QED
  BY <1>10, <1>11, <1>12, <1>13, <1>14 DEF Inv

LEMMA InvStep == TypeOK /\ Inv /\ [Next]_vars => Inv'
<1> SUFFICES ASSUME TypeOK, Inv, [Next]_vars PROVE Inv'
  OBVIOUS
<1>1. ASSUME NEW r \in Root, OthersStore(r) PROVE Inv'
  <2>1. Rows \subseteq Rows'
    BY <1>1, StoreAdds DEF OthersStore
  <2>2. QED
    BY <1>1, <2>1, InvStored DEF OthersStore
<1>2. ASSUME Seed PROVE Inv'
  <2>1. PICK i \in DOMAIN Known : Store(Known[i])
    BY <1>2 DEF Seed
  <2>2. Known[i] \in Root
    BY AssemblyAssumption, Indices
  <2>3. Rows \subseteq Rows'
    BY <2>1, <2>2, StoreAdds
  <2>4. QED
    BY <1>2, <2>3, InvStored DEF Seed
<1>3. ASSUME Visit PROVE Inv'
  BY <1>3, InvSkip, InvEnter, InvThrow DEF Visit
<1>4. CASE UNCHANGED vars
  BY <1>4, InvStored DEF vars, walk, Rows
<1>5. QED
  BY <1>1, <1>2, <1>3, <1>4, InvSeeded, InvStart, InvImport, InvPassOver, InvLeave
     DEF Next, Resolve

LEMMA InvInit == Init => Inv
<1> SUFFICES ASSUME Init PROVE Inv
  OBVIOUS
<1>1. /\ phase = "seeding" /\ stack = <<>> /\ order = <<>> /\ DOMAIN blocks = {}
  BY DEF Init
<1>2. DOMAIN stack = {} /\ DOMAIN order = {} /\ Range(order) = {} /\ Len(stack) = 0
  BY <1>1 DEF Range
<1>3. CallsOK /\ PhaseOK
  BY <1>1, <1>2 DEF CallsOK, PhaseOK
<1>4. SubsOK /\ UsedOK
  BY <1>2 DEF SubsOK, UsedOK
<1>5. LeavesFirst
  BY <1>1, <1>2 DEF LeavesFirst, IsInjective
<1>6. QED
  BY <1>3, <1>4, <1>5 DEF Inv

(* The inductive invariant of the walk.                                    *)
THEOREM Invariant == Spec => []Inv
<1>1. Spec => []TypeOK
  BY TypeCorrect
<1>2. QED
  BY <1>1, InvInit, InvStep, PTL DEF Spec

(* Whatever the compositions and whatever is stored meanwhile, a module    *)
(* lists each block once, after its sub-blocks, and the entry last.        *)
THEOREM ModuleInOrder == Spec => []LeavesFirst
<1>1. Inv => LeavesFirst
  BY DEF Inv
<1>2. QED
  BY <1>1, Invariant, PTL

(* Nothing is in a module but what its entry needs.                        *)
THEOREM ModuleIsMinimal == Spec => []NothingUnused
<1>1. Inv => NothingUnused
  BY DEF Inv, UsedOK, PhaseOK, NothingUnused
<1>2. QED
  BY <1>1, Invariant, PTL

(* A cycle that is reported is a cycle, and only an entry is ever missing. *)
THEOREM ErrorsTrue == Spec => []ErrorsAreTrue
<1>1. TypeOK /\ Inv => ErrorsAreTrue
  <2> SUFFICES ASSUME TypeOK, Inv PROVE ErrorsAreTrue
    OBVIOUS
  <2>1. ASSUME phase = "cycle"
        PROVE  \E i \in DOMAIN stack :
                 /\ stack[i].root = pending /\ pending \in Range(Top.subs)
                 /\ \A j \in i..(Len(stack) - 1) : stack[j + 1].root \in Range(stack[j].subs)
    <3>1. PICK i \in DOMAIN stack : stack[i].root = pending
      BY <2>1 DEF Inv, PhaseOK, Path
    <3>2. i \in 1..Len(stack) /\ Len(stack) \in Nat /\ stack # <<>>
      BY StackFacts
    <3>3. pending \in Range(Top.subs)
      BY <2>1, <3>2 DEF Inv, PhaseOK
    <3>4. \A j \in i..(Len(stack) - 1) : j \in 1..(Len(stack) - 1)
      BY <3>2
    <3>5. QED
      BY <3>1, <3>3, <3>4 DEF Inv, CallsOK
  <2>2. phase = "missing" => pending = entry
    BY DEF Inv, PhaseOK
  <2>3. QED
    BY <2>1, <2>2 DEF ErrorsAreTrue
<1>2. QED
  BY <1>1, TypeCorrect, Invariant, PTL

-----------------------------------------------------------------------------
(* Assembling over an unchanged registry.  Of a call under way, the        *)
(* sub-blocks are those chosen for the imports it has passed.              *)
ChosenFor(r, k) == {Chosen(imports[r][j], since) : j \in 1..k} \ {NoRoot}

DeterminedOK ==
    /\ since \subseteq Rows
    /\ Unchanged => \A r \in DOMAIN blocks : Subs(r) = Composition(r, since)
    /\ Unchanged => \A i \in DOMAIN stack :
         /\ stack[i].next <= Len(imports[stack[i].root]) + 1
         /\ Range(stack[i].subs) = ChosenFor(stack[i].root, stack[i].next - 1)

LEMMA ChosenFromSome ==
  ASSUME NEW rows \in SUBSET Root, NEW n, Candidates(SpecNamed(n), rows) # {}
  PROVE  Chosen(n, rows) # NoRoot
<1> DEFINE candidates == Candidates(SpecNamed(n), rows)
<1>1. candidates \in SUBSET Root /\ candidates # {}
  BY DEF Candidates
<1>2. \E r \in candidates : \A s \in candidates : r <= s
  BY <1>1, RootsHaveLeast
<1>3. Chosen(n, rows) \in candidates
  BY <1>1, <1>2 DEF Chosen
<1>4. QED
  BY <1>1, <1>3, AssemblyAssumption

LEMMA ImportsFacts ==
  ASSUME TypeOK, NEW r \in Root
  PROVE  /\ imports[r] \in Seq(Name)
         /\ Len(imports[r]) \in Nat /\ DOMAIN imports[r] = 1..Len(imports[r])
<1>1. imports[r] \in Seq(Name)
  BY AssemblyAssumption DEF TypeOK
<1>2. QED
  BY <1>1

LEMMA AllChosen ==
  ASSUME TypeOK, NEW r \in Root, since \in SUBSET Root
  PROVE  ChosenFor(r, Len(imports[r])) = Composition(r, since)
<1>1. ASSUME NEW s \in ChosenFor(r, Len(imports[r])) PROVE s \in Composition(r, since)
  <2>1. PICK j \in 1..Len(imports[r]) : s = Chosen(imports[r][j], since) /\ s # NoRoot
    BY DEF ChosenFor
  <2> DEFINE n == imports[r][j]
  <2>2. n \in Range(imports[r])
    BY <2>1, ImportsFacts DEF Range
  <2>3. /\ s \in Candidates(SpecNamed(n), since)
        /\ \A t \in Candidates(SpecNamed(n), since) : s <= t
    BY <2>1, ChosenIsLeast
  <2> HIDE DEF n
  <2>4. s \in since /\ SpecOf[s] = SpecNamed(n)
    BY <2>3 DEF Candidates
  <2>5. QED
    BY <2>2, <2>3, <2>4 DEF Composition
<1>2. ASSUME NEW s \in Composition(r, since) PROVE s \in ChosenFor(r, Len(imports[r]))
  <2>1. PICK n \in Range(imports[r]) : SpecOf[s] = SpecNamed(n)
    BY DEF Composition
  <2>2. PICK j \in 1..Len(imports[r]) : imports[r][j] = n
    BY ImportsFacts DEF Range
  <2>3. /\ s \in since /\ s \in Candidates(SpecNamed(n), since)
        /\ \A t \in Candidates(SpecNamed(n), since) : s <= t
    BY <2>1 DEF Composition, Candidates
  <2>4. Chosen(n, since) # NoRoot
    BY <2>3, ChosenFromSome
  <2>5. /\ Chosen(n, since) \in Candidates(SpecNamed(n), since)
        /\ \A t \in Candidates(SpecNamed(n), since) : Chosen(n, since) <= t
    BY <2>4, ChosenIsLeast
  <2>6. s \in Nat /\ Chosen(n, since) \in Nat
    BY <2>3, <2>5, AssemblyAssumption DEF Candidates
  <2>7. s = Chosen(n, since)
    BY <2>3, <2>5, <2>6
  <2>8. QED
    BY <2>2, <2>4, <2>7 DEF ChosenFor
<1>3. QED
  BY <1>1, <1>2

LEMMA ChosenNext ==
  ASSUME NEW r, NEW k \in Nat
  PROVE  ChosenFor(r, k + 1) = ChosenFor(r, k) \cup ({Chosen(imports[r][k + 1], since)} \ {NoRoot})
<1>1. \A j : j \in 1..(k + 1) <=> j \in 1..k \/ j = k + 1
  OBVIOUS
<1>2. QED
  BY <1>1 DEF ChosenFor

LEMMA SameChoices ==
  ASSUME UNCHANGED <<imports, since>>
  PROVE  /\ \A r, k : ChosenFor(r, k)' = ChosenFor(r, k)
         /\ \A r : Composition(r, since)' = Composition(r, since)
  BY DEF ChosenFor, Composition

LEMMA SameDetermined ==
  ASSUME DeterminedOK, since' \subseteq Rows', Unchanged' => Unchanged,
         UNCHANGED <<imports, since, stack, blocks>>
  PROVE  DeterminedOK'
<1>1. ASSUME Unchanged' PROVE \A r \in DOMAIN blocks' : Subs(r)' = Composition(r, since)'
  BY <1>1, SameChoices DEF DeterminedOK, Subs
<1>2. ASSUME Unchanged'
      PROVE  \A i \in DOMAIN stack' :
               /\ stack'[i].next <= Len(imports'[stack'[i].root]) + 1
               /\ Range(stack'[i].subs) = ChosenFor(stack'[i].root, stack'[i].next - 1)
  BY <1>2, SameChoices DEF DeterminedOK
<1>3. QED
  BY <1>1, <1>2, SameChoices DEF DeterminedOK

LEMMA DeterminedStored ==
  ASSUME TypeOK, DeterminedOK, Rows \subseteq Rows', UNCHANGED <<imports, walk>>
  PROVE  DeterminedOK'
<1>1. since' = since /\ stack' = stack /\ blocks' = blocks /\ imports' = imports
  BY DEF walk
<1>2. since' \subseteq Rows'
  BY <1>1 DEF DeterminedOK
<1>3. Unchanged' => Unchanged
  BY <1>1 DEF Unchanged, DeterminedOK
<1>4. QED
  BY <1>1, <1>2, <1>3, SameDetermined

LEMMA DeterminedStart ==
  ASSUME NEW e \in Root, Start(e)
  PROVE  DeterminedOK'
<1>1. DOMAIN blocks' = {} /\ stack' = <<>> /\ since' = Rows'
  BY DEF Start, Rows
<1>2. DOMAIN stack' = {}
  BY <1>1
<1>3. QED
  BY <1>1, <1>2 DEF DeterminedOK

LEMMA DeterminedVisit ==
  ASSUME TypeOK, DeterminedOK, Visit
  PROVE  DeterminedOK'
<1>1. UNCHANGED <<imports, since, blocks>> /\ Rows' = Rows
  BY DEF Visit, Rows
<1>2. ASSUME stack' = stack PROVE DeterminedOK'
  BY <1>1, <1>2, SameDetermined DEF DeterminedOK, Unchanged
<1>3. CASE Enter
  <2>1. pending \in Root
    BY <1>3, Indices DEF Enter, TypeOK, Rows
  <2>2. Len(imports[pending]) \in Nat
    BY <2>1, ImportsFacts
  <2>3. ASSUME Unchanged', NEW i \in DOMAIN stack'
        PROVE  /\ stack'[i].next <= Len(imports'[stack'[i].root]) + 1
               /\ Range(stack'[i].subs) = ChosenFor(stack'[i].root, stack'[i].next - 1)
    <3>1. CASE i \in 1..Len(stack)
      <4>1. i \in DOMAIN stack /\ stack'[i] = stack[i]
        BY <1>3, <3>1, EnterEffect, StackFacts
      <4>2. Unchanged
        BY <1>1, <2>3 DEF Unchanged
      <4>3. QED
        BY <1>1, <4>1, <4>2 DEF DeterminedOK
    <3>2. CASE i = Len(stack) + 1
      <4>1. /\ stack'[i].root = pending /\ stack'[i].next = 1
            /\ Range(stack'[i].subs) = {}
        BY <1>3, <3>2, EnterEffect
      <4>2. ChosenFor(pending, 0) = {}
        BY DEF ChosenFor
      <4>3. QED
        BY <1>1, <2>2, <4>1, <4>2
    <3>3. QED
      BY <1>3, <2>3, <3>1, <3>2, EnterEffect, StackFacts
  <2>4. ASSUME Unchanged' PROVE \A r \in DOMAIN blocks' : Subs(r)' = Composition(r, since)'
    BY <1>1, <2>4, SameChoices DEF DeterminedOK, Subs, Unchanged
  <2>5. QED
    BY <1>1, <2>3, <2>4, SameChoices DEF DeterminedOK
<1>4. QED
  BY <1>2, <1>3 DEF Visit, Skip, Throw

(* An import or its passing over: the top call has one import more behind. *)
LEMMA DeterminedAdvance ==
  ASSUME TypeOK, DeterminedOK, stack # <<>>, Top.next <= Len(imports[Top.root]),
         Rows' = Rows, UNCHANGED <<imports, since, blocks>>,
         DOMAIN stack' = DOMAIN stack,
         \A i \in 1..(Len(stack) - 1) : stack'[i] = stack[i],
         stack'[Len(stack)].root = Top.root,
         stack'[Len(stack)].next = Top.next + 1,
         Range(stack'[Len(stack)].subs) =
           Range(Top.subs) \cup ({Chosen(imports[Top.root][Top.next], Rows)} \ {NoRoot})
  PROVE  DeterminedOK'
<1> DEFINE n == Len(stack)
<1>1. /\ n \in Nat /\ n > 0 /\ DOMAIN stack = 1..n /\ Top = stack[n]
      /\ Top.root \in Root /\ Top.next \in Nat \ {0}
  BY StackFacts DEF Top
<1>2. Len(imports[Top.root]) \in Nat
  BY <1>1, ImportsFacts
<1>3. ASSUME Unchanged', NEW i \in DOMAIN stack'
      PROVE  /\ stack'[i].next <= Len(imports'[stack'[i].root]) + 1
             /\ Range(stack'[i].subs) = ChosenFor(stack'[i].root, stack'[i].next - 1)
  <2>1. Unchanged /\ Rows = since
    BY <1>3 DEF Unchanged
  <2>2. CASE i \in 1..(n - 1)
    <3>1. i \in DOMAIN stack /\ stack'[i] = stack[i]
      BY <1>1, <2>2
    <3>2. QED
      BY <2>1, <3>1 DEF DeterminedOK
  <2>3. CASE i = n
    <3>1. /\ stack'[i].root = Top.root /\ stack'[i].next - 1 = Top.next - 1 + 1
          /\ stack'[i].next <= Len(imports[Top.root]) + 1
      <4>1. /\ stack'[i].root = Top.root /\ stack'[i].next = Top.next + 1
            /\ Top.next <= Len(imports[Top.root])
        BY <1>1, <2>3
      <4>2. QED
        BY <4>1, <1>1, <1>2
    <3>2. Range(Top.subs) = ChosenFor(Top.root, Top.next - 1)
      BY <1>1, <2>1 DEF DeterminedOK
    <3>3. Top.next - 1 \in Nat /\ Top.next - 1 + 1 = Top.next
      BY <1>1
    <3>4. ChosenFor(Top.root, Top.next - 1 + 1) = ChosenFor(Top.root, Top.next - 1)
             \cup ({Chosen(imports[Top.root][Top.next - 1 + 1], since)} \ {NoRoot})
      BY <3>3, ChosenNext
    <3>5. Range(stack'[i].subs) = ChosenFor(Top.root, Top.next - 1)
             \cup ({Chosen(imports[Top.root][Top.next], since)} \ {NoRoot})
      BY <2>1, <2>3, <3>2
    <3>6. QED
      BY <3>1, <3>3, <3>4, <3>5
  <2>4. QED
    BY <1>1, <1>3, <2>2, <2>3
<1>4. ASSUME Unchanged' PROVE \A r \in DOMAIN blocks' : Subs(r)' = Composition(r, since)'
  BY <1>4, SameChoices DEF DeterminedOK, Subs, Unchanged
<1>5. since' \subseteq Rows'
  BY DEF DeterminedOK
<1>6. QED
  BY <1>3, <1>4, <1>5, SameChoices DEF DeterminedOK

LEMMA DeterminedImport ==
  ASSUME TypeOK, DeterminedOK, NEW r, Import(r)
  PROVE  DeterminedOK'
<1>1. r = Chosen(imports[Top.root][Top.next], Rows) /\ r # NoRoot
  BY DEF Import
<1>2. stack # <<>> /\ Len(stack) \in DOMAIN stack /\ Top = stack[Len(stack)]
  BY StackFacts DEF Import, Top
<1>3. /\ Top.next <= Len(imports[Top.root]) /\ Rows' = Rows
      /\ UNCHANGED <<imports, since, blocks>>
  BY DEF Import, Rows
<1>4. QED
  BY <1>1, <1>2, <1>3, ImportEffect, DeterminedAdvance

LEMMA DeterminedPassOver ==
  ASSUME TypeOK, DeterminedOK, PassOver
  PROVE  DeterminedOK'
<1>1. Chosen(imports[Top.root][Top.next], Rows) = NoRoot
  BY DEF PassOver
<1>2. stack # <<>> /\ Len(stack) \in DOMAIN stack /\ Top = stack[Len(stack)]
  BY StackFacts DEF PassOver, Top
<1>3. /\ Top.next <= Len(imports[Top.root]) /\ Rows' = Rows
      /\ UNCHANGED <<imports, since, blocks>>
  BY DEF PassOver, Rows
<1>4. QED
  BY <1>1, <1>2, <1>3, PassOverEffect, DeterminedAdvance

LEMMA DeterminedLeave ==
  ASSUME TypeOK, DeterminedOK, Leave
  PROVE  DeterminedOK'
<1>1. UNCHANGED <<imports, since>> /\ Rows' = Rows
  BY DEF Leave, Rows
<1>2. /\ Len(stack) \in DOMAIN stack /\ Top = stack[Len(stack)]
      /\ Top.root \in Root /\ Top.next \in Nat
      /\ Top.next > Len(imports[Top.root]) /\ Len(imports[Top.root]) \in Nat
  <2>1. /\ Len(stack) \in DOMAIN stack /\ Top = stack[Len(stack)]
        /\ Top.root \in Root /\ Top.next \in Nat
    BY StackFacts DEF Leave, Top
  <2>2. Len(imports[Top.root]) \in Nat
    BY <2>1, ImportsFacts
  <2>3. QED
    BY <2>1, <2>2 DEF Leave
<1>3. since \in SUBSET Root
  BY DEF TypeOK
<1>4. ASSUME Unchanged' PROVE \A r \in DOMAIN blocks' : Subs(r)' = Composition(r, since)'
  <2>1. Unchanged
    BY <1>1, <1>4 DEF Unchanged
  <2>2. Top.next - 1 = Len(imports[Top.root])
    BY <1>2, <2>1 DEF DeterminedOK
  <2>3. Range(Top.subs) = Composition(Top.root, since)
    BY <1>2, <1>3, <2>1, <2>2, AllChosen DEF DeterminedOK
  <2>4. \A r \in DOMAIN blocks' : Range(blocks'[r]) = Composition(r, since)
    BY <2>1, <2>3, LeaveEffect DEF DeterminedOK, Subs
  <2>5. QED
    BY <1>1, <2>4, SameChoices DEF Subs
<1>5. ASSUME Unchanged', NEW i \in DOMAIN stack'
      PROVE  /\ stack'[i].next <= Len(imports'[stack'[i].root]) + 1
             /\ Range(stack'[i].subs) = ChosenFor(stack'[i].root, stack'[i].next - 1)
  <2>1. Unchanged
    BY <1>1, <1>5 DEF Unchanged
  <2>2. i \in DOMAIN stack /\ stack'[i] = stack[i]
    BY <1>5, LeaveEffect, StackFacts
  <2>3. QED
    BY <1>1, <2>1, <2>2 DEF DeterminedOK
<1>6. since' \subseteq Rows'
  BY <1>1 DEF DeterminedOK
<1>7. QED
  BY <1>1, <1>4, <1>5, <1>6, SameChoices DEF DeterminedOK

LEMMA DeterminedStep == TypeOK /\ DeterminedOK /\ [Next]_vars => DeterminedOK'
<1> SUFFICES ASSUME TypeOK, DeterminedOK, [Next]_vars PROVE DeterminedOK'
  OBVIOUS
<1>1. ASSUME NEW r \in Root, OthersStore(r) PROVE DeterminedOK'
  <2>1. Rows \subseteq Rows'
    BY <1>1, StoreAdds DEF OthersStore
  <2>2. QED
    BY <1>1, <2>1, DeterminedStored DEF OthersStore
<1>2. ASSUME Seed PROVE DeterminedOK'
  <2>1. PICK i \in DOMAIN Known : Store(Known[i])
    BY <1>2 DEF Seed
  <2>2. Known[i] \in Root
    BY AssemblyAssumption, Indices
  <2>3. Rows \subseteq Rows'
    BY <2>1, <2>2, StoreAdds
  <2>4. QED
    BY <1>2, <2>3, DeterminedStored DEF Seed
<1>3. CASE Seeded
  BY <1>3, DeterminedStored DEF Seeded, Rows
<1>4. CASE UNCHANGED vars
  BY <1>4, DeterminedStored DEF vars, walk, Rows
<1>5. QED
  BY <1>1, <1>2, <1>3, <1>4, DeterminedStart, DeterminedVisit, DeterminedImport,
     DeterminedPassOver, DeterminedLeave DEF Next, Resolve

(* Over a registry that does not change while it is read, a module is what *)
(* the registry's content determines, in whatever order its blocks came    *)
(* and whatever was assembled before.                                      *)
THEOREM ModuleIsReproducible == Spec => []Reproducible
<1>1. Init => DeterminedOK
  <2> SUFFICES ASSUME Init PROVE DeterminedOK
    OBVIOUS
  <2>1. since = {} /\ DOMAIN blocks = {} /\ DOMAIN stack = {}
    BY DEF Init
  <2>2. QED
    BY <2>1 DEF DeterminedOK
<1>2. DeterminedOK => Reproducible
  BY DEF DeterminedOK, Reproducible
<1>3. QED
  BY <1>1, <1>2, TypeCorrect, DeterminedStep, PTL DEF Spec

-----------------------------------------------------------------------------
(* Why an assembly ends.  Each step lists one more block, or begins a call,*)
(* or passes an import, or settles the block to visit, in this order of    *)
(* importance; there are finitely many of each.                            *)
Further ==
    \/ DOMAIN blocks \subseteq DOMAIN blocks' /\ DOMAIN blocks # DOMAIN blocks'
    \/ /\ blocks' = blocks
       /\ \/ Len(stack') > Len(stack)
          \/ Len(stack') = Len(stack) /\ (Top.next)' > Top.next
          \/ stack' = stack /\ phase = "visiting" /\ phase' = "walking"

Forward ==
    phase \in {"visiting", "walking"} =>
        IF Resolve THEN phase' \in Over \/ Further ELSE UNCHANGED <<phase, walk>>

NextInImports == \A i \in DOMAIN stack : stack[i].next <= Len(imports[stack[i].root]) + 1

LEMMA VisitGoesOn == ASSUME TypeOK, Visit PROVE phase' \in Over \/ Further
<1>1. blocks' = blocks /\ phase = "visiting"
  BY DEF Visit
<1>2. CASE Enter
  <2>1. Len(stack') = Len(stack) + 1 /\ Len(stack) \in Nat
    BY <1>2, EnterEffect, StackFacts
  <2>2. Len(stack') > Len(stack)
    BY <2>1
  <2>3. QED
    BY <1>1, <2>2 DEF Further
<1>3. CASE Skip
  BY <1>1, <1>3 DEF Skip, Further
<1>4. CASE Throw
  BY <1>4 DEF Throw, Over
<1>5. QED
  BY <1>2, <1>3, <1>4 DEF Visit

LEMMA LoopGoesOn ==
  ASSUME TypeOK, (\E r \in Root \cup {NoRoot} : Import(r)) \/ PassOver
  PROVE  Further
<1>1. /\ Len(stack') = Len(stack) /\ blocks' = blocks
      /\ stack'[Len(stack)].next = Top.next + 1
  BY ImportEffect, PassOverEffect DEF Import, PassOver
<1>2. stack # <<>>
  BY DEF Import, PassOver
<1>3. Top.next \in Nat
  BY <1>2, StackFacts DEF Top
<1>4. (Top.next)' = Top.next + 1
  BY <1>1 DEF Top
<1>5. QED
  BY <1>1, <1>3, <1>4 DEF Further

LEMMA LeaveGoesOn == ASSUME TypeOK, CallsOK, Leave PROVE Further
<1>1. Top.root \notin DOMAIN blocks
  BY StackFacts DEF CallsOK, Leave, Top
<1>2. DOMAIN blocks' = DOMAIN blocks \cup {Top.root}
  BY LeaveEffect
<1>3. QED
  BY <1>1, <1>2 DEF Further

(* Every statement of the resolver brings an assembly nearer to its end,   *)
(* and nothing that other processes do sets it back: its order of progress *)
(* has no cycle, whatever is stored meanwhile and however blocks import    *)
(* each other.                                                             *)
THEOREM AssemblyOnlyAdvances == Spec => [][Forward]_vars
<1>1. TypeOK /\ CallsOK /\ [Next]_vars => [Forward]_vars
  <2> SUFFICES ASSUME TypeOK, CallsOK, Next, phase \in {"visiting", "walking"}
               PROVE  IF Resolve THEN phase' \in Over \/ Further ELSE UNCHANGED <<phase, walk>>
    BY DEF Forward
  <2>1. ASSUME Resolve PROVE phase' \in Over \/ Further
    BY <2>1, VisitGoesOn, LoopGoesOn, LeaveGoesOn DEF Resolve
  <2>2. ASSUME ~Resolve PROVE UNCHANGED <<phase, walk>>
    BY <2>2 DEF Next, OthersStore, Start, Seed, Seeded, Over
  <2>3. QED
    BY <2>1, <2>2
<1>2. Inv => CallsOK
  BY DEF Inv
<1>3. QED
  BY <1>1, <1>2, TypeCorrect, Invariant, PTL DEF Spec

LEMMA NextStaysInImports == ASSUME TypeOK, NextInImports, [Next]_vars PROVE NextInImports'
<1>1. ASSUME UNCHANGED <<imports, stack>> PROVE NextInImports'
  BY <1>1 DEF NextInImports
<1>2. ASSUME NEW r \in Root, Start(r) PROVE NextInImports'
  <2>1. DOMAIN stack' = {}
    BY <1>2 DEF Start
  <2>2. QED
    BY <2>1 DEF NextInImports
<1>3. CASE Visit
  <2>1. imports' = imports
    BY <1>3 DEF Visit
  <2>2. CASE Enter
    <3>1. pending \in Root
      BY <2>2, Indices DEF Enter, TypeOK, Rows
    <3>2. 1 <= Len(imports[pending]) + 1
      BY <3>1, ImportsFacts
    <3>3. ASSUME NEW i \in DOMAIN stack'
          PROVE  stack'[i].next <= Len(imports[stack'[i].root]) + 1
      <4>1. i = Len(stack) + 1 \/ i \in 1..Len(stack)
        BY <2>2, EnterEffect, StackFacts
      <4>2. CASE i = Len(stack) + 1
        BY <2>2, <3>2, <4>2, EnterEffect
      <4>3. CASE i \in 1..Len(stack)
        <5>1. i \in DOMAIN stack /\ stack'[i] = stack[i]
          BY <2>2, <4>3, EnterEffect, StackFacts
        <5>2. QED
          BY <5>1 DEF NextInImports
      <4>4. QED
        BY <4>1, <4>2, <4>3
    <3>4. QED
      BY <2>1, <3>3 DEF NextInImports
  <2>3. QED
    BY <1>1, <1>3, <2>1, <2>2 DEF Visit, Skip, Throw
<1>4. ASSUME (\E r \in Root \cup {NoRoot} : Import(r)) \/ PassOver PROVE NextInImports'
  <2> DEFINE n == Len(stack)
  <2>1. /\ Top.next <= Len(imports[Top.root]) /\ stack # <<>> /\ imports' = imports
    BY <1>4 DEF Import, PassOver
  <2>2. /\ DOMAIN stack' = DOMAIN stack
        /\ \A i \in 1..(n - 1) : stack'[i] = stack[i]
        /\ \A i \in DOMAIN stack : stack'[i].root = stack[i].root
        /\ stack'[n].next = Top.next + 1
    BY <1>4, ImportEffect, PassOverEffect
  <2>3. /\ n \in Nat /\ n \in DOMAIN stack /\ DOMAIN stack = 1..n
        /\ Top = stack[n] /\ Top.next \in Nat /\ Top.root \in Root
    BY <2>1, StackFacts DEF Top
  <2>4. Len(imports[Top.root]) \in Nat
    BY <2>3, ImportsFacts
  <2> HIDE DEF n
  <2>5. ASSUME NEW i \in DOMAIN stack'
        PROVE  stack'[i].next <= Len(imports[stack'[i].root]) + 1
    <3>1. CASE i = n
      <4>1. stack'[i].root = Top.root /\ stack'[i].next = Top.next + 1
        BY <2>2, <2>3, <3>1
      <4>2. QED
        BY <2>1, <2>3, <2>4, <4>1
    <3>2. CASE i # n
      <4>1. i \in 1..(n - 1) /\ i \in DOMAIN stack
        BY <2>2, <2>3, <3>2
      <4>2. QED
        BY <2>2, <4>1 DEF NextInImports
    <3>3. QED
      BY <3>1, <3>2
  <2>6. QED
    BY <2>1, <2>5 DEF NextInImports
<1>5. ASSUME Leave PROVE NextInImports'
  <2>1. imports' = imports
    BY <1>5 DEF Leave
  <2>2. ASSUME NEW i \in DOMAIN stack' PROVE i \in DOMAIN stack /\ stack'[i] = stack[i]
    BY <1>5, LeaveEffect, StackFacts
  <2>3. QED
    BY <2>1, <2>2 DEF NextInImports
<1>6. CASE UNCHANGED vars
  BY <1>1, <1>6 DEF vars
<1>7. QED
  BY <1>1, <1>2, <1>3, <1>4, <1>5, <1>6 DEF Next, Resolve, OthersStore, Seed, Seeded, walk

(* The calls under way and the blocks listed are of different roots.       *)
LEMMA RootsUsed ==
  ASSUME TypeOK, CallsOK, IsFiniteSet(Root)
  PROVE  Len(stack) + Cardinality(DOMAIN blocks) <= Cardinality(Root)
<1> DEFINE n == Len(stack)
           path == [i \in 1..n |-> stack[i].root]
<1>1. n \in Nat /\ DOMAIN stack = 1..n /\ \A i \in 1..n : stack[i].root \in Root
  BY StackFacts
<1>2. DOMAIN blocks \subseteq Root
  BY DEF TypeOK
<1> HIDE DEF n
<1>3. ExistsBijection(1..n, Path)
  <2>1. path \in [1..n -> Path] /\ \A r \in Path : \E i \in 1..n : path[i] = r
    BY <1>1 DEF Path
  <2>2. \A i, j \in 1..n : path[i] = path[j] => i = j
    BY <1>1 DEF CallsOK
  <2> HIDE DEF path
  <2>3. path \in Bijection(1..n, Path)
    BY <2>1, <2>2, Fun_IsBij
  <2>4. QED
    BY <2>3 DEF ExistsBijection
<1>4. IsFiniteSet(1..n) /\ Cardinality(1..n) = n
  BY <1>1, FS_Interval
<1>5. IsFiniteSet(Path) /\ Cardinality(Path) = n
  BY <1>3, <1>4, FS_Bijection
<1>6. IsFiniteSet(DOMAIN blocks)
  BY <1>2, FS_Subset
<1>7. Path \cap DOMAIN blocks = {} /\ Path \cup DOMAIN blocks \subseteq Root
  BY <1>1, <1>2 DEF CallsOK, Path
<1>8. /\ IsFiniteSet(Path \cup DOMAIN blocks)
      /\ Cardinality(Path \cup DOMAIN blocks) =
           Cardinality(Path) + Cardinality(DOMAIN blocks) - Cardinality(Path \cap DOMAIN blocks)
  BY <1>5, <1>6, FS_Union
<1>9. Cardinality(Path \cap DOMAIN blocks) = 0
  BY <1>7, FS_EmptySet
<1>10. Cardinality(Path \cup DOMAIN blocks) <= Cardinality(Root)
  BY <1>7, FS_Subset
<1>11. Cardinality(DOMAIN blocks) \in Nat /\ Cardinality(Root) \in Nat
  BY <1>6, FS_CardinalityType
<1>12. QED
  BY <1>1, <1>5, <1>8, <1>9, <1>10, <1>11 DEF n

(* What it can do is bounded by the number of blocks there may be and by   *)
(* the imports of each: with AssemblyOnlyAdvances, the calls of visitBlock *)
(* never nest deeper than there are blocks, and no loop over imports runs  *)
(* past its list, even where blocks import each other.                     *)
THEOREM AssemblyIsBounded ==
  ASSUME IsFiniteSet(Root)
  PROVE  Spec => [](/\ Len(stack) + Cardinality(DOMAIN blocks) <= Cardinality(Root)
                    /\ NextInImports
                    /\ phase = "walking" => stack # <<>>)
<1> DEFINE Bounded == /\ Len(stack) + Cardinality(DOMAIN blocks) <= Cardinality(Root)
                      /\ NextInImports
                      /\ phase = "walking" => stack # <<>>
<1>1. Init => NextInImports
  <2>1. Init => DOMAIN stack = {}
    BY DEF Init
  <2>2. QED
    BY <2>1 DEF NextInImports
<1>2. TypeOK /\ Inv /\ NextInImports => Bounded
  BY RootsUsed DEF Inv, PhaseOK
<1> HIDE DEF Bounded
<1>3. Spec => []Bounded
  BY <1>1, <1>2, NextStaysInImports, TypeCorrect, Invariant, PTL DEF Spec
<1>4. QED
  BY <1>3 DEF Bounded
=============================================================================
