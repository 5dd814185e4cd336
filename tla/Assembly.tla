------------------------------ MODULE Assembly ------------------------------
(***************************************************************************)
(* Assembling a module from a block and the blocks it is composed of       *)
(* (packages/compile/src/assemble.ts, resolve.ts, ts-backend.ts,           *)
(* manifest.ts) over a registry that other processes add to meanwhile.     *)
(*                                                                         *)
(* A command seeds the registry and assembles entries one after another.   *)
(* A block imports names; the name leads over the seeded blocks to a spec, *)
(* and selectBlocks to the block chosen for it at that moment.  Each query *)
(* of the registry is a step.  Rows are never deleted or updated, so what  *)
(* is read of one block (its source, spec, function name) is a constant of *)
(* the behaviour.  A Merkle root is a number: hashes are compared as such. *)
(***************************************************************************)
EXTENDS Integers, Sequences, Functions

CONSTANTS
    Root,         \* Merkle roots of the blocks there may be
    SpecOf,       \* SpecOf[r]: the spec of r
    NameOf,       \* NameOf[r]: the function that r exports first
    Name,         \* names that sources may import
    ImportLists,  \* the lists of imports of some source
    Known,        \* the seed corpus, in directory order
    NoRoot, NoSpec

ASSUME AssemblyAssumption ==
    /\ Root \subseteq Nat /\ NoRoot \notin Root
    /\ SpecOf \in [Root -> {SpecOf[r] : r \in Root}]
    /\ Known \in Seq(Root) /\ ImportLists \subseteq Seq(Name)
    /\ NoSpec \notin {SpecOf[r] : r \in Root}

ASSUME RootsHaveLeast ==  \* as every set of numbers has
    \A S \in SUBSET Root : S # {} => \E r \in S : \A s \in S : r <= s

VARIABLES
    imports,   \* imports[r]: the imports in r's source; never changes
    stored,    \* the rows of the registry, in order of created_at
    phase,     \* what the command does next
    entry,     \* the block that is assembled
    pending,   \* the block to visit
    stack,     \* the calls of visitBlock under way
    blocks,    \* root -> its sub-blocks: blocks of ResolutionResult
    order,     \* order of ResolutionResult
    since      \* history: the rows there were when this assembly began

vars == <<imports, stored, phase, entry, pending, stack, blocks, order, since>>

Rows == Range(stored)
Over == {"assembled", "cycle", "missing"}
Frame == [root : Root, next : Nat \ {0}, subs : Seq(Root)]

TypeOK ==
    /\ imports \in [Root -> ImportLists]
    /\ stored \in Seq(Root)
    /\ phase \in {"seeding", "ready", "visiting", "walking"} \cup Over
    /\ entry \in Root \cup {NoRoot} /\ pending \in Root \cup {NoRoot}
    /\ stack \in Seq(Frame)
    /\ DOMAIN blocks \subseteq Root /\ blocks \in [DOMAIN blocks -> Seq(Root)]
    /\ order \in Seq(Root)
    /\ since \subseteq Root

Init ==
    /\ imports \in [Root -> ImportLists]
    /\ stored = <<>>
    /\ phase = "seeding"
    /\ entry = NoRoot /\ pending = NoRoot
    /\ stack = <<>> /\ blocks = [r \in {} |-> <<>>] /\ order = <<>>
    /\ since = {}

walk == <<entry, pending, stack, blocks, order, since>>

-----------------------------------------------------------------------------
(* storeBlock, INSERT OR IGNORE: by other processes at any time, and for   *)
(* each seed in turn.                                                      *)
Store(r) == stored' = IF r \in Rows THEN stored ELSE Append(stored, r)

OthersStore(r) ==
    /\ r \notin Rows
    /\ Store(r)
    /\ UNCHANGED <<imports, phase, walk>>

Seed ==
    /\ phase = "seeding"
    /\ \E i \in DOMAIN Known :
        /\ Known[i] \notin Rows /\ \A j \in 1..(i - 1) : Known[j] \in Rows
        /\ Store(Known[i])
    /\ UNCHANGED <<imports, phase, walk>>

Seeded ==
    /\ phase = "seeding"
    /\ Range(Known) \subseteq Rows
    /\ phase' = "ready"
    /\ UNCHANGED <<imports, stored, walk>>

(* buildStemSpecHashIndex: the last known block of a name wins.            *)
SpecNamed(n) ==
    IF \E i \in DOMAIN Known : NameOf[Known[i]] = n
    THEN LET last == CHOOSE i \in DOMAIN Known :
                        /\ NameOf[Known[i]] = n
                        /\ \A j \in DOMAIN Known : NameOf[Known[j]] = n => j <= i
         IN  SpecOf[Known[last]]
    ELSE NoSpec

Start(e) ==
    /\ phase \in {"ready"} \cup Over
    /\ phase' = "visiting" /\ entry' = e /\ pending' = e
    /\ stack' = <<>> /\ blocks' = [r \in {} |-> <<>>] /\ order' = <<>>
    /\ since' = Rows
    /\ UNCHANGED <<imports, stored>>

-----------------------------------------------------------------------------
Top == stack[Len(stack)]
Path == {stack[i].root : i \in DOMAIN stack}

(* selectBlocks: its strictness edges and test runs have no writer in the  *)
(* program, so candidates are ordered by their roots.                      *)
Candidates(spec, rows) == {r \in rows : SpecOf[r] = spec}

Chosen_Oldest(n, rows) ==  \* Mutant: rows stay in order of created_at
    LET is == {i \in DOMAIN stored : SpecOf[stored[i]] = SpecNamed(n)}
    IN  IF is = {} THEN NoRoot ELSE stored[CHOOSE i \in is : \A j \in is : i <= j]

Chosen(n, rows) ==
    LET candidates == Candidates(SpecNamed(n), rows)
    IN  IF candidates = {} THEN NoRoot
        ELSE CHOOSE r \in candidates : \A s \in candidates : r <= s

(* visitBlock up to its loop.                                              *)
Visit_BySpec ==  \* Mutant: blocks of one spec are told for one block
    /\ phase = "visiting"
    /\ \/ /\ pending \in DOMAIN blocks
          /\ phase' = "walking" /\ UNCHANGED stack
       \/ /\ pending \notin DOMAIN blocks
          /\ SpecOf[pending] \in {SpecOf[r] : r \in Path}
          /\ phase' = "cycle" /\ UNCHANGED stack
       \/ /\ pending \notin DOMAIN blocks
          /\ SpecOf[pending] \notin {SpecOf[r] : r \in Path} /\ pending \notin Rows
          /\ phase' = "missing" /\ UNCHANGED stack
       \/ /\ pending \notin DOMAIN blocks
          /\ SpecOf[pending] \notin {SpecOf[r] : r \in Path} /\ pending \in Rows
          /\ stack' = Append(stack, [root |-> pending, next |-> 1, subs |-> <<>>])
          /\ phase' = "walking"
    /\ UNCHANGED <<imports, stored, entry, pending, blocks, order, since>>

Skip ==
    /\ pending \in DOMAIN blocks
    /\ phase' = "walking" /\ UNCHANGED stack

Enter ==
    /\ pending \notin DOMAIN blocks \cup Path
    /\ pending \in Rows
    /\ stack' = Append(stack, [root |-> pending, next |-> 1, subs |-> <<>>])
    /\ phase' = "walking"

Throw ==
    /\ pending \notin DOMAIN blocks
    /\ \/ pending \in Path /\ phase' = "cycle"
       \/ pending \notin Path \cup Rows /\ phase' = "missing"
    /\ UNCHANGED stack

Visit ==
    /\ phase = "visiting"
    /\ Skip \/ Enter \/ Throw
    /\ UNCHANGED <<imports, stored, entry, pending, blocks, order, since>>

(* The call on top of the stack goes on to its next import.                *)
Advance(subs) ==
    stack' = [stack EXCEPT ![Len(stack)] =
                [root |-> Top.root, next |-> Top.next + 1, subs |-> subs]]

(* The loop over the imports: one that leads to no block is skipped.       *)
Import_Unrecorded(r) ==  \* Mutant: the sub-block is visited but not pushed
    /\ phase = "walking" /\ stack # <<>> /\ Top.next <= Len(imports[Top.root])
    /\ r = Chosen(imports[Top.root][Top.next], Rows) /\ r # NoRoot
    /\ Advance(Top.subs)
    /\ pending' = r /\ phase' = "visiting"
    /\ UNCHANGED <<imports, stored, entry, blocks, order, since>>

Import(r) ==
    /\ phase = "walking" /\ stack # <<>> /\ Top.next <= Len(imports[Top.root])
    /\ r = Chosen(imports[Top.root][Top.next], Rows) /\ r # NoRoot
    /\ Advance(Append(Top.subs, r))
    /\ pending' = r /\ phase' = "visiting"
    /\ UNCHANGED <<imports, stored, entry, blocks, order, since>>

PassOver_Stuck ==  \* Mutant: the loop goes on without its next import
    /\ phase = "walking" /\ stack # <<>> /\ Top.next <= Len(imports[Top.root])
    /\ Chosen(imports[Top.root][Top.next], Rows) = NoRoot
    /\ UNCHANGED vars

PassOver ==
    /\ phase = "walking" /\ stack # <<>> /\ Top.next <= Len(imports[Top.root])
    /\ Chosen(imports[Top.root][Top.next], Rows) = NoRoot
    /\ Advance(Top.subs)
    /\ UNCHANGED <<imports, stored, phase, entry, pending, blocks, order, since>>

(* visitBlock after its loop; after the entry's, emit and buildManifest    *)
(* list the blocks in this order.                                          *)
Leave_InFront ==  \* Mutant: parents before leaves
    /\ phase = "walking" /\ stack # <<>> /\ Top.next > Len(imports[Top.root])
    /\ blocks' = [r \in DOMAIN blocks \cup {Top.root} |->
                    IF r = Top.root THEN Top.subs ELSE blocks[r]]
    /\ order' = <<Top.root>> \o order
    /\ stack' = SubSeq(stack, 1, Len(stack) - 1)
    /\ phase' = IF Len(stack) = 1 THEN "assembled" ELSE "walking"
    /\ UNCHANGED <<imports, stored, entry, pending, since>>

Leave ==
    /\ phase = "walking" /\ stack # <<>> /\ Top.next > Len(imports[Top.root])
    /\ blocks' = [r \in DOMAIN blocks \cup {Top.root} |->
                    IF r = Top.root THEN Top.subs ELSE blocks[r]]
    /\ order' = Append(order, Top.root)
    /\ stack' = SubSeq(stack, 1, Len(stack) - 1)
    /\ phase' = IF Len(stack) = 1 THEN "assembled" ELSE "walking"
    /\ UNCHANGED <<imports, stored, entry, pending, since>>

-----------------------------------------------------------------------------
Resolve ==
    \/ Visit
    \/ \E r \in Root \cup {NoRoot} : Import(r)
    \/ PassOver
    \/ Leave

Next ==
    \/ \E r \in Root : OthersStore(r) \/ Start(r)
    \/ Seed
    \/ Seeded
    \/ Resolve

Spec == Init /\ [][Next]_vars

(* Nothing but a kill keeps the command from its next statement.           *)
FairSpec == Spec /\ WF_vars(Resolve)

-----------------------------------------------------------------------------
Unchanged == Rows = since

Subs(r) == Range(blocks[r])

(* The emitted module and the manifest list each block once and after all  *)
(* of its sub-blocks, the entry last, although other processes change what *)
(* is chosen for a spec between two imports of it.                         *)
LeavesFirst ==
    /\ IsInjective(order) /\ Range(order) = DOMAIN blocks
    /\ \A i \in DOMAIN order : \A s \in Subs(order[i]) : \E j \in 1..(i - 1) : order[j] = s
    /\ phase = "assembled" => order # <<>> /\ order[Len(order)] = entry

(* Every block but the entry is there because one after it needs it.       *)
NothingUnused ==
    phase = "assembled" =>
        \A i \in DOMAIN order : order[i] # entry =>
            \E j \in DOMAIN order : j > i /\ order[i] \in Subs(order[j])

(* A cycle that is reported is one: blocks each of which chose the next as *)
(* a sub-block.  And only the entry can be missing: what selectBlocks      *)
(* returned is there when it is visited.                                   *)
ErrorsAreTrue ==
    /\ phase = "cycle" =>
        \E i \in DOMAIN stack :
            /\ stack[i].root = pending /\ pending \in Range(Top.subs)
            /\ \A j \in i..(Len(stack) - 1) : stack[j + 1].root \in Range(stack[j].subs)
    /\ phase = "missing" => pending = entry

(* The blocks that r is composed of, when the registry holds rows.         *)
Composition(r, rows) ==
    {s \in rows :
        /\ SpecOf[s] \in {SpecNamed(n) : n \in Range(imports[r])}
        /\ \A t \in Candidates(SpecOf[s], rows) : s <= t}

(* Assembling is reproducible: over a registry that did not change the     *)
(* blocks are those that its content determines, whatever the order in     *)
(* which they were stored and whatever was assembled before.               *)
Reproducible ==
    phase = "assembled" /\ Unchanged =>
        \A r \in DOMAIN blocks : Subs(r) = Composition(r, since)

(* Every assembly ends, with a module or an error, while blocks are added. *)
AssemblyEnds == phase \in {"visiting", "walking"} ~> phase \in Over
=============================================================================
