----------------------------- MODULE Federation -----------------------------
(***************************************************************************)
(* Registries that exchange blocks (packages/federation: mirror.ts,        *)
(* pull.ts, submit.ts, wire.ts, serve.ts; packages/registry storeBlock and *)
(* listCatalogPage; packages/cli federation.ts and commons-submit.ts).     *)
(*                                                                         *)
(* A command that captures blocks stores each one and, when it is new to   *)
(* that registry, posts it to the commons without waiting.  The answer     *)
(* marks the row if it comes while the registry is still open.  A mirror   *)
(* command walks a peer spec by spec, block by block.  Both can run on one *)
(* host at a time: not every capturing command takes the write lock.       *)
(*                                                                         *)
(* A block is its root and what the root is computed from (spec,           *)
(* implementation, manifest, artifacts).  Beside them a row, and a message *)
(* that carries it, has fields that the root does not cover                *)
(* (canonicalAstHash, parentBlockRoot, createdAt): it is whole, or altered *)
(* in those.  A message may also be spoilt: its content does not hash to   *)
(* its root.  A block that is not in Portable fails the checks of the      *)
(* receiver in any case: foreign blocks, levels above L0, rows with an     *)
(* empty canonical_ast_hash.                                               *)
(***************************************************************************)
EXTENDS Integers, FiniteSets

CONSTANTS
    Host, Spec0,
    LastBlock,   \* the blocks are numbered in the order of their roots
    commons,     \* the host that accepts submissions
    SpecOf,      \* SpecOf[b]: the spec that block b implements
    Portable,    \* the blocks that pass the receiver's checks
    Peers,       \* Peers[h]: the hosts h mirrors or pulls from
    Made,        \* Made[h]: the blocks that the capturing commands of h can make
    Airgapped,   \* the hosts whose commands have no submitter
    Ahead,       \* the hosts that serve a later schema version than the others
    PageLimit    \* the limit of a catalog page

Block == 1..LastBlock

ASSUME FederationAssumption ==
    /\ commons \in Host
    /\ LastBlock \in Nat
    /\ SpecOf \in [Block -> Spec0]
    /\ Portable \subseteq Block
    /\ Peers \in [Host -> SUBSET Host]
    /\ Made \in [Host -> SUBSET Block]
    /\ commons \in Airgapped
    /\ PageLimit \in Nat \ {0}

VARIABLES
    rows,       \* rows[h]: the table of blocks of h's registry, by root
    marked,     \* marked[h]: those whose submitted_at is set
    session,    \* session[h]: a capturing command: "none", "open" or "closed" (registry)
    requests,   \* <<h, b>>: h's POST of b is on its way
    orphans,    \* the POSTs on their way whose process has ended
    answers,    \* <<h, b>>: the commons' 200 is on its way back to h
    walk,       \* walk[h]: the mirror command on h
    reader      \* a client that pages through the catalog of the commons

captureVars == <<marked, session, requests, orphans, answers>>
vars == <<rows, marked, session, requests, orphans, answers, walk, reader>>

Capturer == {h \in Host : Made[h] # {}}
Submitter == Capturer \ Airgapped

store == [h \in Host |-> DOMAIN rows[h]]  \* store[h]: the blocks in h's registry

Row == {"whole", "altered"}
Message == [root : Block, form : Row \cup {"spoilt"}]

-----------------------------------------------------------------------------
Idle == [phase |-> "none", peer |-> commons, specs |-> {}, pending |-> {}, asked |-> 0,
         failed |-> {}, swapped |-> {}, owed |-> {}]
Closed == [cursor |-> 0, listed |-> {}, there |-> {}, open |-> FALSE]

Walk == [phase : {"none", "gate", "specs", "walking", "blocks", "report"}, peer : Host,
         specs : SUBSET Spec0, pending : SUBSET Block, asked : Block \cup {0},
         failed : SUBSET Block,
         swapped : SUBSET Block, \* history: those for which the peer sent another block
         owed : SUBSET Block]    \* history: the peer's blocks when it listed its specs
Reader == [cursor : Block \cup {0}, listed : SUBSET Block, there : SUBSET Block,
           open : BOOLEAN]       \* there: history, the blocks when the reading began

Init ==
    /\ rows = [h \in Host |-> [b \in {} |-> "whole"]]
    /\ marked = [h \in Host |-> {}]
    /\ session = [h \in Host |-> "none"]
    /\ requests = {}
    /\ orphans = {}
    /\ answers = {}
    /\ walk = [h \in Host |-> Idle]
    /\ reader = Closed

-----------------------------------------------------------------------------
(* deserializeWireBlockTriplet: the receiver's checks.                     *)
Accepted(m) == m.root \in Portable /\ m.form # "spoilt"

(* What can arrive from a host: any block it has, whole only if its row is.*)
Sent(h, m) == m.root \in store[h] /\ (m.form = "whole" => rows[h][m.root] = "whole")

(* INSERT OR IGNORE: the first row of a block stays.                       *)
Insert_Replaces(h, b, row) ==  \* Mutant: INSERT OR REPLACE
    rows' = [rows EXCEPT ![h] = [c \in DOMAIN rows[h] \cup {b} |-> IF c = b THEN row ELSE rows[h][c]]]
Insert(h, b, row) ==
    rows' = [rows EXCEPT ![h] = [c \in store[h] \cup {b} |-> IF c \in store[h] THEN rows[h][c] ELSE row]]

(* Capturing.  storeBlock posts only what its INSERT OR IGNORE inserted.   *)
Novel(h, b) == b \notin store[h]
Posted(h, b) == IF h \in Submitter /\ Novel(h, b) THEN {<<h, b>>} ELSE {}

(* A command without a submitter leaves nothing to wait for: its session   *)
(* is not followed.                                                        *)
Capturing(h) == session[h] = "open" \/ h \in Airgapped

OpenSession(h) ==
    /\ session[h] = "none"
    /\ session' = [session EXCEPT ![h] = "open"]
    /\ UNCHANGED <<rows, marked, requests, orphans, answers, walk, reader>>

StoreBlock(h, b) ==
    /\ Capturing(h)
    /\ b \in Made[h]
    /\ Insert(h, b, "whole")
    /\ requests' = requests \cup Posted(h, b)
    /\ UNCHANGED <<marked, session, orphans, answers, walk, reader>>

CloseRegistry(h) ==
    /\ session[h] = "open"
    /\ session' = [session EXCEPT ![h] = "closed"]
    /\ UNCHANGED <<rows, marked, requests, orphans, answers, walk, reader>>

(* process.exit, or a kill: nobody is left to read the answers.  A POST    *)
(* that has left the host may still arrive.                                *)
Exit(h) ==
    /\ session[h] # "none"
    /\ session' = [session EXCEPT ![h] = "none"]
    /\ orphans' = orphans \cup {r \in requests : r[1] = h}
    /\ requests' = {r \in requests : r[1] # h}
    /\ answers' = {a \in answers : a[1] # h}
    /\ UNCHANGED <<rows, marked, walk, reader>>

(* handleSubmitBlock answers 200 or, to a block that fails the checks, 400,*)
(* about which the poster does nothing.                                    *)
(* Mutant: res.ok is not looked at.                                        *)
Replied_Whatever(h, m) == {<<h, m.root>>} \cap requests
Replied(h, m) == IF Accepted(m) THEN {<<h, m.root>>} \cap requests ELSE {}

SubmitBlock(h, m) ==
    /\ <<h, m.root>> \in requests \cup orphans
    /\ Sent(h, m)
    /\ requests' = requests \ {<<h, m.root>>}
    /\ orphans' = orphans \ {<<h, m.root>>}
    /\ answers' = answers \cup Replied(h, m)
    /\ IF Accepted(m) THEN Insert(commons, m.root, m.form) ELSE UNCHANGED rows
    /\ UNCHANGED <<marked, session, walk, reader>>

LoseRequest(h, b) ==
    /\ <<h, b>> \in requests \cup orphans
    /\ requests' = requests \ {<<h, b>>}
    /\ orphans' = orphans \ {<<h, b>>}
    /\ UNCHANGED <<rows, marked, session, answers, walk, reader>>

LoseAnswer(h, b) ==
    /\ <<h, b>> \in answers
    /\ answers' = answers \ {<<h, b>>}
    /\ UNCHANGED <<rows, marked, session, requests, orphans, walk, reader>>

(* onSuccess: markBlockSubmitted throws once the registry is closed, and   *)
(* the error is swallowed.                                                 *)
MarkSubmitted(h, b) ==
    /\ <<h, b>> \in answers
    /\ answers' = answers \ {<<h, b>>}
    /\ marked' = IF session[h] = "open" THEN [marked EXCEPT ![h] = @ \cup {b}] ELSE marked
    /\ UNCHANGED <<rows, session, requests, orphans, walk, reader>>

-----------------------------------------------------------------------------
(* Mirroring: mirrorRegistry, one request at a time.                       *)
Walks(h, w) == walk' = [walk EXCEPT ![h] = w]

StartMirror(h, peer) ==
    /\ walk[h].phase = "none"
    /\ peer \in Peers[h]
    /\ Walks(h, [Idle EXCEPT !.phase = "gate", !.peer = peer])
    /\ UNCHANGED <<rows, captureVars, reader>>

Refused(h) == walk[h].peer \in Ahead /\ h \notin Ahead

Abandon(h) == Walks(h, Idle)

CheckSchemaVersion(h) ==
    /\ walk[h].phase = "gate"
    /\ IF Refused(h) THEN Abandon(h)
                     ELSE Walks(h, [walk[h] EXCEPT !.phase = "specs"])
    /\ UNCHANGED <<rows, captureVars, reader>>

ListSpecs(h) ==
    /\ walk[h].phase = "specs"
    /\ LET there == store[walk[h].peer] IN
       Walks(h, [walk[h] EXCEPT !.phase = "walking", !.specs = {SpecOf[b] : b \in there},
                                !.owed = there])
    /\ UNCHANGED <<rows, captureVars, reader>>

Listed_None(h, s) == {}  \* Mutant: a list that cannot be had counts as an empty one
Listed(h, s) == {b \in store[walk[h].peer] : SpecOf[b] = s}

ListBlocks(h, s) ==
    /\ walk[h].phase = "walking"
    /\ s \in walk[h].specs
    /\ Walks(h, [walk[h] EXCEPT !.phase = "blocks", !.specs = @ \ {s}, !.pending = Listed(h, s)])
    /\ UNCHANGED <<rows, captureVars, reader>>

(* The getBlock check.  A block that is there is skipped; for another the  *)
(* walk asks the peer and waits, and meanwhile the block may come to be    *)
(* stored by someone else.                                                 *)
ConsiderBlock(h, b) ==
    /\ walk[h].phase = "blocks" /\ walk[h].asked = 0
    /\ b \in walk[h].pending
    /\ Walks(h, [walk[h] EXCEPT !.pending = @ \ {b},
                                !.asked = IF b \in store[h] THEN 0 ELSE b])
    /\ UNCHANGED <<rows, captureVars, reader>>

(* Whatever goes wrong with one block is recorded and the walk goes on.    *)
(* Mutant: the block is asked for again.                                   *)
Fails_Retried(h, b) == Walks(h, [walk[h] EXCEPT !.asked = 0, !.pending = @ \cup {b}])
Fails(h, b) == Walks(h, [walk[h] EXCEPT !.asked = 0, !.failed = @ \cup {b}])

(* pullBlock and storeBlock.  Nothing compares the root of the block that  *)
(* comes with the root that was asked for: another block is stored and     *)
(* counted, and the one that was asked for forgotten.  A request or an     *)
(* insert that fails is the case of a spoilt message.                      *)
BlockArrives(h, m) ==
    /\ walk[h].phase = "blocks" /\ walk[h].asked # 0
    /\ Sent(walk[h].peer, m)
    /\ IF Accepted(m)
       THEN /\ Insert(h, m.root, m.form)
            /\ Walks(h, [walk[h] EXCEPT !.asked = 0, !.swapped = @ \cup ({walk[h].asked} \ {m.root})])
       ELSE UNCHANGED rows /\ Fails(h, walk[h].asked)
    /\ UNCHANGED <<captureVars, reader>>

FinishSpec(h) ==
    /\ walk[h].phase = "blocks" /\ walk[h].asked = 0
    /\ walk[h].pending = {}
    /\ Walks(h, [walk[h] EXCEPT !.phase = "walking"])
    /\ UNCHANGED <<rows, captureVars, reader>>

(* The report has been printed; the next mirror command forgets it.        *)
Report(h) ==
    /\ walk[h].phase = "walking"
    /\ walk[h].specs = {}
    /\ Walks(h, [walk[h] EXCEPT !.phase = "report"])
    /\ UNCHANGED <<rows, captureVars, reader>>

EndMirror(h) ==
    /\ walk[h].phase = "report"
    /\ Abandon(h)
    /\ UNCHANGED <<rows, captureVars, reader>>

(* The schema version or a list cannot be had, which ends the walk with an *)
(* error, or the process is killed.                                        *)
AbortMirror(h) ==
    /\ walk[h].phase \notin {"none", "report"}
    /\ Abandon(h)
    /\ UNCHANGED <<rows, captureVars, reader>>

(* The pull command: no version gate, no check for a block that is there,  *)
(* and the block that comes need not be the one that was asked for.        *)
Pull(h, peer, m) ==
    /\ walk[h].phase = "none"
    /\ peer \in Peers[h]
    /\ Sent(peer, m)
    /\ Accepted(m)
    /\ Insert(h, m.root, m.form)
    /\ UNCHANGED <<captureVars, walk, reader>>

-----------------------------------------------------------------------------
(* GET /v1/blocks: listCatalogPage reads one row more than the page holds. *)
First(n, S) == {b \in S : Cardinality({c \in S : c < b}) < n}
Rows(cursor) == First(PageLimit + 1, {b \in store[commons] : b > cursor})
HasMore(cursor) == Cardinality(Rows(cursor)) > PageLimit
Page(cursor) == IF HasMore(cursor) THEN First(PageLimit, Rows(cursor)) ELSE Rows(cursor)

(* Mutant: the cursor is the row that was read ahead.                      *)
NextCursor_Lookahead(cursor) ==
    IF HasMore(cursor) THEN CHOOSE b \in Rows(cursor) : \A c \in Rows(cursor) : c <= b ELSE 0
NextCursor(cursor) ==
    IF HasMore(cursor) THEN CHOOSE b \in Page(cursor) : \A c \in Page(cursor) : c <= b ELSE 0

OpenCatalog ==
    /\ ~reader.open
    /\ reader' = [cursor |-> 0, listed |-> {}, there |-> store[commons], open |-> TRUE]
    /\ UNCHANGED <<rows, captureVars, walk>>

(* The client reads on until nextCursor is null.                           *)
ReadPage ==
    /\ reader.open
    /\ reader' = IF NextCursor(reader.cursor) = 0 THEN Closed
                 ELSE [reader EXCEPT !.listed = @ \cup Page(reader.cursor),
                                     !.cursor = NextCursor(reader.cursor)]
    /\ UNCHANGED <<rows, captureVars, walk>>

-----------------------------------------------------------------------------
MirrorStep(h) ==
    \/ CheckSchemaVersion(h)
    \/ ListSpecs(h)
    \/ \E s \in Spec0 : ListBlocks(h, s)
    \/ \E b \in Block : ConsiderBlock(h, b)
    \/ \E m \in Message : BlockArrives(h, m)
    \/ FinishSpec(h)
    \/ Report(h)
    \/ EndMirror(h)

Next ==
    \/ \E h \in Capturer, b \in Block : StoreBlock(h, b)
    \/ \E h \in Submitter :
        \/ OpenSession(h) \/ CloseRegistry(h) \/ Exit(h)
        \/ \E m \in Message : SubmitBlock(h, m)
        \/ \E b \in Block :
            \/ LoseRequest(h, b) \/ LoseAnswer(h, b) \/ MarkSubmitted(h, b)
    \/ \E h \in Host :
        \/ MirrorStep(h) \/ AbortMirror(h)
        \/ \E peer \in Host : StartMirror(h, peer)
        \/ \E peer \in Host, m \in Message : Pull(h, peer, m)
    \/ OpenCatalog \/ ReadPage

Spec == Init /\ [][Next]_vars

(* Every request is answered or fails, and the event loop goes on.  The    *)
(* transport sets no timeout of its own: a peer that holds the connection  *)
(* open for ever is not ruled out by the code, only by this assumption.    *)
FairSpec == Spec /\ \A h \in Host : WF_vars(MirrorStep(h))

-----------------------------------------------------------------------------
(* Every variable keeps to the values the code can give it.                *)
TypeOK ==
    /\ DOMAIN rows = Host
    /\ \A h \in Host : rows[h] \in [DOMAIN rows[h] -> Row] /\ DOMAIN rows[h] \subseteq Block
    /\ marked \in [Host -> SUBSET Block]
    /\ session \in [Host -> {"none", "open", "closed"}]
    /\ requests \subseteq Submitter \X Block
    /\ orphans \subseteq Submitter \X Block
    /\ answers \subseteq Submitter \X Block
    /\ walk \in [Host -> Walk]
    /\ reader \in Reader

(* submitted_at is never set for a block that the commons has not stored,  *)
(* whichever requests and answers are lost and whenever the command ends:  *)
(* the queue of unsubmitted blocks never forgets one that is not there.    *)
MarkedIsThere == \A h \in Host : marked[h] \subseteq store[commons]

(* Wherever a walk stands, each block that the peer had when it listed its *)
(* specs is here, on the list of failures, or still ahead of the walk,     *)
(* unless the peer sent another in its place, although blocks are stored   *)
(* on both sides meanwhile.                                                *)
WalkMissesNothing ==
    \A h \in Host : walk[h].phase \in {"walking", "blocks", "report"} =>
        \A b \in walk[h].owed :
            \/ b \in store[h] \cup walk[h].failed \cup walk[h].pending \cup {walk[h].asked}
            \/ b \in walk[h].swapped
            \/ SpecOf[b] \in walk[h].specs

(* A report accounts for the whole of a peer that sends the blocks it is   *)
(* asked for, in whatever state they arrive: what the mirror command does  *)
(* not list as a failure is in the local registry when it exits 0.  A block*)
(* in whose place the peer sent another may be in neither, and only those. *)
ReportAccountsForPeer ==
    \A h \in Host : walk[h].phase = "report" =>
        walk[h].owed \ (walk[h].failed \cup walk[h].swapped) \subseteq store[h]

(* A client that reads the catalog to its last page has listed every block *)
(* that was there when it began, whatever was stored between the pages,    *)
(* and no block twice.                                                     *)
CatalogIsComplete ==
    reader.open =>
        /\ Page(reader.cursor) \cap reader.listed = {}
        /\ NextCursor(reader.cursor) = 0 =>
               reader.there \subseteq reader.listed \cup Page(reader.cursor)

(* Registries only grow, a row that is there never changes, and a block    *)
(* that appears was created there or stood in a registry it was copied     *)
(* from, with all that its root covers; the other fields may have been     *)
(* altered on the way, and stay so: the abstract Replicas.                 *)
Abstract == INSTANCE Replicas
ImplementsReplicas == Abstract!Spec

(* Every mirror command ends, however many of its blocks fail and although *)
(* blocks keep arriving at the peer.                                       *)
MirrorEnds ==
    \A h \in Host : walk[h].phase # "none" ~> walk[h].phase = "none"
=============================================================================
