# Yakcc: a verification development

TLA+ models of the stateful parts of this repository, the TLC runs that check
them, and theorems about them that TLAPS proves. Yakcc is a set of TypeScript
packages (`src/packages/*`): a registry of content-addressed code blocks in one
SQLite database, tools that fill it (shaving source, hooks in editors, seeds),
tools that read it (search, assembly, compilers), a federation of registries, and
a marketplace for proofs of blocks. Several processes (commands, editor hooks, an
MCP server, daemons) share one database and a few files next to it. No resident
server orders their work, so what holds has to come out of transactions,
file-system calls and rows that are read again later.

Contents: [parts](#1-the-parts-of-the-system) · [modules](#2-the-modules-and-the-code)
· [runs](#3-the-runs) · [fairness](#4-fairness) · [proofs](#5-the-proofs) ·
[disagreements](#6-where-the-code-and-its-words-disagree) ·
[limits](#7-what-is-left-out) · [plan](#8-plan)

## 1. The parts of the system

The parts that keep state of their own:

| Part | State | Operations | What is hard | What makes it correct |
| --- | --- | --- | --- | --- |
| Proof market, `proof-market.ts` | tables of bounties, claims, attestations | post, commit, reveal, transition, finalize | any process calls any of them; clocks lag; each deadline is tested at another moment; two tables updated by different statements | the tables agree, deadlines hold, commit-reveal prevents front-running, decisions are final, every polled bounty is decided |
| Retractions, `retraction.ts` | table of retractions; the amounts returned to the caller | file, resolve | races for one slash, over rows the market still changes | one slash per claim, only accepted claims challenged, no rival left pending |
| Write lock, `registry/src/lock.ts` | one file; the holder each waiting process has read | acquire, poll, steal, release | create, write, read and remove are separate calls; holders die; removals fail | one writer at a time; every call returns |
| Embedding index, `storage.ts`, `rebuild.ts` | `registry_meta`, `contract_embeddings`, blocks | open and stamp, store, recreate, rebuild | stamps, table and vectors change in different statements; providers fail half way; other sessions | the table fits its vectors; a rebuild repairs everything; blocks stay searchable |
| Shave on miss, `hooks-base/shave-on-miss*.ts` | one queue and one copy of the state file per process; the file | miss, import hit, package sweep, end of a worker, save | a copy read once and written back later; a save is two calls; processes end at any time | nothing looks done that was not tried; own work is not forgotten; a missed package is swept whole |
| Proof command line, `cli/src/commands/proof.ts` | one stash file per claim, the only copy of its nonce | post, commit and stash, reveal and delete | database and file change in different steps; two commands in one home; kills; full disks | a stash opens its claim, lives until the reveal, goes with it |
| Schema, `registry/src/schema.ts`, `openRegistry` | `schema_version`, tables and columns | migrate, backfill | no transaction spans the migrations; the version is read once; openings overlap or die | the version is honest, hashes get filled in, vectors survive |
| Federation, `federation/` | the rows of the registries; the progress of a walk | serve, pull, mirror | both sides grow during a walk; requests fail; messages arrive spoilt, altered where the root does not reach, or with another block | a report accounts for the peer but for blocks swapped for others, a catalog read to its end is complete, rows never change |
| Commons queue, `cli/src/lib/commons-submit.ts`, `storeBlock` | `submitted_at` of blocks | post, mark | answers late or lost, commands that end first | no block is marked that the commons lacks |
| Resolution, `compile/src/resolve.ts`, `assemble.ts` | index of names, path, blocks, order during a walk | seed, assemble | cycles, shared blocks, two implementations of a spec, a registry that changes during the walk | sub-blocks first, errors true, same content same module, it ends |
| Reputation, `reputation.ts` | scores and their times | delta, decay, limit on active claims | reads and writes outside a transaction | no update lost (nothing in `src/` calls it) |
| Telemetry sink, `hooks-base/telemetry-sink.ts` | buffer, timer, flushing flag | record, flush, flush at exit | a flush in progress when the process exits | no event is dropped silently |

Interactions. The market's methods, the retractions and the registry's stores are
SQLite transactions on one database: they exclude each other but wait for each
other, so that a time read before one is stale inside it. Commands that write in
bulk (bootstrap, shave, federation, rebuild) take the write lock around
everything they do; seed, emit-atom, propose, compile-self, serve and the hooks do not,
so that a capturing command may run beside a mirror. Hook processes meet only
in the registry and in the shave-on-miss state file. The embedding index is
written by every store and guarded by the model that `openRegistry` stamps.

The parts without state of their own (identity and contracts, shaving, the strict
subset, compilers and raisers, adapters, the MCP server, verifiers, seeds) are
functions from documents to documents. `PROJECT.json` lists them with the reason
each is left out, and under `hazards` everything found hard to test, by line.

## 2. The modules and the code

An action is a whole transaction, a whole handler that does not await, or one
file-system call or await where others may run in between. A throw that rolls
back a transaction is a disabled action. An operator named `A_Slip` is action
`A` with a plausible slip of a programmer; it is used only to show that a property
can tell the two apart.

**ProofMarket** (`MCProofMarket`, `ProofMarketProofs`). The tables are partial
functions from keys to rows. `PostBounty`, `CommitClaim`, `RevealClaim`,
`TransitionBounty`, `FinalizeBounty` are the five exported methods. Each reads
`Date.now()` before its transaction, so its `nowMs` is any reading at most `MaxLag`
old. `Tick` is time. Which artifacts a claimant can commit to is modelled by
`Knows` (found alone), what earlier reveals made public, and copies of hashes in
the table. A commit hash is the bytes it is computed from, BLAKE3 being taken as
injective: the artifact's hash, of fixed length, then nonce and claimant id with nothing
between them. `Joined(n, p)` is those bytes, and two pairs may have the same: nonce `n`
with id `xalice`, nonce `nx` with id `alice` (`MayShareHash`).
`Transition` polls with any documented window, as the option `tRevealMs` allows.

**ProofRetraction** (`MCProofRetraction`, `MarketUsersProofs`) extends
ProofMarket: its steps are the market's steps, and `File` and `Resolve` on the same
tables. `payouts` remembers what `resolveRetraction` returned, since the code
leaves the transfer to its caller. The decay is a parameter `SlashAfter`, of which
only "never more than the base" is assumed; TLC uses a half-life of one tick.

**WriteLock** (`MCWriteLock`, `WriteLockProofs`) is `acquireWriteLock` call by call:
`TryAcquire` (O_CREAT|O_EXCL), `WriteMeta`, `ReadMeta`, `JudgeStale`/`GiveUp`/`Poll`, `Steal`
(`rmSync`, whatever file is there by now), `Release`. The file is its creator and whether its
metadata is complete; a process that created a file which was removed writes to a file that
has no name. `Faults` turns on exits, kills, failing writes and failing removals.

**EmbeddingIndex** (`MCEmbeddingIndex`, `EmbeddingIndexProofs`). A session is one
`openRegistry` to its close. `Open` is the model check, `StampModel` and `StampDim` the two
statements after it, `Store` the transaction of `storeBlock` with its vector,
`DropTable`/`CreateTable`/`ResizeStamp` the three statements of `recreateEmbeddingsTable`,
`StartRebuild`/`Reembed`/`Finish` `rebuildRegistry` block by block. Every wait is a point
where the session may crash or its provider fail. `alone` is history: whether another session
was open during this one.

**ShaveOnMiss** (`MCShaveOnMiss`, `ShaveOnMissProofs`). Per process: the queue
`_queue`, the copy `_cachedState`, and the bindings its sweep microtasks have yet to
visit. `Miss` and `Sweep` are `applyShaveOnMiss` called by the hook and by
`applyPreemptivePackageShave`, `Finish` is the worker's end with its `finally`,
`UpdateState` truncates the file and `Write` fills it: in between other processes
run, and the process may be killed. `tried` and `disturbed` are history: what some
worker has ended, and whether processes overlapped or a save failed. The sweep is
one loop in the code; as one step per binding the model has the code's order and
others besides.

**Migrations** (`MCMigrations`, `MigrationsProofs`). What `applyMigrations` executes is
data, `Migration`: a sequence of statements per version, each creating, dropping or
indexing a table or adding a column. `Connect` reads the version, `BeginMigration`,
`Execute` and `EndMigration` are a migration statement by statement, `Search` and `Fill`
the backfill of `canonical_ast_hash` that `openRegistry` does and `ProofMarket.open` does
not. Other openings run, stores happen and processes die between any two statements.
`raced` is history: whether openings overlapped below version 2; `abandoned`: whether
whoever owed the hashes died or was the market.

**Replicas** is the promise of the federation: registries only grow, by blocks made there or
copied from where they stand, and a row never changes. **Federation** (`MCFederation`,
`FederationProofs`) refines it. `rows[h]` is a registry: each block's row is *whole* or
*altered* in what the root does not cover (`canonicalAstHash`, `parentBlockRoot`,
`createdAt`); spec, implementation, manifest and artifacts are what the root is computed
from. `StoreBlock` and `SubmitBlock` are `storeBlock` with its
post after a novel insert; the commons answers, and `MarkSubmitted` marks the row if the
session is still open. `ListSpecs`, `ListBlocks`, `ConsiderBlock`, `BlockArrives` are
`mirrorRegistry` request by request, `Pull` one block, and a reader follows the
`nextCursor` of `/v1/blocks`. Requests and answers are lost or delayed, and hosts end
commands at any step. What arrives for a block (`Sent`) is any block the peer has, as its row
is, altered, or spoilt so that it does not hash to its root. `Accepted` is the
receiver's check: spoilt messages fail it, altered ones and other blocks do not, since
nothing compares the root received with the root asked. Only `Portable` blocks pass it:
foreign blocks, levels above L0 and rows whose hash the migrations left empty do not.
`owed` and `swapped` are history: what the peer had when it listed its specs, and for which
blocks another one came.

**ProofCli** (`MCProofCli`, `MarketUsersProofs`) extends ProofMarket. `StartCommit` is the
nonce and the transaction, `CreateStash` and `WriteStash` the file, created and then
filled; `ReadStash`, `RevealStep` or `RevealFails`, `DeleteStash` the reveal command. `CutShort`
kills a command or fails its disk, and `broken` remembers which. Other users of the
market go through the same database with the API alone, which `market_core` covers.

**Assembly** (`MCAssembly`, `AssemblyProofs`). A command seeds the registry and assembles
entries one after another. `SpecNamed` is the index of exported names (the last of two
equal names wins), `Chosen` the head of `selectBlocks`, `Visit` the entry of `visitBlock`
(`Skip`, `Throw` or `Enter`), `Import` and `PassOver` its loop with one query per import,
`Leave` its end. `OthersStore` adds blocks between any two queries. Nothing in `src/`
writes `strictness_edges` or `test_history`, so candidates are ordered by root; with such
rows the comparator of `selectBlocks` would not be transitive. The texts that `emit` and
`buildManifest` make list the blocks in the resolver's order and are left out.

## 3. The runs

| Run | States | What it asks |
| --- | --- | --- |
| `market_core` | 472,000 | two bounties, two claims, lag 1, two accounts that may share a hash: agreement of the tables, deadlines, no front-running, final decisions |
| `doc_accept_needs_reveal` | | violation: a bounty without any reveal is accepted |
| `retraction_core` | 119,000 | two retractions of a claim while the market goes on: one slash, accepted claims only, no rival pending |
| `lock_pair` | 5,800 | two processes, all faults: exclusion, every call returns |
| `doc_lock_exclusive` | | violation: three processes, two of them writers after the holder exits |
| `index` | 71,000 | two sessions that overlap or not, three models, crashes and outages: a rebuild that ran alone has repaired everything, vectors fit, blocks stay searchable |
| `doc_cross_dimension` | | violation: a rebuild to another dimension fails |
| `shave_workers` | 288,000 | two hook processes that are killed and overwrite each other |
| `migrations_opening` | 1,931,000 | two openings of a database of version 0, 1, 2 or 11, by registry or market, that overlap and die |
| `federation` | 173,000 | a host that captures, posts and mirrors, the commons, a host ahead of them, a client of the catalog |
| `proof_cli` | 249,000 | two commands in one home, two claims, kills and full disks, a market that is polled |
| `assembly` | 239,000 | all compositions of four blocks, every entry, a block that arrives meanwhile |

Bounds, and why they are enough.

- *Time.* `MaxTime` is 3 or 4 ticks and `Post` admits only windows that end by then.
  A deadline has three sides (before, at, after), both windows and one tick of lag
  fit, so that every order of a deadline, a late reveal and a late poll occurs.
- *Two bounties and two claims.* A front-runner needs a rival on the same bounty; a
  legitimate copy needs a reveal on another. Two of each give both. Of the two ids one
  ends the other, and of the two nonces one makes up for the difference. With two
  bounties a decision of one meets every phase of the other.
- *One attestation with either result* decides a bounty; ratios matter to
  `Supermajority` only, and retractions vote with up to three.
- *Two lock processes* for exclusion, as the race at `lock.ts:155` needs a third (section 6).
  `MaxPolls` is the number of polls that fit in a timeout; a process picks any number up to 2.
- *Three embedding models*: two of one dimension (a mismatch the dimension cannot
  show) and one of another. Two blocks: one re-embedded, one not yet.
- *Two hook processes and two bindings of a package*: a process that meets a file it
  did not write, and a binding that only a sweep reaches. Counts stop at their
  threshold, where the code stops telling them apart.
- *Two openings and two blocks*: one block that came with the database, one stored
  by whoever opened it first. Version 11 stands for every version above 2, whose
  migrations differ in the names of what they create.
- *Three blocks of two specs and pages of one block*: a spec with two blocks has one to
  fail and one to copy, and a catalog read takes several pages; one block is not portable.
  One host captures, as capturing hosts meet in the commons only.
- *Two commands, two claims and two nonces in one home*, on one bounty: they race for one
  claim or work on two, and a nonce drawn anew differs from the stashed one.
- *Four blocks, each with one of four import lists*: 256 compositions hold chains,
  shared sub-blocks, and cycles through one block or two. Two seeds export one name;
  a block of the same spec as a seed may be stored at any moment and is then chosen
  before it.

Symmetry is used over row keys, sessions, processes and block specs, in runs without
liveness only. `CHECK_DEADLOCK FALSE` stands where the system may stop: the bounded
clock of the market runs out, all lock processes may end, and commands that have
mirrored, captured or assembled what there is have nothing left to do.

What the properties say:

- `ClaimsFollowBounty`, `TimesInOrder`, `NoFrontRunning`, `DecisionsAreFinal`,
  `EveryBountyDecided`: however late polls come, a claim's status never contradicts
  its bounty's; commits and reveals keep their deadlines; an artifact is revealed by
  someone who found it, learnt it from another bounty, or had the very hash of
  another claimant, which takes ids of which one ends the other; a decision is never
  changed; and with a polling daemon there is always one.
- `SlashedOnce`, `OnlyAcceptedChallenged`, `NoRivalLeftPending`: a retraction race has
  one winner, over a claim that stays accepted, and its losers are resolved with it.
- `MutualExclusion`, `AcquireReturns`: one writer, between two processes; each call ends
  unless its removals of a stale file fail for ever.
- `RebuildRepairs`, `IndexFits`, `BlocksStaySearchable`: a rebuild that ran alone and
  reports success has embedded every block by its own model, whatever overlapped or
  crashed before; no vector is of a wrong dimension; only dropping the whole table
  takes a block's vector.
- `OnlyTriedIsCompleted`, `OwnWorkRemembered`, `AttemptsPersist`, `WholePackageSwept`:
  the state file may lose what a process wrote, but never invents; a process
  remembers its own attempts; processes that follow one another, with saves that
  succeed, never repeat an attempt; a package whose misses reach the threshold is
  tried or skipped binding by binding.
- `VersionTells`, `OpenerBackfills`, `SomeoneBackfills`, `RetriesSucceed`, `StaySearchable`: a
  version is never ahead of its tables; an `openRegistry` that found an old database
  leaves no hash empty; once the version is 3, hashes are empty only while an opening that
  owes them is on its way, or if the history says that it died or was the market; openings
  that do not overlap below version 2 never fail for what others left half done, end in
  the current schema and keep every vector.
- `MarkedIsThere`, `ReportAccountsForPeer`, `CatalogIsComplete`, `ImplementsReplicas`,
  `MirrorEnds`: the mark on a block is never wrong; what a mirror did not report as failed
  is here, unless the peer sent another block in its place; pages miss and repeat nothing
  that was there; nothing that was spoilt is stored, no row changes, and what was altered
  on its way is never whole in a later copy; every mirror ends.
- `StashOpensClaim`, `UnrevealedKeepsStash`, `RevealedIsCleanedUp`: between the database and
  the home directory, a stash that parses opens its claim, is there until the
  reveal unless the commit was cut short, and is gone after it unless the reveal was.
- `LeavesFirst`, `NothingUnused`, `ErrorsAreTrue`, `Reproducible`, `AssemblyEnds`: a module
  lists sub-blocks first, each once, and nothing else; a reported cycle is a chain of
  real choices; the content of an unchanged registry determines the module; it ends.

Every type invariant is a theorem; runs check those of EmbeddingIndex, of the
retractions (amounts stay whole and in range) and of the stashes too.

## 4. Fairness

- `PolledCliSpec` (`proof_cli`): nothing in `src/` calls `transitionBounty` or
  `finalizeBounty`; the header of `proof-market.ts` leaves that to daemons. Weak
  fairness of `Transition(b)`, of `Finalize(b)` and of `Tick` is a daemon that keeps
  polling every bounty while time passes. No command has to run or to end. Without
  a daemon nothing is ever decided.
- `FairSpec` (`lock_pair`): a process that is alive keeps executing, and a command that
  holds the lock releases it in its `finally`; `Work(p)` is that. Starting, failing and
  ending are not fair. `AcquireReturns` speaks of one call and excuses only removals
  that fail again and again, which the code indeed retries without a deadline.
- `FairSpec` (`federation`): each request of a mirror is answered or fails, and the walk
  goes on (`MirrorStep(h)` for every host). The transport has no timeout: a peer that
  accepts a connection and stays silent holds the mirror, and the write lock, for ever.
- `FairSpec` (`assembly`): an assembly that was begun keeps executing (`Resolve`). Neither
  the next assembly nor a store by others is fair.

## 5. The proofs

TLAPS checks every step; there is nothing assumed besides the named assumptions of
the modules, which TLC evaluates in the runs.

**ProofMarketProofs**, from `MarketAssumption`, for any accounts, artifacts,
windows and lag. `TypeCorrect`; `Invariant`; then `ClaimsFollow`, `DeadlinesHonoured`,
`FrontRunningPrevented`, and `DecisionsStand` (an action property). None of the safety
properties is inductive alone. The invariant adds *WindowsOpenInTurn* (a bounty
that left COMMIT has passed its commit deadline and has a reveal deadline),
*RevealedRows* (a row has an artifact and a time of reveal exactly if it is neither
COMMITTED nor LAPSED, and the artifact is that of its hash, opened with its own
claimant) and *CommitsAreKnown* (for each hash in the table there is a claim with that hash
whose claimant it opens for, who knew the artifact alone or from a reveal on another bounty).
The last carries front-running: a copied hash opens only for those who can share it; what a
claimant commits itself was known before any reveal on that bounty, as commits end first.
`FrontRunningPrevented` keeps the exception that the encoding leaves, and
`RevealServesNoRival` drops it where no two accounts can open one hash, as when
all nonces have the 32 bytes the command draws.

**MarketUsersProofs** has the retractions and the command line, both users of the market.
From `RetractionAssumption`: to the market every step of the composition is one of its own
or a stutter (`RetractionSteps`); so `MarketUndisturbed` and every market theorem hold with
retractions. On top: `RetractionTypeCorrect`, `NeverSlashedTwice`, `ChallengesAccepted`,
`RivalsResolved`, with *NothingLater* (no row is dated after the clock) as the strengthening
and `DecisionsStep` as the reason a challenged claim stays accepted.

From `MarketAssumption` and `CommandAssumption`, for any commands, users, claims and nonces:
`ImplementsMarket`, so that the market's theorems hold with the commands; `CliTypeCorrect`.
`StashIsWorthKeeping`, `StashOutlivesFailures` and `RevealsCleanUp` are inductive only
together, with *SecretsOpen* (a command works on a claim of its user, with the secret that
opens it), *WritersAlone* (until a commit command has written the stash, no other command
works on its claim, which is unrevealed) and *DeletesAreLate* (who is about to delete a stash
has revealed the claim).

**WriteLockProofs**. `TypeCorrect` for any processes and faults. `Excludes` under two
hypotheses the code needs:
`OneUser` (a process may signal every other) and `NoThree` (at most two processes, or
none ever ends). The invariant says that the file is that of whoever creates or
holds it, and that whoever is about to remove it has seen a dead holder; with
three processes that is not inductive, and `doc_lock_exclusive` shows it false.
`AcquireOnlyAdvances` needs `OneUser` alone and is the argument why an acquisition ends: each of
its steps makes less in the order of *Better* (processes that may yet die, then a stale file
that is there or that it has seen, then polls, then the steps to the next poll), and no other
process makes more. Only a removal that fails is excepted, as in `AcquireReturns`.

**EmbeddingIndexProofs**, from `IndexAssumption`, for any sessions, blocks, models and
dimensions. `TypeCorrect`, `VectorsFit`, `RebuildsRepair`, and `SearchableStays` (an action
property). That vectors fit needs nothing but the types, since whoever drops the table
drops its vectors in the same statement. That a rebuild repairs is the end of a chain:
*AloneIsAlone* (a session that met no other is the only one open), *StampHolds* (so the
stamps are its own at each place of its code, and it never finds another dimension to
recreate the table for), *Reembedded* (so every block is embedded by its model or is still
on its list).

**ShaveOnMissProofs**, from `ShaveAssumption` and `TokenAssumption`, for any processes,
packages, thresholds and faults. `TypeCorrect`; `Invariant`; `NothingLooksDone`,
`OwnWorkKept`, `PackagesSwept`, `NoAttemptLost`. *QueueRead* (a process that queued something
has its own copy) is what makes the first three inductive: from then on no overwritten file
can change what a process knows. `CopyStep` and `QueueStep` say once what every handler does
to its copy and its queue; `SkipsLast` that a reason to skip lasts as long as the process.
`NoAttemptLost` rests on *OneAtATime* (undisturbed processes do not overlap), *Forgotten* (a
process that ended has no copy left) and *Persisted* (every copy read, and the file unless it
is being saved, knows all that was ever tried).

**MigrationsProofs**, from `MigrationsAssumption`, for any processes, blocks and initial
versions. `VersionIsHonest`, `HashesFilled`, `HashesOwed`, `VectorsSurvive`, `OpeningsSucceed`.
Versions go back and forth when openings overlap, so the invariant speaks of each process:
*Progress* (who is in migration m has made what its statements so far make, and every
lasting object of the earlier ones), *AllThere* (who is past the migrations finds every
lasting object), *Found* (who fills in hashes has every block that lacks one on its list).
`StatementKeeps` is the reason others cannot disturb it: no statement removes a lasting
object. *Owed* follows the hashes: whoever raises the version past 2 found it old, and owes
them until it opens or gives up. The last two theorems are about migrations 1 and 2, which
drop tables and create them in another shape. *OneLow* says that, unless openings raced, one
process at most is in them and the version tells which; *EarlyShapes* is then what each
statement finds, with what a death in any place of migration 2 leaves to the next opening;
*LateShapes* that the other tables have one shape only. Hence no statement can fail
(*NoFailure*) and nothing is stored before the vectors' table is made anew.

**FederationProofs**, from `FederationAssumption`, for any hosts, blocks, specs and page
limits. `QueueForgetsNothing`, `MirrorAccountsForPeer`, `CatalogReading`, and `Refinement` of
Replicas. *RowsOK* gives the tables their types. *WalksOK* follows a walk: what it owes is
here, failed, swapped for another block, pending, asked for, or of a spec it has yet to list.
*ReaderOK* follows a catalog reader: what it has listed is exactly what it saw up to its
cursor. *AnswersAreThere* follows an answer. As registries only grow, nothing a walk or a
reader has established is lost. `MirrorOnlyAdvances` is the argument why a mirror ends: each
of its steps, failures included, makes less in the order *Nearer* (stages, then specs to list,
then blocks of a spec, then the answer awaited), and no step of others makes more.

**AssemblyProofs**, from `AssemblyAssumption` and `RootsHaveLeast` (a set of roots has a least
one: roots are numbers, and the provers have no induction to show it). `ModuleInOrder`,
`ModuleIsMinimal`, `ErrorsTrue` for any compositions, with stores between any two queries;
`ModuleIsReproducible` when there are none. *CallsOK* says that each call under way was chosen
by the one below it and none is twice on the path, *SubsOK* that each sub-block is listed
before its block or is being visited, *UsedOK* that each listed block is used. *DeterminedOK*
says that in an unchanged registry the sub-blocks of a call so far are the choices for the
imports it has passed. `AssemblyOnlyAdvances` and `AssemblyIsBounded` are the argument why an
assembly ends: each statement of the resolver advances in the order *Further* (blocks listed,
then depth of calls, then imports passed), stores by others never set it back, and if there
are finitely many roots, calls and listed blocks together are no more than those.

Model-checked only: the four liveness properties `EveryBountyDecided`, `AcquireReturns`,
`MirrorEnds` and `AssemblyEnds`. A step from "each step advances" to "it ends" takes fairness,
ENABLED and induction over a well-founded order, which are out of the prover's reach; of the
last three the advance itself is proved, as said above. Every other property that a passing
run checks is a theorem, `MutualExclusion` under the two hypotheses given.

## 6. Where the code and its words disagree

Shown by a run each (`findings` in `PROJECT.json` quote the lines):

- `doc_accept_needs_reveal`: a bounty on which nothing was revealed can be accepted,
  as attestations on lapsed claims count (`proof-market.ts:598` against `:530`).
- `doc_lock_exclusive`: a process reads the metadata of a live holder, the holder releases and
  exits, a third process takes the free path; the first now finds that PID dead, removes the
  third's lock and takes it: two hold it (`lock.ts:155` against `:8-9`).
- `doc_cross_dimension`: a rebuild to another dimension cannot succeed, as opening has
  stamped the new one already (`storage.ts:2442` against `docs/USING_YAKCC.md:588`).

Met while modelling, and modelled as the code is, without a run:

- `postBounty` checks the requested reveal window and drops it (`proof-market.ts:237`
  against `:33`, `:144`); a late poll opens a reveal window that is over (`:492`, `:454`);
  a claim becomes VALID without an attestation on it (`:614` against `schema.ts:992`).
- "On REJECT: all claims set to INVALID" (`proof-market.ts:536`): only REVEALED claims are
  (`:622-627`), lapsed ones stay LAPSED, which `ClaimsFollowBounty` and `DecisionsAreFinal`
  say. "Mismatch → INVALID" (`:27`): a mismatch throws and the claim stays COMMITTED
  (`:424-428`).
- "The EARLIEST committed claimant wins" (`proof-market.ts:19-20`, `:532`): no column
  and no statement names a winner; every revealed claim becomes VALID (`:612-616`).
- A commit hash is of `artifact_hash || nonce || claimant_id` without separator or length
  (`proof-market.ts:684-689`, `:417-421`) and `revealClaim` takes nonces of any length:
  a hash copied from `xalice` opens for `alice` once `xalice` has revealed. "A front-runner
  seeing a reveal cannot win" (`:21-22`) holds but for such ids (`NoFrontRunning`).
- "Subsequent retractions on the same claim remain in PENDING and will each resolve …
  independently" (`schema.ts:165-168`): the first that is upheld rejects them at once
  (`retraction.ts:476-484`), which `NoRivalLeftPending` says.
- `checkSybilLimit` is called by nothing in `src/` (`reputation.ts:22-23`).
- The retraction window is dated by the reveal, not the acceptance (`retraction.ts:296`
  against `:29-31`); claimants may retract their own claims (`schema.ts:1119`).
- `isPidAlive` takes a refused signal for death (`lock.ts:61-62`): a lock of another
  user is stolen at once. A creator killed before its write leaves a file that is
  never stale (`lock.ts:73` against `:12-13`). A steal that fails is retried past the
  deadline (`lock.ts:156` against `:119`).
- A rebuild that dies half-way leaves vectors of two models under the new stamp
  (`storage.ts:2438` against `schema.ts:87-88`), and callers that name no provider
  store with the default model whatever is stamped (`storage.ts:2394-2395`, `:2419`).
- `completedBindings` are "successfully shaved" (`shave-on-miss-state.ts:74-76`), but
  failed attempts are recorded too, on purpose (`shave-on-miss.ts:385-393`).
- A crash after the migrations and before the backfill is never repaired: migrations 4 to
  14 have bumped the version by then, so that the next opening does not look for
  empty hashes (`storage.ts:2346` against `schema.ts:1216-1220`). A caller of
  `applyMigrations` alone, as `ProofMarket.open` is, leaves the version at 14, not at 2
  (`schema.ts:1210-1213`), with the same effect; blocks without hash are never mirrored.
- `INSERT OR IGNORE INTO schema_version` ignores nothing, as the table has no key: each
  opening adds a row 0. Two first openings that overlap can fail on an index of the
  other's table, or drop vectors the other has stored (history variable `raced`).
- "Wrong bytes (caught by integrity check on receive)" (`FEDERATION_PROTOCOL.md:587-589`): the
  check is of the message alone (`wire.ts:388-399`). No caller compares the root received
  with the root asked (`pull.ts:116-121`, `mirror.ts:148-152`): another valid block counts as
  inserted, and the one asked for is neither stored nor a failure, although mirror failures are
  "loud" (`FEDERATION_PROTOCOL.md:661-664`). The hash that "implementations SHOULD verify"
  (`:374-375`) is stored as received, and so is a positive `createdAt`, which the
  receiver "does not adopt" (`:369-371` against `wire.ts:395`).
- "The operation is never aborted mid-run except for the schema-version hard abort"
  (`mirror.ts:18-20`): a `listSpecs` or `listBlocks` that throws aborts it (`:128`, `:131`).
- Mirrored and pulled blocks are never posted, a post that was lost is not repeated
  (nothing reads `listUnsubmittedBlocks`), and `pull` looks at no schema version.
- A claim whose commit command is cut short before its stash is written can never be
  revealed, by design of the stash (`proof.ts:384-401`).
- While others store blocks, or when an entry is given by root, two implementations of
  one spec may get into one module; `assemble.ts:181-184` promises the same module for
  an unchanged registry only.

## 7. What is left out

- PID reuse in the write lock (a dead holder's PID taken by another process).
- Collisions of hashes: a commit hash and a root stand for the bytes they are computed from.
- Telemetry, logging, output, the wording of errors; read-only helpers.
- SQLite itself: a transaction is atomic, waits for others, or rolls back; a busy
  timeout that expires is an operation that does not happen.
- In EmbeddingIndex, several blocks of one spec (they share one vector row), and
  storage.ts beyond what touches the index.
- In shave-on-miss, a save whose text the system writes in several pieces, and what
  `shave` itself stores in the registry; a worker ends, well or not.
- In Migrations, indexes that cannot fail, and versions between 3 and 10 or above 11 to
  begin with; the theorems hold for every version.
- In Federation, the format of messages (each names a block and is whole, altered or spoilt),
  and a peer that sends blocks it does not have. The run has one capturing host; the
  theorems hold for any hosts.
- In Assembly, backends other than by the order of blocks, and a command that is killed:
  an assembly keeps its state in memory and writes nothing before its end.

Not modelled at all, with the reasons in `PROJECT.json`: reputation (nothing in `src/`
calls what changes a score, so no calls race) and the telemetry sink (its losses change
nothing in the program), both with their hazards listed; search, selection by score,
shaving, the subset checker, compilers and raisers, adapters, variance: functions of
documents or floating-point vectors without state, whose inputs TLC cannot enumerate
to any use. They are most of the repository's lines, which is why the modules cover a
small share of it.

## 8. Plan

Done, in this order: ProofMarket, ProofRetraction, WriteLock,
EmbeddingIndex, ShaveOnMiss, Migrations, Replicas and Federation, ProofCli, Assembly; each
with a run and its proofs. What is left:

| Subject | Question | Form |
| --- | --- | --- |
| ProofMarket | why polls decide every bounty, as an order in which they advance | a theorem: deadlines passed, then statuses |
| Reputation | lost updates between read and write | when a command calls it |
| Telemetry sink | events buffered during the last flush | when something depends on their delivery |

A new property starts on two processes or two rows, and a theorem is attempted when
TLC has checked its invariant.
