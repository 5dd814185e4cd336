---------------------------- MODULE ShaveOnMiss ----------------------------
(***************************************************************************)
(* Shaving in the background what an import missed                         *)
(* (packages/hooks-base/src/shave-on-miss.ts, shave-on-miss-state.ts).     *)
(*                                                                         *)
(* Every hook process keeps a queue of its own, a copy of the state file   *)
(* that it reads once, and overwrites the file with its copy whenever the  *)
(* copy changes.  A handler runs to its end without an await, but its save *)
(* is two system calls (truncate, write) between which other processes run *)
(* and the process may be killed.                                          *)
(***************************************************************************)
EXTENDS Naturals, FiniteSets

CONSTANTS
    Process, Package,
    Binding,          \* bindings whose entry file is in the corpus
    PackageOf,        \* PackageOf[b]: the package of binding b
    Matched,          \* bindings an import may hit: the registry matches them
    HitThreshold,     \* resolveSkipShaveHitThreshold
    MissThreshold,    \* resolvePreemptiveMissThreshold
    MaxHits,          \* bounds: counts are told apart up to here
    MaxMisses,
    NoState,          \* the file is missing or does not parse
    Unread,           \* a process that has not read the file yet
    Faults            \* subset of {"kill", "write"}

ASSUME ShaveAssumption ==
    /\ PackageOf \in [Binding -> Package] /\ Matched \subseteq Binding
    /\ MaxHits \in Nat /\ MaxMisses \in Nat
    /\ HitThreshold \in 1..MaxHits /\ MissThreshold \in 1..MaxMisses
    /\ Faults \subseteq {"kill", "write"}

State == [completed : SUBSET Binding, hits : [Binding -> 0..MaxHits],
          misses : [Package -> 0..MaxMisses]]

ASSUME TokenAssumption == NoState \notin State /\ Unread \notin State

EmptyState == [completed |-> {}, hits |-> [b \in Binding |-> 0],
               misses |-> [k \in Package |-> 0]]

VARIABLES
    file,        \* the state file
    run,         \* run[p]: "off", "idle", or "saving" (between truncate and write)
    cache,       \* cache[p]: _cachedState
    queue,       \* queue[p]: _queue; "ended" is completed or error
    sweep,       \* sweep[p]: bindings that preemptive microtasks have yet to visit
    tried,       \* history: bindings whose worker has ended in some process
    disturbed    \* history: processes overlapped, or a save was lost

vars == <<file, run, cache, queue, sweep, tried, disturbed>>

TypeOK ==
    /\ file \in State \cup {NoState}
    /\ run \in [Process -> {"off", "idle", "saving"}]
    /\ cache \in [Process -> State \cup {Unread}]
    /\ DOMAIN queue = Process /\ sweep \in [Process -> SUBSET Binding]
    /\ \A p \in Process :
        /\ queue[p] \in [DOMAIN queue[p] -> {"pending", "ended"}]
        /\ DOMAIN queue[p] \subseteq Binding
        /\ run[p] = "saving" => cache[p] # Unread
    /\ tried \subseteq Binding /\ disturbed \in BOOLEAN

NoQueue == [b \in {} |-> "pending"]

Init ==
    /\ file = NoState
    /\ run = [p \in Process |-> "off"] /\ cache = [p \in Process |-> Unread]
    /\ queue = [p \in Process |-> NoQueue] /\ sweep = [p \in Process |-> {}]
    /\ tried = {} /\ disturbed = FALSE

-----------------------------------------------------------------------------
(* loadShaveOnMissState, getState and the helpers that change a copy.      *)
Loaded == IF file = NoState THEN EmptyState ELSE file

GetState(p) == IF cache[p] = Unread THEN Loaded ELSE cache[p]

Bump(n, max) == IF n < max THEN n + 1 ELSE n

WithCompletion(s, b) == [s EXCEPT !.completed = @ \cup {b}]
WithHit(s, b) == [s EXCEPT !.hits[b] = Bump(@, MaxHits)]
WithMiss(s, b) == [s EXCEPT !.misses[PackageOf[b]] = Bump(@, MaxMisses)]

(* updateState: the copy changes and its save begins, or fails silently.   *)
UpdateState(p, s) ==
    /\ cache' = [cache EXCEPT ![p] = s]
    /\ \/ file' = NoState /\ run' = [run EXCEPT ![p] = "saving"] /\ disturbed' = disturbed
       \/ "write" \in Faults /\ file' = file /\ run' = run /\ disturbed' = TRUE

(* The text is written at the start of the file; over the longer text of   *)
(* another process it leaves a file that does not parse.                   *)
Write(p) ==
    /\ run[p] = "saving"
    /\ run' = [run EXCEPT ![p] = "idle"]
    /\ \/ file' = cache[p] /\ disturbed' = disturbed
       \/ file # NoState /\ file' = NoState /\ disturbed' = disturbed
       \/ "write" \in Faults /\ file' = file /\ disturbed' = TRUE
    /\ UNCHANGED <<cache, queue, sweep, tried>>

(* A hook process starts with an empty queue and no copy.                  *)
Start(p) ==
    /\ run[p] = "off"
    /\ run' = [run EXCEPT ![p] = "idle"]
    /\ disturbed' = (disturbed \/ \E q \in Process : run[q] # "off")
    /\ UNCHANGED <<file, cache, queue, sweep, tried>>

(* It exits when its hook is done, whatever its workers do; it may be      *)
(* killed anywhere.                                                        *)
End(p) ==
    /\ run[p] = "idle" \/ (run[p] = "saving" /\ "kill" \in Faults)
    /\ run' = [run EXCEPT ![p] = "off"]
    /\ cache' = [cache EXCEPT ![p] = Unread]
    /\ queue' = [queue EXCEPT ![p] = NoQueue] /\ sweep' = [sweep EXCEPT ![p] = {}]
    /\ disturbed' = (disturbed \/ run[p] = "saving")
    /\ UNCHANGED <<file, tried>>

RecordImportHit(p, b) ==
    /\ run[p] = "idle" /\ b \in Matched
    /\ UpdateState(p, WithHit(GetState(p), b))
    /\ UNCHANGED <<queue, sweep, tried>>

-----------------------------------------------------------------------------
(* applyShaveOnMiss skips what was completed, is often hit, or is queued.  *)
Skips(p, b) ==
    \/ b \in GetState(p).completed
    \/ GetState(p).hits[b] >= HitThreshold
    \/ b \in DOMAIN queue[p]

Skip(p) ==
    /\ cache' = [cache EXCEPT ![p] = GetState(p)]
    /\ UNCHANGED <<file, run, disturbed, queue>>

WithPending(entries, b) ==
    [c \in DOMAIN entries \cup {b} |-> IF c = b THEN "pending" ELSE entries[c]]

Enqueue_Done(p, b) ==
    /\ UpdateState(p, WithCompletion(WithMiss(GetState(p), b), b))
    /\ queue' = [queue EXCEPT ![p] = WithPending(@, b)]

Enqueue(p, b) ==
    /\ UpdateState(p, WithMiss(GetState(p), b))
    /\ queue' = [queue EXCEPT ![p] = WithPending(@, b)]

ApplyShaveOnMiss(p, b) ==
    /\ run[p] = "idle"
    /\ IF Skips(p, b) THEN Skip(p) ELSE Enqueue(p, b)
    /\ UNCHANGED tried

(* What the miss leaves to a preemptive sweep of the whole package.        *)
Triggered_Exactly(p, b) ==
    IF ~Skips(p, b) /\ GetState(p).misses[PackageOf[b]] = MissThreshold
    THEN {c \in Binding : PackageOf[c] = PackageOf[b]} ELSE {}

Triggered(p, b) ==
    IF ~Skips(p, b) /\ WithMiss(GetState(p), b).misses[PackageOf[b]] >= MissThreshold
    THEN {c \in Binding : PackageOf[c] = PackageOf[b]} ELSE {}

Miss(p, b) ==
    /\ ApplyShaveOnMiss(p, b)
    /\ sweep' = [sweep EXCEPT ![p] = @ \cup Triggered(p, b)]

(* applyPreemptivePackageShave visits one more binding.                    *)
Sweep(p, b) ==
    /\ b \in sweep[p]
    /\ ApplyShaveOnMiss(p, b)
    /\ sweep' = [sweep EXCEPT ![p] = (@ \ {b}) \cup Triggered(p, b)]

(* The worker ends, well or not; finally records the attempt in the copy   *)
(* the process has by now.                                                 *)
Finish_FromFile(p, b) ==
    /\ run[p] = "idle" /\ b \in DOMAIN queue[p] /\ queue[p][b] = "pending"
    /\ queue' = [queue EXCEPT ![p][b] = "ended"]
    /\ UpdateState(p, WithCompletion(Loaded, b))
    /\ tried' = tried \cup {b}
    /\ UNCHANGED sweep

Finish_IfCompleted(p, b) ==
    /\ run[p] = "idle" /\ b \in DOMAIN queue[p] /\ queue[p][b] = "pending"
    /\ queue' = [queue EXCEPT ![p][b] = "ended"]
    /\ \/ UpdateState(p, WithCompletion(GetState(p), b))
       \/ UNCHANGED <<file, run, cache, disturbed>>
    /\ tried' = tried \cup {b}
    /\ UNCHANGED sweep

Finish(p, b) ==
    /\ run[p] = "idle" /\ b \in DOMAIN queue[p] /\ queue[p][b] = "pending"
    /\ queue' = [queue EXCEPT ![p][b] = "ended"]
    /\ UpdateState(p, WithCompletion(GetState(p), b))
    /\ tried' = tried \cup {b}
    /\ UNCHANGED sweep

Next == \E p \in Process :
    \/ Start(p) \/ End(p) \/ Write(p)
    \/ \E b \in Binding : RecordImportHit(p, b) \/ Miss(p, b) \/ Sweep(p, b) \/ Finish(p, b)

Spec == Init /\ [][Next]_vars

-----------------------------------------------------------------------------
(* Nothing looks done that nobody tried: whatever processes overwrite each *)
(* other's files or die in the middle of a shave or a save, a binding is   *)
(* recorded as completed only after a worker for it has ended somewhere.   *)
OnlyTriedIsCompleted ==
    /\ file # NoState => file.completed \subseteq tried
    /\ \A p \in Process : cache[p] # Unread => cache[p].completed \subseteq tried

(* A process never forgets its own work, however its handlers, sweeps and  *)
(* workers interleave and whatever others do to the file.                  *)
OwnWorkRemembered ==
    \A p \in Process : \A b \in DOMAIN queue[p] :
        queue[p][b] # "pending" => b \in cache[p].completed

(* Processes that follow one another, and whose saves succeed, never try a *)
(* binding twice: the file, or the copy that is being saved, knows every   *)
(* attempt ("future processes skip re-shaving").                           *)
AttemptsPersist ==
    ~disturbed =>
        \/ tried \subseteq Loaded.completed
        \/ \E p \in Process : run[p] = "saving" /\ tried \subseteq cache[p].completed

(* Once a process that shaves a package has seen MissThreshold misses of   *)
(* it, no binding of the package is left out: each is skipped for a reason *)
(* or a sweep has yet to visit it.                                         *)
WholePackageSwept ==
    \A p \in Process, c \in Binding :
        (\E b \in DOMAIN queue[p] :
            /\ PackageOf[b] = PackageOf[c]
            /\ cache[p].misses[PackageOf[b]] >= MissThreshold)
        => Skips(p, c) \/ c \in sweep[p]
=============================================================================
