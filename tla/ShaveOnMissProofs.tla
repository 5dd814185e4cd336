------------------------- MODULE ShaveOnMissProofs -------------------------
(* Theorems about the shave-on-miss workers, for any processes, packages,  *)
(* bindings, thresholds and faults.                                        *)
EXTENDS ShaveOnMiss, TLAPS

(* A process that has queued anything has read the file.                   *)
QueueRead == \A p \in Process : DOMAIN queue[p] # {} => cache[p] # Unread

(* Undisturbed processes run one at a time, a process that is not running  *)
(* has no copy, ...                                                        *)
OneAtATime ==
    ~disturbed => \A p, q \in Process : run[p] # "off" /\ run[q] # "off" => p = q

Forgotten == \A p \in Process : run[p] = "off" => cache[p] = Unread

(* ... and every copy that was read, and the file unless it is being       *)
(* saved, knows every attempt there ever was.                              *)
CopiesKnow == \A p \in Process : cache[p] # Unread => tried \subseteq cache[p].completed

Persisted ==
    ~disturbed =>
        /\ CopiesKnow
        /\ \A p \in Process : run[p] = "saving" => file = NoState
        /\ (\A p \in Process : run[p] # "saving") => tried \subseteq Loaded.completed

IInv ==
    /\ TypeOK /\ QueueRead
    /\ OneAtATime /\ Forgotten /\ Persisted
    /\ OnlyTriedIsCompleted /\ OwnWorkRemembered /\ WholePackageSwept

-----------------------------------------------------------------------------
(* The copies that the helpers make are states, and what they keep.        *)
LEMMA EmptyTyped == EmptyState \in State
BY ShaveAssumption DEF EmptyState, State

(* A count that is bumped stays in range and does not shrink.              *)
LEMMA BumpTyped ==
    ASSUME NEW max \in Nat, NEW n \in 0..max
    PROVE  Bump(n, max) \in 0..max /\ Bump(n, max) >= n
BY DEF Bump

(* Recording a completion adds it and changes no count.                    *)
LEMMA CompletionTyped ==
    ASSUME NEW s \in State, NEW b \in Binding
    PROVE  /\ WithCompletion(s, b) \in State
           /\ WithCompletion(s, b).completed = s.completed \cup {b}
           /\ WithCompletion(s, b).hits = s.hits /\ WithCompletion(s, b).misses = s.misses
BY DEF WithCompletion, State

(* Recording a hit completes nothing and lowers no hit count.              *)
LEMMA HitTyped ==
    ASSUME NEW s \in State, NEW b \in Binding
    PROVE  /\ WithHit(s, b) \in State
           /\ WithHit(s, b).completed = s.completed /\ WithHit(s, b).misses = s.misses
           /\ \A c \in Binding : WithHit(s, b).hits[c] >= s.hits[c]
<1> DEFINE hits == [s.hits EXCEPT ![b] = Bump(@, MaxHits)]
<1>1. s.hits \in [Binding -> 0..MaxHits] /\ MaxHits \in Nat
  BY ShaveAssumption DEF State
<1>2. Bump(s.hits[b], MaxHits) \in 0..MaxHits /\ Bump(s.hits[b], MaxHits) >= s.hits[b]
  BY <1>1, BumpTyped
<1>3. hits \in [Binding -> 0..MaxHits] /\ \A c \in Binding : hits[c] >= s.hits[c]
  BY <1>1, <1>2
<1>4. WithHit(s, b) = [s EXCEPT !.hits = hits]
  BY DEF WithHit, State
<1> HIDE DEF hits
<1>5. QED
  BY <1>3, <1>4 DEF State

(* Recording a miss completes nothing, hits nothing, and counts for one    *)
(* package only.                                                           *)
LEMMA MissTyped ==
    ASSUME NEW s \in State, NEW b \in Binding
    PROVE  /\ WithMiss(s, b) \in State
           /\ WithMiss(s, b).completed = s.completed /\ WithMiss(s, b).hits = s.hits
           /\ \A k \in Package : k # PackageOf[b] => WithMiss(s, b).misses[k] = s.misses[k]
<1> DEFINE misses == [s.misses EXCEPT ![PackageOf[b]] = Bump(@, MaxMisses)]
<1>1. s.misses \in [Package -> 0..MaxMisses] /\ MaxMisses \in Nat /\ PackageOf[b] \in Package
  BY ShaveAssumption DEF State
<1>2. Bump(s.misses[PackageOf[b]], MaxMisses) \in 0..MaxMisses
  BY <1>1, BumpTyped
<1>3. /\ misses \in [Package -> 0..MaxMisses]
      /\ \A k \in Package : k # PackageOf[b] => misses[k] = s.misses[k]
  BY <1>1, <1>2
<1>4. WithMiss(s, b) = [s EXCEPT !.misses = misses]
  BY DEF WithMiss, State
<1> HIDE DEF misses
<1>5. QED
  BY <1>3, <1>4 DEF State

(* What a process works with is a state.                                   *)
LEMMA GetStateTyped ==
    ASSUME TypeOK, NEW p \in Process
    PROVE  Loaded \in State /\ GetState(p) \in State
BY EmptyTyped DEF TypeOK, Loaded, GetState

(* What a process works with knows bindings only that were tried.          *)
LEMMA GetStateTried ==
    ASSUME TypeOK, OnlyTriedIsCompleted, NEW p \in Process
    PROVE  GetState(p).completed \subseteq tried
<1>1. Loaded.completed \subseteq tried
  BY DEF Loaded, EmptyState, OnlyTriedIsCompleted
<1>2. QED
  BY <1>1 DEF GetState, OnlyTriedIsCompleted

(* An entry that becomes pending joins the queue and changes no other.     *)
LEMMA PendingTyped ==
    ASSUME NEW entries, NEW b \in Binding, DOMAIN entries \subseteq Binding,
           entries \in [DOMAIN entries -> {"pending", "ended"}]
    PROVE  /\ DOMAIN WithPending(entries, b) = DOMAIN entries \cup {b}
           /\ WithPending(entries, b) \in [DOMAIN entries \cup {b} -> {"pending", "ended"}]
           /\ \A c \in DOMAIN entries : c # b => WithPending(entries, b)[c] = entries[c]
           /\ WithPending(entries, b)[b] = "pending"
BY DEF WithPending

-----------------------------------------------------------------------------
(* What the handlers of a process have in common: the copy becomes s and   *)
(* is saved, or stays what it is.                                          *)
Copied(p, s) ==
    /\ cache' = [cache EXCEPT ![p] = s]
    /\ file' \in {file, NoState}
    /\ run' = run \/ run' = [run EXCEPT ![p] = "saving"]
    /\ disturbed' \in BOOLEAN

(* A handler or a worker's end leaves the copy of its process a state.     *)
LEMMA CopyStep ==
    ASSUME TypeOK, NEW p \in Process, NEW b \in Binding,
           RecordImportHit(p, b) \/ Miss(p, b) \/ Sweep(p, b) \/ Finish(p, b)
    PROVE  /\ run[p] = "idle"
           /\ \E s \in State :
                /\ Copied(p, s)
                /\ GetState(p).completed \subseteq s.completed
                /\ s.completed \subseteq GetState(p).completed \cup (tried' \cap {b})
                /\ \A c \in Binding : s.hits[c] >= GetState(p).hits[c]
           /\ tried \subseteq tried' /\ tried' \subseteq tried \cup {b}
<1> DEFINE g == GetState(p)
<1>0. g \in State /\ disturbed \in BOOLEAN /\ \A c \in Binding : g.hits[c] >= g.hits[c]
  <2>1. g \in State /\ disturbed \in BOOLEAN
    BY GetStateTyped DEF TypeOK
  <2>2. \A c \in Binding : g.hits[c] \in Nat
    BY <2>1, ShaveAssumption DEF State
  <2>3. QED
    BY <2>1, <2>2
<1> HIDE DEF g
<1>1. ASSUME NEW s \in State, UpdateState(p, s) PROVE Copied(p, s)
  BY <1>0, <1>1 DEF UpdateState, Copied
<1>2. CASE RecordImportHit(p, b)
  BY <1>0, <1>1, <1>2, HitTyped DEF RecordImportHit, g
<1>3. CASE Finish(p, b)
  <2>1. UpdateState(p, WithCompletion(g, b)) /\ run[p] = "idle" /\ tried' = tried \cup {b}
    BY <1>3 DEF Finish, g
  <2>2. QED
    BY <1>0, <1>1, <2>1, CompletionTyped DEF g
<1>4. CASE Miss(p, b) \/ Sweep(p, b)
  <2>1. run[p] = "idle" /\ tried' = tried /\ IF Skips(p, b) THEN Skip(p) ELSE Enqueue(p, b)
    BY <1>4 DEF Miss, Sweep, ApplyShaveOnMiss
  <2>2. CASE Skips(p, b)
    <3>1. Copied(p, g)
      BY <1>0, <2>1, <2>2 DEF Skip, Copied, g
    <3>2. QED
      BY <1>0, <2>1, <3>1 DEF g
  <2>3. CASE ~Skips(p, b)
    <3>1. UpdateState(p, WithMiss(g, b))
      BY <2>1, <2>3 DEF Enqueue, g
    <3>2. QED
      BY <1>0, <1>1, <2>1, <3>1, MissTyped DEF g
  <2>4. QED
    BY <2>2, <2>3
<1>5. QED
  BY <1>2, <1>3, <1>4

(* What the same steps do to the queue: entries are added or end, and no   *)
(* other process is touched.                                               *)
LEMMA QueueStep ==
    ASSUME TypeOK, NEW p \in Process, NEW b \in Binding,
           RecordImportHit(p, b) \/ Miss(p, b) \/ Sweep(p, b) \/ Finish(p, b)
    PROVE  /\ DOMAIN queue' = Process
           /\ \A r \in Process : r # p => queue'[r] = queue[r]
           /\ DOMAIN queue[p] \subseteq DOMAIN queue'[p] /\ DOMAIN queue'[p] \subseteq Binding
           /\ queue'[p] \in [DOMAIN queue'[p] -> {"pending", "ended"}]
           /\ \A c \in DOMAIN queue'[p] : queue'[p][c] # "pending" =>
                \/ c \in DOMAIN queue[p] /\ queue[p][c] # "pending"
                \/ c = b /\ Finish(p, b)
<1> DEFINE q == queue[p]
<1>0. /\ q \in [DOMAIN q -> {"pending", "ended"}] /\ DOMAIN q \subseteq Binding
      /\ DOMAIN queue = Process
  BY DEF TypeOK
<1>1. CASE RecordImportHit(p, b)
  BY <1>0, <1>1 DEF RecordImportHit
<1>2. CASE Finish(p, b)
  <2> DEFINE entries == [q EXCEPT ![b] = "ended"]
  <2>1. queue' = [queue EXCEPT ![p] = entries] /\ b \in DOMAIN q
    BY <1>2 DEF Finish
  <2>2. /\ DOMAIN entries = DOMAIN q /\ entries \in [DOMAIN q -> {"pending", "ended"}]
        /\ \A c \in DOMAIN q : c # b => entries[c] = q[c]
    BY <1>0
  <2> HIDE DEF entries
  <2>3. QED
    BY <1>0, <1>2, <2>1, <2>2
<1>3. CASE Miss(p, b) \/ Sweep(p, b)
  <2>1. CASE Skips(p, b)
    BY <1>0, <1>3, <2>1 DEF Miss, Sweep, ApplyShaveOnMiss, Skip
  <2>2. CASE ~Skips(p, b)
    <3> DEFINE entries == WithPending(q, b)
    <3>1. queue' = [queue EXCEPT ![p] = entries]
      BY <1>3, <2>2 DEF Miss, Sweep, ApplyShaveOnMiss, Enqueue
    <3>2. /\ DOMAIN entries = DOMAIN q \cup {b}
          /\ entries \in [DOMAIN q \cup {b} -> {"pending", "ended"}]
          /\ \A c \in DOMAIN q : c # b => entries[c] = q[c]
          /\ entries[b] = "pending"
      BY <1>0, PendingTyped
    <3> HIDE DEF entries
    <3>3. QED
      BY <1>0, <3>1, <3>2
  <2>3. QED
    BY <2>1, <2>2
<1>4. QED
  BY <1>1, <1>2, <1>3

-----------------------------------------------------------------------------
Handled(p, b) == RecordImportHit(p, b) \/ Miss(p, b) \/ Sweep(p, b) \/ Finish(p, b)

(* Every step keeps the types.                                             *)
LEMMA TypeStep == TypeOK /\ [Next]_vars => TypeOK'
<1> SUFFICES ASSUME TypeOK, [Next]_vars PROVE TypeOK'
  OBVIOUS
<1>1. ASSUME NEW p \in Process, NEW b \in Binding, Handled(p, b) PROVE TypeOK'
  <2>1. PICK s \in State : Copied(p, s)
    BY <1>1, CopyStep DEF Handled
  <2>2. run[p] = "idle" /\ tried' \subseteq Binding
    BY <1>1, CopyStep DEF Handled, TypeOK
  <2>3. /\ file' \in State \cup {NoState} /\ disturbed' \in BOOLEAN
        /\ cache' \in [Process -> State \cup {Unread}]
        /\ run' \in [Process -> {"off", "idle", "saving"}]
    BY <2>1 DEF Copied, TypeOK
  <2>4. \A r \in Process : run'[r] = "saving" => cache'[r] # Unread
    BY <2>1, <2>2, TokenAssumption DEF Copied, TypeOK
  <2>5. sweep' \in [Process -> SUBSET Binding]
    <3>1. Triggered(p, b) \subseteq Binding
      BY DEF Triggered
    <3>2. QED
      BY <1>1, <3>1 DEF Handled, RecordImportHit, Miss, Sweep, Finish, TypeOK
  <2>6. /\ DOMAIN queue' = Process
        /\ \A r \in Process : /\ queue'[r] \in [DOMAIN queue'[r] -> {"pending", "ended"}]
                               /\ DOMAIN queue'[r] \subseteq Binding
    BY <1>1, QueueStep DEF Handled, TypeOK
  <2>7. QED
    BY <2>2, <2>3, <2>4, <2>5, <2>6 DEF TypeOK
<1>2. ASSUME NEW p \in Process, Write(p) PROVE TypeOK'
  BY <1>2 DEF Write, TypeOK
<1>3. ASSUME NEW p \in Process, Start(p) PROVE TypeOK'
  BY <1>3 DEF Start, TypeOK
<1>4. ASSUME NEW p \in Process, End(p) PROVE TypeOK'
  <2>1. /\ DOMAIN queue' = Process
        /\ \A r \in Process : /\ queue'[r] \in [DOMAIN queue'[r] -> {"pending", "ended"}]
                               /\ DOMAIN queue'[r] \subseteq Binding
    BY <1>4 DEF End, TypeOK, NoQueue
  <2>2. QED
    BY <1>4, <2>1 DEF End, TypeOK
<1>5. CASE UNCHANGED vars
  BY <1>5 DEF vars, TypeOK
<1>6. QED
  BY <1>1, <1>2, <1>3, <1>4, <1>5 DEF Next, Handled

(* The state of the workers keeps its shape.                               *)
THEOREM TypeCorrect == Spec => []TypeOK
<1>1. Init => TypeOK
  BY DEF Init, TypeOK, NoQueue
<1>2. QED
  BY <1>1, TypeStep, PTL DEF Spec

-----------------------------------------------------------------------------
(* No step records as completed what nobody tried.                         *)
LEMMA TriedStep ==
    ASSUME TypeOK, OnlyTriedIsCompleted, [Next]_vars
    PROVE  OnlyTriedIsCompleted'
<1>1. ASSUME NEW p \in Process, NEW b \in Binding, Handled(p, b) PROVE OnlyTriedIsCompleted'
  <2>1. PICK s \in State :
            /\ Copied(p, s) /\ s.completed \subseteq GetState(p).completed \cup (tried' \cap {b})
    BY <1>1, CopyStep DEF Handled
  <2>2. tried \subseteq tried' /\ GetState(p).completed \subseteq tried
    BY <1>1, CopyStep, GetStateTried DEF Handled
  <2>3. s.completed \subseteq tried'
    BY <2>1, <2>2
  <2>4. QED
    BY <2>1, <2>2, <2>3 DEF Copied, OnlyTriedIsCompleted, TypeOK
<1>2. ASSUME NEW p \in Process, Write(p) PROVE OnlyTriedIsCompleted'
  <2>1. cache[p] # Unread
    BY <1>2 DEF Write, TypeOK
  <2>2. QED
    BY <1>2, <2>1 DEF Write, OnlyTriedIsCompleted
<1>3. ASSUME NEW p \in Process, Start(p) \/ End(p) PROVE OnlyTriedIsCompleted'
  BY <1>3 DEF Start, End, OnlyTriedIsCompleted, TypeOK
<1>4. CASE UNCHANGED vars
  BY <1>4 DEF vars, OnlyTriedIsCompleted
<1>5. QED
  BY <1>1, <1>2, <1>3, <1>4 DEF Next, Handled

(* A process that queues something has a copy from then on.                *)
LEMMA ReadStep ==
    ASSUME TypeOK, QueueRead, [Next]_vars
    PROVE  QueueRead'
<1>1. ASSUME NEW p \in Process, NEW b \in Binding, Handled(p, b) PROVE QueueRead'
  <2>1. PICK s \in State : Copied(p, s)
    BY <1>1, CopyStep DEF Handled
  <2>2. \A r \in Process : r # p => queue'[r] = queue[r] /\ cache'[r] = cache[r]
    BY <1>1, <2>1, QueueStep DEF Handled, Copied, TypeOK
  <2>3. cache'[p] # Unread
    BY <2>1, TokenAssumption DEF Copied, TypeOK
  <2>4. QED
    BY <2>2, <2>3 DEF QueueRead
<1>2. ASSUME NEW p \in Process, Write(p) \/ Start(p) PROVE QueueRead'
  BY <1>2 DEF Write, Start, QueueRead
<1>3. ASSUME NEW p \in Process, End(p) PROVE QueueRead'
  BY <1>3 DEF End, NoQueue, QueueRead, TypeOK
<1>4. CASE UNCHANGED vars
  BY <1>4 DEF vars, QueueRead
<1>5. QED
  BY <1>1, <1>2, <1>3, <1>4 DEF Next, Handled

(* No step makes a process forget what its workers ended.                  *)
LEMMA OwnStep ==
    ASSUME TypeOK, QueueRead, OwnWorkRemembered, [Next]_vars
    PROVE  OwnWorkRemembered'
<1>1. ASSUME NEW p \in Process, NEW b \in Binding, Handled(p, b) PROVE OwnWorkRemembered'
  <2>1. PICK s \in State : Copied(p, s) /\ GetState(p).completed \subseteq s.completed
    BY <1>1, CopyStep DEF Handled
  <2>2. \A r \in Process : r # p => queue'[r] = queue[r] /\ cache'[r] = cache[r]
    BY <1>1, <2>1, QueueStep DEF Handled, Copied, TypeOK
  <2>3. cache'[p] = s
    BY <2>1 DEF Copied, TypeOK
  <2>4. ASSUME NEW c \in DOMAIN queue'[p], queue'[p][c] # "pending"
        PROVE  c \in cache'[p].completed
    <3>1. CASE c \in DOMAIN queue[p] /\ queue[p][c] # "pending"
      <4>1. c \in cache[p].completed /\ cache[p] # Unread
        BY <3>1 DEF OwnWorkRemembered, QueueRead
      <4>2. QED
        BY <2>1, <2>3, <4>1 DEF GetState
    <3>2. CASE c = b /\ Finish(p, b)
      <4>1. cache'[p] = WithCompletion(GetState(p), b)
        BY <3>2 DEF Finish, UpdateState, TypeOK
      <4>2. b \in WithCompletion(GetState(p), b).completed
        BY GetStateTyped, CompletionTyped
      <4>3. QED
        BY <3>2, <4>1, <4>2
    <3>3. QED
      BY <1>1, <2>4, <3>1, <3>2, QueueStep DEF Handled
  <2>5. QED
    BY <2>2, <2>4 DEF OwnWorkRemembered
<1>2. ASSUME NEW p \in Process, Write(p) \/ Start(p) PROVE OwnWorkRemembered'
  BY <1>2 DEF Write, Start, OwnWorkRemembered
<1>3. ASSUME NEW p \in Process, End(p) PROVE OwnWorkRemembered'
  BY <1>3 DEF End, NoQueue, OwnWorkRemembered, TypeOK
<1>4. CASE UNCHANGED vars
  BY <1>4 DEF vars, OwnWorkRemembered
<1>5. QED
  BY <1>1, <1>2, <1>3, <1>4 DEF Next, Handled

-----------------------------------------------------------------------------
(* Binding c of a swept package is not left out by process p.              *)
Reached(p, c) ==
    \A b \in DOMAIN queue[p] :
        PackageOf[b] = PackageOf[c] /\ cache[p].misses[PackageOf[b]] >= MissThreshold
            => Skips(p, c) \/ c \in sweep[p]

(* A step that leaves what a process keeps alone leaves nothing out there: *)
(* whoever queued something no longer looks at the file.                   *)
LEMMA ReachedStays ==
    ASSUME QueueRead, NEW p \in Process, NEW c \in Binding, Reached(p, c),
           cache'[p] = cache[p], queue'[p] = queue[p], sweep'[p] = sweep[p]
    PROVE  Reached(p, c)'
<1>1. CASE DOMAIN queue[p] = {}
  BY <1>1 DEF Reached
<1>2. CASE DOMAIN queue[p] # {}
  <2>1. cache[p] # Unread
    BY <1>2 DEF QueueRead
  <2>2. Skips(p, c)' <=> Skips(p, c)
    BY <2>1 DEF Skips, GetState
  <2>3. QED
    BY <2>2 DEF Reached
<1>3. QED
  BY <1>1, <1>2

(* A reason to skip a binding lasts as long as the process.                *)
LEMMA SkipsLast ==
    ASSUME TypeOK, NEW p \in Process, NEW b \in Binding, Handled(p, b),
           NEW c \in Binding, Skips(p, c)
    PROVE  Skips(p, c)'
<1>1. PICK s \in State :
        /\ Copied(p, s) /\ GetState(p).completed \subseteq s.completed
        /\ s.hits[c] >= GetState(p).hits[c]
  BY CopyStep DEF Handled
<1>2. cache'[p] = s /\ s # Unread
  BY <1>1, TokenAssumption DEF Copied, TypeOK
<1>3. GetState(p)' = s
  BY <1>2 DEF GetState
<1>4. DOMAIN queue[p] \subseteq DOMAIN queue'[p]
  BY QueueStep DEF Handled
<1>5. GetState(p).hits[c] >= HitThreshold => s.hits[c] >= HitThreshold
  <2>1. GetState(p).hits[c] \in Nat /\ s.hits[c] \in Nat /\ HitThreshold \in Nat
    BY GetStateTyped, ShaveAssumption DEF State
  <2>2. QED
    BY <1>1, <2>1
<1>6. QED
  BY <1>1, <1>3, <1>4, <1>5 DEF Skips

(* A handler leaves out no binding of its process: a miss that reaches the *)
(* threshold sweeps the package, and a visit leaves a reason to skip.      *)
LEMMA HandlerReaches ==
    ASSUME TypeOK, QueueRead, NEW p \in Process, NEW b \in Binding, Handled(p, b),
           NEW c \in Binding, Reached(p, c)
    PROVE  Reached(p, c)'
<1> DEFINE g == GetState(p)
<1>0. g \in State /\ MissThreshold \in Nat
  BY GetStateTyped, ShaveAssumption
<1>1. ASSUME cache'[p].misses = g.misses, DOMAIN queue'[p] = DOMAIN queue[p],
             sweep[p] \subseteq sweep'[p]
      PROVE  Reached(p, c)'
  <2> SUFFICES ASSUME NEW d \in DOMAIN queue[p], PackageOf[d] = PackageOf[c],
                      g.misses[PackageOf[d]] >= MissThreshold
               PROVE  Skips(p, c)' \/ c \in sweep'[p]
    BY <1>1 DEF Reached
  <2>1. g = cache[p]
    BY DEF QueueRead, GetState
  <2>2. Skips(p, c) \/ c \in sweep[p]
    BY <2>1 DEF Reached
  <2>3. QED
    BY <1>1, <2>2, SkipsLast
<1>2. CASE RecordImportHit(p, b)
  <2>1. cache'[p].misses = g.misses
    BY <1>0, <1>2, HitTyped DEF RecordImportHit, UpdateState, TypeOK
  <2>2. QED
    BY <1>1, <1>2, <2>1 DEF RecordImportHit
<1>3. CASE Finish(p, b)
  <2>1. cache'[p].misses = g.misses
    BY <1>0, <1>3, CompletionTyped DEF Finish, UpdateState, TypeOK
  <2>2. DOMAIN queue'[p] = DOMAIN queue[p]
    BY <1>3 DEF Finish, TypeOK
  <2>3. QED
    BY <1>1, <1>3, <2>1, <2>2 DEF Finish
<1>4. CASE Miss(p, b) \/ Sweep(p, b)
  <2>1. /\ \A e \in sweep[p] : e # b => e \in sweep'[p]
        /\ Triggered(p, b) \subseteq sweep'[p]
        /\ IF Skips(p, b) THEN Skip(p) ELSE Enqueue(p, b)
    BY <1>4 DEF Miss, Sweep, ApplyShaveOnMiss, TypeOK
  <2>2. Skips(p, b)'
    <3>1. CASE Skips(p, b)
      BY <3>1, SkipsLast
    <3>2. CASE ~Skips(p, b)
      <4>1. queue'[p] = WithPending(queue[p], b)
        BY <2>1, <3>2 DEF Enqueue, TypeOK
      <4>2. b \in DOMAIN queue'[p]
        BY <4>1 DEF WithPending
      <4>3. QED
        BY <4>2 DEF Skips
    <3>3. QED
      BY <3>1, <3>2
  <2>3. CASE c = b
    BY <2>2, <2>3 DEF Reached
  <2>4. CASE c # b
    <3>1. CASE Skips(p, b)
      <4>1. cache'[p] = g /\ queue'[p] = queue[p]
        BY <2>1, <3>1 DEF Skip, TypeOK
      <4> SUFFICES ASSUME NEW d \in DOMAIN queue[p], PackageOf[d] = PackageOf[c],
                          g.misses[PackageOf[d]] >= MissThreshold
                   PROVE  Skips(p, c)' \/ c \in sweep'[p]
        BY <4>1 DEF Reached
      <4>2. Skips(p, c) \/ c \in sweep[p]
        BY DEF Reached, QueueRead, GetState
      <4>3. QED
        BY <2>1, <2>4, <4>2, SkipsLast
    <3>2. CASE ~Skips(p, b)
      <4>1. /\ cache'[p] = WithMiss(g, b)
            /\ queue'[p] = WithPending(queue[p], b)
        BY <2>1, <3>2 DEF Enqueue, UpdateState, TypeOK
      <4>2. DOMAIN queue'[p] = DOMAIN queue[p] \cup {b}
        BY <4>1 DEF WithPending
      <4> SUFFICES ASSUME NEW d \in DOMAIN queue[p] \cup {b}, PackageOf[d] = PackageOf[c],
                          WithMiss(g, b).misses[PackageOf[d]] >= MissThreshold
                   PROVE  Skips(p, c)' \/ c \in sweep'[p]
        BY <4>1, <4>2 DEF Reached
      <4>3. CASE PackageOf[c] = PackageOf[b]
        <5>1. c \in Triggered(p, b)
          BY <3>2, <4>3 DEF Triggered
        <5>2. QED
          BY <2>1, <5>1
      <4>4. CASE PackageOf[c] # PackageOf[b]
        <5>1. d \in DOMAIN queue[p] /\ PackageOf[d] \in Package
          BY <4>4, ShaveAssumption
        <5>2. g.misses[PackageOf[d]] >= MissThreshold /\ g = cache[p]
          BY <1>0, <4>4, <5>1, MissTyped DEF QueueRead, GetState
        <5>3. Skips(p, c) \/ c \in sweep[p]
          BY <5>1, <5>2 DEF Reached
        <5>4. QED
          BY <2>1, <2>4, <5>3, SkipsLast
      <4>5. QED
        BY <4>3, <4>4
    <3>3. QED
      BY <3>1, <3>2
  <2>5. QED
    BY <2>3, <2>4
<1>5. QED
  BY <1>2, <1>3, <1>4 DEF Handled

(* No step leaves a binding of a swept package out.                        *)
LEMMA SweptStep ==
    ASSUME TypeOK, QueueRead, WholePackageSwept, [Next]_vars
    PROVE  WholePackageSwept'
<1>1. WholePackageSwept <=> \A r \in Process, c \in Binding : Reached(r, c)
  BY DEF WholePackageSwept, Reached
<1>2. WholePackageSwept' <=> \A r \in Process, c \in Binding : Reached(r, c)'
  BY DEF WholePackageSwept, Reached
<1> SUFFICES ASSUME NEW r \in Process, NEW c \in Binding PROVE Reached(r, c)'
  BY <1>2
<1>3. Reached(r, c)
  BY <1>1
<1>4. ASSUME cache'[r] = cache[r], queue'[r] = queue[r], sweep'[r] = sweep[r]
      PROVE  Reached(r, c)'
  BY <1>3, <1>4, ReachedStays
<1>5. ASSUME NEW p \in Process, NEW b \in Binding, Handled(p, b) PROVE Reached(r, c)'
  <2>1. CASE r = p
    BY <1>3, <1>5, <2>1, HandlerReaches
  <2>2. CASE r # p
    <3>1. cache'[r] = cache[r] /\ queue'[r] = queue[r]
      BY <1>5, <2>2, CopyStep, QueueStep DEF Handled, Copied, TypeOK
    <3>2. sweep'[r] = sweep[r]
      BY <1>5, <2>2 DEF Handled, RecordImportHit, Miss, Sweep, Finish, TypeOK
    <3>3. QED
      BY <1>4, <3>1, <3>2
  <2>3. QED
    BY <2>1, <2>2
<1>6. ASSUME NEW p \in Process, Write(p) \/ Start(p) PROVE Reached(r, c)'
  BY <1>4, <1>6 DEF Write, Start
<1>7. ASSUME NEW p \in Process, End(p) PROVE Reached(r, c)'
  <2>1. CASE r = p
    BY <1>7, <2>1 DEF End, NoQueue, Reached, TypeOK
  <2>2. CASE r # p
    BY <1>4, <1>7, <2>2 DEF End, TypeOK
  <2>3. QED
    BY <2>1, <2>2
<1>8. CASE UNCHANGED vars
  BY <1>4, <1>8 DEF vars
<1>9. QED
  BY <1>5, <1>6, <1>7, <1>8 DEF Next, Handled

-----------------------------------------------------------------------------
(* What an undisturbed handler does to the file: it begins a save of the   *)
(* copy, or has recorded nothing.  The copy gains whatever was tried.      *)
LEMMA SaveBegins ==
    ASSUME TypeOK, NEW p \in Process, NEW b \in Binding, Handled(p, b), ~disturbed'
    PROVE  /\ ~disturbed /\ cache'[p] # Unread
           /\ tried' \subseteq tried \cup cache'[p].completed
           /\ GetState(p).completed \subseteq cache'[p].completed
           /\ \A r \in Process : r # p => cache'[r] = cache[r] /\ run'[r] = run[r]
           /\ \/ file' = NoState /\ run'[p] = "saving"
              \/ UNCHANGED <<file, run, tried>>
<1>1. PICK s \in State :
        /\ Copied(p, s) /\ GetState(p).completed \subseteq s.completed
  BY CopyStep DEF Handled
<1>2. cache'[p] = s /\ s # Unread
  BY <1>1, TokenAssumption DEF Copied, TypeOK
<1>3. \A r \in Process : r # p => cache'[r] = cache[r] /\ run'[r] = run[r]
  BY <1>1 DEF Copied, TypeOK
<1>4. ASSUME NEW u, UpdateState(p, u)
      PROVE  ~disturbed /\ file' = NoState /\ run'[p] = "saving"
  BY <1>4 DEF UpdateState, TypeOK
<1>5. CASE RecordImportHit(p, b)
  BY <1>1, <1>2, <1>3, <1>4, <1>5 DEF RecordImportHit
<1>6. CASE Finish(p, b)
  <2>1. UpdateState(p, WithCompletion(GetState(p), b)) /\ tried' = tried \cup {b}
    BY <1>6 DEF Finish
  <2>2. cache'[p] = WithCompletion(GetState(p), b)
    BY <2>1 DEF UpdateState, TypeOK
  <2>3. b \in cache'[p].completed
    BY <2>2, GetStateTyped, CompletionTyped
  <2>4. QED
    BY <1>1, <1>2, <1>3, <1>4, <2>1, <2>3
<1>7. CASE Miss(p, b) \/ Sweep(p, b)
  <2>1. tried' = tried /\ IF Skips(p, b) THEN Skip(p) ELSE Enqueue(p, b)
    BY <1>7 DEF Miss, Sweep, ApplyShaveOnMiss
  <2>2. CASE Skips(p, b)
    BY <1>1, <1>2, <1>3, <2>1, <2>2 DEF Skip
  <2>3. CASE ~Skips(p, b)
    BY <1>1, <1>2, <1>3, <1>4, <2>1, <2>3 DEF Enqueue
  <2>4. QED
    BY <2>2, <2>3
<1>8. QED
  BY <1>5, <1>6, <1>7 DEF Handled

(* A handler's process was running before, alone if nothing disturbed it.  *)
LEMMA AloneStep ==
    ASSUME TypeOK, OneAtATime, Forgotten, [Next]_vars
    PROVE  OneAtATime' /\ Forgotten'
<1>1. ASSUME NEW p \in Process, NEW b \in Binding, Handled(p, b)
      PROVE  OneAtATime' /\ Forgotten'
  <2>1. PICK s \in State : Copied(p, s)
    BY <1>1, CopyStep DEF Handled
  <2>2. run[p] = "idle" /\ \A r \in Process : (run'[r] = "off" <=> run[r] = "off")
    BY <1>1, <2>1, CopyStep DEF Handled, Copied, TypeOK
  <2>3. Forgotten'
    BY <2>1, <2>2 DEF Copied, Forgotten, TypeOK
  <2>4. OneAtATime'
    BY <1>1, <2>2, SaveBegins DEF OneAtATime
  <2>5. QED
    BY <2>3, <2>4
<1>2. ASSUME NEW p \in Process, Write(p) PROVE OneAtATime' /\ Forgotten'
  <2>1. \A r \in Process : (run'[r] = "off" <=> run[r] = "off")
    BY <1>2 DEF Write, TypeOK
  <2>2. (~disturbed' => ~disturbed) /\ cache' = cache
    BY <1>2 DEF Write
  <2>3. QED
    BY <2>1, <2>2 DEF OneAtATime, Forgotten
<1>3. ASSUME NEW p \in Process, Start(p) PROVE OneAtATime' /\ Forgotten'
  BY <1>3 DEF Start, OneAtATime, Forgotten, TypeOK
<1>4. ASSUME NEW p \in Process, End(p) PROVE OneAtATime' /\ Forgotten'
  BY <1>4 DEF End, OneAtATime, Forgotten, TypeOK
<1>5. CASE UNCHANGED vars
  BY <1>5 DEF vars, OneAtATime, Forgotten
<1>6. QED
  BY <1>1, <1>2, <1>3, <1>4, <1>5 DEF Next, Handled

(* A process that works alone adds to what it loaded, so it never saves    *)
(* less than was there.                                                    *)
LEMMA PersistStep ==
    ASSUME TypeOK, OneAtATime, Forgotten, Persisted, [Next]_vars
    PROVE  Persisted'
<1> SUFFICES ASSUME ~disturbed'
             PROVE  /\ CopiesKnow'
                    /\ \A p \in Process : run'[p] = "saving" => file' = NoState
                    /\ (\A p \in Process : run'[p] # "saving") => tried' \subseteq Loaded'.completed
  BY DEF Persisted
<1>1. ASSUME NEW p \in Process, NEW b \in Binding, Handled(p, b)
      PROVE  Persisted'
  <2>1. /\ ~disturbed /\ cache'[p] # Unread
        /\ tried' \subseteq tried \cup cache'[p].completed
        /\ GetState(p).completed \subseteq cache'[p].completed
        /\ \A r \in Process : r # p => cache'[r] = cache[r] /\ run'[r] = run[r]
        /\ \/ file' = NoState /\ run'[p] = "saving"
           \/ UNCHANGED <<file, run, tried>>
    BY <1>1, SaveBegins
  <2>2. run[p] = "idle" /\ \A r \in Process : r # p => run[r] = "off" /\ cache[r] = Unread
    BY <1>1, <2>1, CopyStep DEF Handled, OneAtATime, Forgotten
  <2>3. tried \subseteq GetState(p).completed
    <3>1. CASE cache[p] = Unread
      BY <2>1, <2>2, <3>1 DEF Persisted, GetState
    <3>2. CASE cache[p] # Unread
      BY <2>1, <3>2 DEF Persisted, CopiesKnow, GetState
    <3>3. QED
      BY <3>1, <3>2
  <2>4. tried' \subseteq cache'[p].completed
    BY <2>1, <2>3
  <2>5. CopiesKnow'
    BY <2>1, <2>2, <2>4 DEF CopiesKnow
  <2>6. \A r \in Process : run'[r] = "saving" => file' = NoState
    BY <2>1, <2>2
  <2>7. (\A r \in Process : run'[r] # "saving") => tried' \subseteq Loaded'.completed
    BY <2>1 DEF Persisted, Loaded
  <2>8. QED
    BY <2>5, <2>6, <2>7 DEF Persisted
<1>2. ASSUME NEW p \in Process, Write(p) PROVE Persisted'
  <2>1. run[p] = "saving" /\ ~disturbed /\ UNCHANGED <<cache, tried>>
    BY <1>2 DEF Write
  <2>2. \A r \in Process : r # p => run[r] = "off"
    BY <2>1 DEF OneAtATime
  <2>3. file' = cache[p] /\ \A r \in Process : run'[r] # "saving"
    BY <1>2, <2>1, <2>2 DEF Write, Persisted, TypeOK
  <2>4. cache[p] \in State /\ tried \subseteq cache[p].completed
    BY <2>1 DEF TypeOK, Persisted, CopiesKnow
  <2>5. tried' \subseteq Loaded'.completed
    BY <2>1, <2>3, <2>4, TokenAssumption DEF Loaded
  <2>6. QED
    BY <2>1, <2>3, <2>5 DEF Persisted, CopiesKnow
<1>3. ASSUME NEW p \in Process, Start(p) \/ End(p) PROVE Persisted'
  <2>1. ~disturbed /\ UNCHANGED <<file, tried>> /\ run[p] # "saving"
    BY <1>3 DEF Start, End
  <2>2. \A r \in Process : run'[r] = "saving" <=> run[r] = "saving"
    BY <1>3, <2>1 DEF Start, End, TypeOK
  <2>3. \A r \in Process : cache'[r] \in {cache[r], Unread}
    BY <1>3 DEF Start, End, TypeOK
  <2>4. CopiesKnow'
    BY <2>1, <2>3 DEF Persisted, CopiesKnow
  <2>5. QED
    BY <2>1, <2>2, <2>4 DEF Persisted, Loaded
<1>4. CASE UNCHANGED vars
  BY <1>4 DEF vars, Persisted, CopiesKnow, Loaded
<1>5. QED
  BY <1>1, <1>2, <1>3, <1>4 DEF Next, Handled, Persisted

-----------------------------------------------------------------------------
(* Everything that the processes keep, inductively.                        *)
THEOREM Invariant == Spec => []IInv
<1>1. Init => IInv
  <2> SUFFICES ASSUME Init PROVE IInv
    OBVIOUS
  <2>1. TypeOK
    BY DEF Init, NoQueue, TypeOK
  <2>2. QueueRead /\ OwnWorkRemembered /\ WholePackageSwept
    BY DEF Init, NoQueue, QueueRead, OwnWorkRemembered, WholePackageSwept
  <2>3. OnlyTriedIsCompleted
    BY DEF Init, OnlyTriedIsCompleted
  <2>4. OneAtATime /\ Forgotten /\ Persisted
    BY DEF Init, OneAtATime, Forgotten, Persisted, CopiesKnow
  <2>5. QED
    BY <2>1, <2>2, <2>3, <2>4 DEF IInv
<1>2. IInv /\ [Next]_vars => IInv'
  BY TypeStep, ReadStep, TriedStep, OwnStep, SweptStep, AloneStep, PersistStep DEF IInv
<1>3. QED
  BY <1>1, <1>2, PTL DEF Spec

(* A binding is recorded as completed, in the file or in a copy of it, only *)
(* after a worker for it has ended, however saves overlap or are cut short. *)
THEOREM NothingLooksDone == Spec => []OnlyTriedIsCompleted
<1>1. IInv => OnlyTriedIsCompleted
  BY DEF IInv
<1>2. QED
  BY <1>1, Invariant, PTL

(* A process remembers every attempt of its own workers while it runs.     *)
THEOREM OwnWorkKept == Spec => []OwnWorkRemembered
<1>1. IInv => OwnWorkRemembered
  BY DEF IInv
<1>2. QED
  BY <1>1, Invariant, PTL

(* Once a process has seen enough misses of a package it leaves none of its *)
(* bindings out.                                                           *)
THEOREM PackagesSwept == Spec => []WholePackageSwept
<1>1. IInv => WholePackageSwept
  BY DEF IInv
<1>2. QED
  BY <1>1, Invariant, PTL

(* Processes that follow one another, whose saves succeed and that are not *)
(* killed while saving, lose no attempt: the file, or the copy on its way  *)
(* into it, has them all.                                                  *)
THEOREM NoAttemptLost == Spec => []AttemptsPersist
<1>1. IInv => AttemptsPersist
  <2> SUFFICES ASSUME IInv, ~disturbed, ~(tried \subseteq Loaded.completed)
               PROVE  \E p \in Process : run[p] = "saving" /\ tried \subseteq cache[p].completed
    BY DEF AttemptsPersist
  <2>1. PICK p \in Process : run[p] = "saving"
    BY DEF IInv, Persisted
  <2>2. tried \subseteq cache[p].completed
    BY <2>1 DEF IInv, TypeOK, Persisted, CopiesKnow
  <2>3. QED
    BY <2>1, <2>2
<1>2. QED
  BY <1>1, Invariant, PTL
=============================================================================
