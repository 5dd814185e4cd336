-------------------------- MODULE WriteLockProofs --------------------------
(* Theorems about the write lock, for every set of processes, every bound  *)
(* on the polls and every fault that the hypotheses leave possible.        *)
EXTENDS WriteLock, TLAPS

(* Every process may signal every other: they belong to one user.          *)
OneUser == MaySignal = Proc \X Proc

(* Stealing a stale lock takes a dead holder, a thief and a new holder:    *)
(* there are no three processes, or none of them ever ends.                *)
NoThree ==
    \/ \E a, b \in Proc : Proc = {a, b}
    \/ "exit" \notin Faults /\ "kill" \notin Faults

Owns(p) == pc[p] \in {"writing", "holding"}

(* The path leads to the file of whoever is creating or holding the lock.  *)
OwnersFile == \A p \in Proc : Owns(p) => lockFile.creator = p

(* Whoever is about to remove the file has seen a holder that is dead.     *)
ThievesSawDead == \A p \in Proc : pc[p] = "stealing" => meta[p] \in Proc /\ pc[meta[p]] = "dead"

Deaths == "exit" \notin Faults /\ "kill" \notin Faults => \A p \in Proc : pc[p] # "dead"

IInv == TypeOK /\ OwnersFile /\ ThievesSawDead /\ Deaths

(* Every step keeps the types.                                             *)
LEMMA TypeStep == TypeOK /\ [Next]_vars => TypeOK'
<1> SUFFICES ASSUME TypeOK, [Next]_vars PROVE TypeOK'
  OBVIOUS
<1> USE LockAssumption DEF TypeOK, Goto, Place
<1>1. ASSUME NEW p \in Proc, TryAcquire(p) PROVE TypeOK'
  <2>1. [creator |-> p, written |-> FALSE] \in LockFile
    BY DEF LockFile
  <2>2. CASE lockFile = Absent
    BY <1>1, <2>1, <2>2 DEF TryAcquire
  <2>3. CASE lockFile # Absent
    BY <1>1, <2>3 DEF TryAcquire
  <2>4. QED
    BY <2>2, <2>3
<1>2. ASSUME NEW p \in Proc, WriteMeta(p) PROVE TypeOK'
  <2>1. lockFile' \in LockFile
    BY <1>2 DEF WriteMeta, LockFile, Absent
  <2>2. QED
    BY <1>2, <2>1 DEF WriteMeta
<1>3. ASSUME NEW p \in Proc, ReadMeta(p) PROVE TypeOK'
  <2>1. lockFile.written => lockFile.creator \in Proc
    BY DEF LockFile, Absent
  <2>2. QED
    BY <1>3, <2>1 DEF ReadMeta
<1>4. ASSUME NEW p \in Proc, Poll(p) PROVE TypeOK'
  BY <1>4 DEF Poll
<1>5. ASSUME NEW p \in Proc, JudgeStale(p) \/ GiveUp(p) \/ WriteFails(p) \/ End(p) PROVE TypeOK'
  BY <1>5 DEF JudgeStale, GiveUp, WriteFails, End
<1>6. ASSUME NEW p \in Proc, Steal(p) \/ Release(p) PROVE TypeOK'
  BY <1>6 DEF Steal, Release, ForceRelease, LockFile
<1>7. ASSUME NEW p \in Proc, Start(p) PROVE TypeOK'
  BY <1>7 DEF Start
<1>8. CASE UNCHANGED vars
  BY <1>8 DEF vars
<1>9. QED
  BY <1>1, <1>2, <1>3, <1>4, <1>5, <1>6, <1>7, <1>8 DEF Next, Work

(* The lock file and the processes' places keep their types.               *)
THEOREM TypeCorrect == Spec => []TypeOK
<1>1. Init => TypeOK
  BY LockAssumption DEF Init, TypeOK, LockFile, Place
<1>2. QED
  BY <1>1, TypeStep, PTL DEF Spec

-----------------------------------------------------------------------------
(* A thief has no victim: whoever is not dead and does not steal does not  *)
(* exist, or nobody is dead and nobody steals.                             *)
LEMMA NoVictim ==
    ASSUME NoThree, IInv, NEW p \in Proc, pc[p] = "stealing", NEW q \in Proc
    PROVE  ~Owns(q)
BY DEF NoThree, IInv, ThievesSawDead, Deaths, Owns

(* The lock's invariant survives every step.                               *)
LEMMA IInvStep == ASSUME OneUser, NoThree, IInv, [Next]_vars PROVE IInv'
<1> USE LockAssumption
<1>1. TypeOK' /\ TypeOK
  BY TypeStep DEF IInv
<1>2. ASSUME NEW p \in Proc, Start(p) PROVE IInv'
  BY <1>1, <1>2 DEF Start, IInv, OwnersFile, ThievesSawDead, Deaths, Owns, Goto, TypeOK
<1>3. ASSUME NEW p \in Proc, TryAcquire(p) PROVE IInv'
  <2>1. CASE lockFile = Absent
    <3>1. \A q \in Proc : ~Owns(q)
      BY <2>1 DEF IInv, OwnersFile, Absent
    <3>2. /\ lockFile'.creator = p /\ meta' = meta
          /\ pc' = [pc EXCEPT ![p] = "writing"] /\ pc[p] = "trying"
      BY <1>3, <2>1 DEF TryAcquire, Goto
    <3>3. QED
      BY <1>1, <3>1, <3>2 DEF IInv, OwnersFile, ThievesSawDead, Deaths, Owns, TypeOK
  <2>2. CASE lockFile # Absent
    BY <1>1, <1>3, <2>2
       DEF TryAcquire, IInv, OwnersFile, ThievesSawDead, Deaths, Owns, Goto, TypeOK
  <2>3. QED
    BY <2>1, <2>2
<1>4. ASSUME NEW p \in Proc, WriteMeta(p) PROVE IInv'
  <2>1. lockFile'.creator = lockFile.creator
    BY <1>1, <1>4 DEF WriteMeta, TypeOK, LockFile, Absent
  <2>2. QED
    BY <1>1, <1>4, <2>1
       DEF WriteMeta, IInv, OwnersFile, ThievesSawDead, Deaths, Owns, Goto, TypeOK
<1>5. ASSUME NEW p \in Proc, ReadMeta(p) \/ Poll(p) \/ GiveUp(p) \/ WriteFails(p) PROVE IInv'
  BY <1>1, <1>5 DEF ReadMeta, Poll, GiveUp, WriteFails, IInv, OwnersFile, ThievesSawDead,
                    Deaths, Owns, Goto, TypeOK
<1>6. ASSUME NEW p \in Proc, JudgeStale(p) PROVE IInv'
  <2>1. meta[p] \in Proc /\ pc[meta[p]] = "dead"
    BY <1>1, <1>6 DEF JudgeStale, FoundStale, IsPidAlive, OneUser, TypeOK
  <2>2. QED
    BY <1>1, <1>6, <2>1
       DEF JudgeStale, IInv, OwnersFile, ThievesSawDead, Deaths, Owns, Goto, TypeOK
<1>7. ASSUME NEW p \in Proc, Steal(p) PROVE IInv'
  <2>1. \A q \in Proc : ~Owns(q)
    BY <1>7, NoVictim DEF Steal
  <2>2. QED
    BY <1>1, <1>7, <2>1 DEF Steal, IInv, OwnersFile, ThievesSawDead, Deaths, Owns, Goto, TypeOK
<1>8. ASSUME NEW p \in Proc, Release(p) PROVE IInv'
  <2>1. \A q \in Proc : Owns(q) => q = p
    BY <1>8 DEF Release, IInv, OwnersFile, Owns
  <2>2. QED
    BY <1>1, <1>8, <2>1 DEF Release, IInv, OwnersFile, ThievesSawDead, Deaths, Owns, Goto, TypeOK
<1>9. ASSUME NEW p \in Proc, End(p) PROVE IInv'
  BY <1>1, <1>9 DEF End, IInv, OwnersFile, ThievesSawDead, Deaths, Owns, Goto, TypeOK
<1>10. CASE UNCHANGED vars
  BY <1>1, <1>10 DEF vars, IInv, OwnersFile, ThievesSawDead, Deaths, Owns
<1>11. QED
  BY <1>2, <1>3, <1>4, <1>5, <1>6, <1>7, <1>8, <1>9, <1>10 DEF Next, Work

(* The invariant holds in every reachable state.                           *)
LEMMA Invariant == ASSUME OneUser, NoThree PROVE Spec => []IInv
<1>1. Init => IInv
  BY LockAssumption
     DEF Init, IInv, TypeOK, OwnersFile, ThievesSawDead, Deaths, Owns, LockFile, Place
<1>2. IInv /\ [Next]_vars => IInv'
  BY IInvStep
<1>3. QED
  BY <1>1, <1>2, PTL DEF Spec

(* Two processes of one user, or any number that never end, never hold the *)
(* lock together, whatever else fails.                                     *)
THEOREM Excludes == ASSUME OneUser, NoThree PROVE Spec => []MutualExclusion
<1>1. IInv => MutualExclusion
  BY DEF IInv, OwnersFile, Owns, MutualExclusion
<1>2. QED
  BY <1>1, Invariant, PTL

-----------------------------------------------------------------------------
(* Why an acquisition ends, whatever happens to the others.  For a process *)
(* that waits there is so much left: the processes that may yet die, then  *)
(* a stale file that is there or that it has seen, then its polls, then    *)
(* the steps to the next one, in this order of importance.                 *)
Alive == {p \in Proc : pc[p] # "dead"}

Waiting(p) == pc[p] \in {"trying", "reading", "judging", "stealing"}

SawDead(p) == pc[p] \in {"judging", "stealing"} /\ meta[p] \in Proc \ Alive

Stale(p) == lockFile.creator \in Proc \ Alive \/ SawDead(p)

StepsLeft(p) == CASE pc[p] = "trying" -> 3 [] pc[p] = "reading" -> 2 [] pc[p] = "judging" -> 1
                  [] OTHER -> 0

NoWorse(p) == Alive' \subseteq Alive /\ (Alive' = Alive /\ Stale(p)' => Stale(p))

Better(p) ==
    \/ Alive' # Alive
    \/ Stale(p) /\ ~Stale(p)'
    \/ patience'[p] < patience[p]
    \/ patience'[p] = patience[p] /\ StepsLeft(p)' < StepsLeft(p)

Advances ==
    \A p \in Proc : Waiting(p) =>
        /\ NoWorse(p)
        /\ Work(p) => ~Waiting(p)' \/ Better(p) \/ RemovalFails(p)
        /\ ~Work(p) => ~Waiting(p)' \/ UNCHANGED <<pc[p], meta[p], patience[p]>>

(* Whoever is about to remove the file has seen a dead holder, however     *)
(* many processes there are.                                               *)
LEMMA ThievesStep ==
    ASSUME OneUser, TypeOK, ThievesSawDead, [Next]_vars
    PROVE  ThievesSawDead'
<1>1. ASSUME NEW p \in Proc, NEW place \in Place \ {"stealing"}, Goto(p, place), pc[p] # "dead",
             \A q \in Proc \ {p} : meta'[q] = meta[q]
      PROVE  ThievesSawDead'
  BY <1>1 DEF Goto, ThievesSawDead, TypeOK
<1>2. ASSUME NEW p \in Proc, JudgeStale(p) PROVE ThievesSawDead'
  <2>1. meta[p] \in Proc /\ pc[meta[p]] = "dead"
    BY <1>2 DEF JudgeStale, FoundStale, IsPidAlive, OneUser, TypeOK
  <2>2. QED
    BY <1>2, <2>1 DEF JudgeStale, Goto, ThievesSawDead, TypeOK
<1>3. ASSUME NEW p \in Proc, End(p), pc[p] = "dead" PROVE ThievesSawDead'
  BY <1>3 DEF End, Goto, ThievesSawDead, TypeOK
<1>4. CASE UNCHANGED vars
  BY <1>4 DEF vars, ThievesSawDead
<1>5. ASSUME NEW p \in Proc, Work(p) \/ Start(p) \/ WriteFails(p) \/ End(p),
             ~JudgeStale(p), pc[p] # "dead"
      PROVE  ThievesSawDead'
  <2>1. \E place \in Place \ {"stealing"} : Goto(p, place)
    BY <1>5 DEF Work, TryAcquire, WriteMeta, ReadMeta, GiveUp, Poll, Steal, Release, Start,
                WriteFails, End, Place
  <2>2. \A q \in Proc \ {p} : meta'[q] = meta[q]
    BY <1>5 DEF Work, TryAcquire, WriteMeta, ReadMeta, GiveUp, Poll, Steal, Release, Start,
                WriteFails, End, TypeOK
  <2>3. QED
    BY <1>1, <1>5, <2>1, <2>2
<1>6. ASSUME NEW p \in Proc, Work(p) \/ Start(p) \/ WriteFails(p), pc[p] = "dead" PROVE FALSE
  BY <1>6 DEF Work, TryAcquire, WriteMeta, ReadMeta, JudgeStale, GiveUp, Poll, Steal, Release,
              Start, WriteFails
<1>7. QED
  BY <1>2, <1>3, <1>4, <1>5, <1>6 DEF Next

(* A step of q kills nobody but q, and only End kills.                     *)
LEMMA AliveStep ==
    ASSUME TypeOK, NEW q \in Proc, Work(q) \/ Start(q) \/ WriteFails(q) \/ End(q)
    PROVE  /\ Alive' \subseteq Alive
           /\ \A p \in Proc \ {q} : UNCHANGED <<pc[p], meta[p], patience[p]>>
           /\ ~End(q) => Alive' = Alive
           /\ End(q) => Alive' = Alive \ {q} /\ UNCHANGED <<lockFile, meta>>
<1>1. ASSUME Work(q) \/ Start(q) \/ WriteFails(q)
      PROVE  pc[q] # "dead" /\ \E place \in Place \ {"dead"} : Goto(q, place)
  BY <1>1 DEF Work, TryAcquire, WriteMeta, ReadMeta, JudgeStale, GiveUp, Poll, Steal, Release,
              Start, WriteFails, Place
<1>2. \A p \in Proc \ {q} : meta'[p] = meta[p] /\ patience'[p] = patience[p]
  BY DEF Work, TryAcquire, WriteMeta, ReadMeta, JudgeStale, GiveUp, Poll, Steal, Release,
         Start, WriteFails, End, TypeOK
<1>3. CASE Work(q) \/ Start(q) \/ WriteFails(q)
  <2>1. PICK place \in Place \ {"dead"} : Goto(q, place)
    BY <1>1, <1>3
  <2>2. Alive' = Alive /\ \A p \in Proc \ {q} : pc'[p] = pc[p]
    BY <1>1, <1>3, <2>1 DEF Goto, Alive, TypeOK
  <2>3. ASSUME End(q) PROVE FALSE
    BY <2>1, <2>3 DEF End, Goto, TypeOK
  <2>4. QED
    BY <1>2, <2>2, <2>3
<1>4. CASE End(q)
  <2>1. Alive' = Alive \ {q} /\ \A p \in Proc \ {q} : pc'[p] = pc[p]
    BY <1>4 DEF End, Goto, Alive, TypeOK
  <2>2. QED
    BY <1>2, <1>4, <2>1 DEF End
<1>5. QED
  BY <1>3, <1>4

(* No file becomes stale while nobody dies.                                *)
LEMMA FileStaysFresh ==
    ASSUME TypeOK, NEW q \in Proc, Work(q) \/ Start(q) \/ WriteFails(q)
    PROVE  lockFile'.creator \in {lockFile.creator, NoMeta, q} /\ q \in Alive
<1>1. lockFile'.creator \in {lockFile.creator, NoMeta, q}
  BY DEF Work, TryAcquire, WriteMeta, ReadMeta, JudgeStale, GiveUp, Poll, Steal, Release,
         ForceRelease, Start, WriteFails, Absent, TypeOK, LockFile
<1>2. q \in Alive
  BY DEF Work, TryAcquire, WriteMeta, ReadMeta, JudgeStale, GiveUp, Poll, Steal, Release,
         Start, WriteFails, Alive
<1>3. QED
  BY <1>1, <1>2

(* A process that waits is not set back by the others ...                  *)
LEMMA OthersLeaveIt ==
    ASSUME TypeOK, NEW p \in Proc, Waiting(p), NEW q \in Proc, p # q,
           Work(q) \/ Start(q) \/ WriteFails(q) \/ End(q)
    PROVE  NoWorse(p) /\ UNCHANGED <<pc[p], meta[p], patience[p]>>
<1>1. /\ UNCHANGED <<pc[p], meta[p], patience[p]>>
      /\ Alive' \subseteq Alive
  BY AliveStep
<1>2. ASSUME Alive' = Alive, Stale(p)' PROVE Stale(p)
  <2>1. CASE End(q)
    BY <1>1, <1>2, <2>1, AliveStep DEF Stale, SawDead
  <2>2. CASE ~End(q)
    BY <1>1, <1>2, <2>2, FileStaysFresh, LockAssumption DEF Stale, SawDead
  <2>3. QED
    BY <2>1, <2>2
<1>3. QED
  BY <1>1, <1>2 DEF NoWorse

(* ... and comes nearer to its end by its own steps.                       *)
LEMMA OwnStepsAdvance ==
    ASSUME OneUser, TypeOK, ThievesSawDead, NEW p \in Proc, Waiting(p), Work(p)
    PROVE  NoWorse(p) /\ (~Waiting(p)' \/ Better(p) \/ RemovalFails(p))
<1>1. /\ Alive' = Alive
      /\ lockFile'.creator \in {lockFile.creator, NoMeta, p} /\ p \in Alive
  <2>1. ~End(p)
    BY DEF Work, TryAcquire, WriteMeta, ReadMeta, JudgeStale, GiveUp, Poll, Steal, Release,
           End, Goto, TypeOK
  <2>2. Alive' = Alive
    BY <2>1, AliveStep
  <2>3. lockFile'.creator \in {lockFile.creator, NoMeta, p} /\ p \in Alive
    BY FileStaysFresh
  <2>4. QED
    BY <2>2, <2>3
<1>2. CASE TryAcquire(p)
  <2>1. pc'[p] \in {"writing", "reading"} /\ patience' = patience
    BY <1>2 DEF TryAcquire, Goto, TypeOK
  <2>2. pc[p] = "trying"
    BY <1>2 DEF TryAcquire
  <2>3. NoWorse(p)
    BY <1>1, <2>1, LockAssumption DEF NoWorse, Stale, SawDead
  <2>4. QED
    BY <2>1, <2>2, <2>3 DEF Waiting, Better, StepsLeft
<1>3. CASE ReadMeta(p)
  <2>1. pc[p] = "reading" /\ pc'[p] = "judging" /\ patience' = patience /\ lockFile' = lockFile
    BY <1>3 DEF ReadMeta, Goto, TypeOK
  <2>2. meta'[p] \in {lockFile.creator, NoMeta}
    BY <1>3 DEF ReadMeta, TypeOK
  <2>3. NoWorse(p)
    BY <1>1, <2>1, <2>2, LockAssumption DEF NoWorse, Stale, SawDead
  <2>4. QED
    BY <2>1, <2>3 DEF Better, StepsLeft
<1>4. CASE JudgeStale(p)
  <2>1. /\ pc[p] = "judging" /\ pc'[p] = "stealing"
        /\ UNCHANGED <<lockFile, meta, patience>>
    BY <1>4 DEF JudgeStale, Goto, TypeOK
  <2>2. NoWorse(p)
    BY <1>1, <2>1 DEF NoWorse, Stale, SawDead
  <2>3. QED
    BY <2>1, <2>2 DEF Better, StepsLeft
<1>5. CASE Poll(p)
  <2>1. /\ pc'[p] = "trying" /\ patience'[p] = patience[p] - 1 /\ patience[p] \in Nat
        /\ UNCHANGED <<lockFile, meta>>
    BY <1>5, LockAssumption DEF Poll, Goto, TypeOK
  <2>2. NoWorse(p)
    BY <1>1, <2>1 DEF NoWorse, Stale, SawDead
  <2>3. QED
    BY <2>1, <2>2 DEF Better
<1>6. CASE GiveUp(p)
  <2>1. pc'[p] = "idle" /\ UNCHANGED <<lockFile, meta>>
    BY <1>6 DEF GiveUp, Goto, TypeOK
  <2>2. QED
    BY <1>1, <2>1 DEF NoWorse, Stale, SawDead, Waiting
<1>7. CASE Steal(p)
  <2>1. pc[p] = "stealing" /\ pc'[p] = "trying" /\ meta' = meta
    BY <1>7 DEF Steal, Goto, TypeOK
  <2>2. Stale(p)
    BY <2>1 DEF ThievesSawDead, Stale, SawDead, Alive
  <2>3. lockFile' = Absent => ~Stale(p)'
    BY <1>1, <2>1, LockAssumption DEF Stale, SawDead, Absent
  <2>4. QED
    BY <1>1, <1>7, <2>2, <2>3 DEF NoWorse, Better, RemovalFails
<1>8. ~WriteMeta(p) /\ ~Release(p)
  BY DEF Waiting, WriteMeta, Release
<1>9. QED
  BY <1>2, <1>3, <1>4, <1>5, <1>6, <1>7, <1>8 DEF Work

(* Among processes of one user, however many, die as they may, each step   *)
(* of acquireWriteLock comes nearer to its end, but for one whose removal  *)
(* of a stale file fails; no other process sets it back.                   *)
THEOREM AcquireOnlyAdvances == ASSUME OneUser PROVE Spec => [][Advances]_vars
<1>1. ASSUME TypeOK, ThievesSawDead, [Next]_vars PROVE [Advances]_vars
  <2> SUFFICES ASSUME Next, NEW p \in Proc, Waiting(p)
               PROVE  /\ NoWorse(p)
                      /\ Work(p) => ~Waiting(p)' \/ Better(p) \/ RemovalFails(p)
                      /\ ~Work(p) => ~Waiting(p)' \/ UNCHANGED <<pc[p], meta[p], patience[p]>>
    BY <1>1 DEF Advances
  <2>1. CASE Work(p)
    BY <1>1, <2>1, OwnStepsAdvance
  <2>2. CASE ~Work(p)
    <3>1. PICK q \in Proc : Work(q) \/ Start(q) \/ WriteFails(q) \/ End(q)
      BY DEF Next
    <3>2. CASE q # p
      BY <1>1, <2>2, <3>1, <3>2, OthersLeaveIt
    <3>3. CASE q = p
      <4>1. End(p)
        BY <2>2, <3>1, <3>3 DEF Start, WriteFails, Waiting
      <4>2. pc'[p] = "dead" /\ pc[p] # "dead"
        BY <1>1, <4>1 DEF End, Goto, Waiting, TypeOK
      <4>3. Alive' \subseteq Alive /\ Alive' # Alive
        BY <4>2 , <1>1, <3>1, <3>3, AliveStep DEF Alive
      <4>4. QED
        BY <2>2, <4>2, <4>3 DEF NoWorse, Waiting
    <3>4. QED
      BY <3>2, <3>3
  <2>3. QED
    BY <2>1, <2>2
<1>2. Init => ThievesSawDead
  BY DEF Init, ThievesSawDead
<1>3. TypeOK /\ ThievesSawDead /\ [Next]_vars => ThievesSawDead'
  BY ThievesStep
<1>4. QED
  BY <1>1, <1>2, <1>3, TypeCorrect, PTL DEF Spec
=============================================================================
