----------------------------- MODULE WriteLock -----------------------------
(***************************************************************************)
(* The cross-process write lock of the registry                            *)
(* (packages/registry/src/lock.ts): an advisory lock file next to the      *)
(* database, taken by the bootstrap, shave, federation and rebuild         *)
(* commands around everything they write.                                  *)
(*                                                                         *)
(* A process is its PID; between two file-system calls of one process any  *)
(* other may run.  writeFileSync with flag wx is two such calls: it        *)
(* creates the file empty and then writes the metadata through its file    *)
(* descriptor, so the metadata is lost if the file was removed in between. *)
(***************************************************************************)
EXTENDS Naturals, FiniteSets

CONSTANTS
    Proc,        \* processes
    NoMeta,      \* readMeta returned null
    MaySignal,   \* <<p, q>>: process.kill(q, 0) from p may reach q
    Faults,      \* what may go wrong besides the locking itself
    MaxPolls     \* bound: polls that fit into timeoutMs

ASSUME LockAssumption ==
    /\ NoMeta \notin Proc
    /\ MaySignal \subseteq Proc \X Proc
    /\ Faults \subseteq {"exit", "kill", "write", "remove"}
    /\ MaxPolls \in Nat

(* The lock file: which process created it, and whether its metadata has   *)
(* been written.                                                           *)
Absent == [creator |-> NoMeta, written |-> FALSE]
LockFile == [creator : Proc, written : BOOLEAN] \cup {Absent}

Place == {"idle", "trying", "writing", "reading", "judging", "stealing", "holding", "dead"}

VARIABLES
    lockFile,    \* <registryDir>/.write.lock
    pc,          \* pc[p]: where process p is in acquireWriteLock
    meta,        \* meta[p]: the local meta, the holder p has read
    patience     \* patience[p]: polls left before p's deadline

vars == <<lockFile, pc, meta, patience>>

TypeOK ==
    /\ lockFile \in LockFile
    /\ pc \in [Proc -> Place]
    /\ meta \in [Proc -> Proc \cup {NoMeta}]
    /\ patience \in [Proc -> 0..MaxPolls]

Init ==
    /\ lockFile = Absent
    /\ pc = [p \in Proc |-> "idle"]
    /\ meta = [p \in Proc |-> NoMeta]
    /\ patience = [p \in Proc |-> 0]

Goto(p, place) == pc' = [pc EXCEPT ![p] = place]

(* A kill(pid, 0) that is not permitted throws as one to a dead process    *)
(* does.                                                                   *)
IsPidAlive(p, q) == pc[q] # "dead" /\ <<p, q>> \in MaySignal

-----------------------------------------------------------------------------
Start(p) ==
    /\ pc[p] = "idle"
    /\ Goto(p, "trying")
    /\ \E n \in 0..MaxPolls : patience' = [patience EXCEPT ![p] = n]
    /\ UNCHANGED <<lockFile, meta>>

(* tryAcquire: O_CREAT | O_EXCL, then the write.                           *)
TryAcquire(p) ==
    /\ pc[p] = "trying"
    /\ IF lockFile = Absent
       THEN lockFile' = [creator |-> p, written |-> FALSE] /\ Goto(p, "writing")
       ELSE lockFile' = lockFile /\ Goto(p, "reading")
    /\ UNCHANGED <<meta, patience>>

WriteMeta(p) ==
    /\ pc[p] = "writing"
    /\ lockFile' = IF lockFile.creator = p THEN [lockFile EXCEPT !.written = TRUE] ELSE lockFile
    /\ Goto(p, "holding")
    /\ UNCHANGED <<meta, patience>>

(* The write fails (a full disk, say) and the error propagates: the empty  *)
(* file stays.                                                             *)
WriteFails(p) ==
    /\ "write" \in Faults
    /\ pc[p] = "writing"
    /\ Goto(p, "idle")
    /\ UNCHANGED <<lockFile, meta, patience>>

(* readMeta: null when the file is gone or does not parse.                 *)
ReadMeta(p) ==
    /\ pc[p] = "reading"
    /\ meta' = [meta EXCEPT ![p] = IF lockFile.written THEN lockFile.creator ELSE NoMeta]
    /\ Goto(p, "judging")
    /\ UNCHANGED <<lockFile, patience>>

FoundStale(p) == meta[p] # NoMeta /\ ~IsPidAlive(p, meta[p])

JudgeStale_Unreadable(p) ==
    /\ pc[p] = "judging"
    /\ meta[p] # NoMeta => ~IsPidAlive(p, meta[p])
    /\ Goto(p, "stealing")
    /\ UNCHANGED <<lockFile, meta, patience>>

JudgeStale(p) ==
    /\ pc[p] = "judging"
    /\ FoundStale(p)
    /\ Goto(p, "stealing")
    /\ UNCHANGED <<lockFile, meta, patience>>

(* The deadline has passed: acquireWriteLock throws.                       *)
GiveUp(p) ==
    /\ pc[p] = "judging"
    /\ ~FoundStale(p) /\ patience[p] = 0
    /\ Goto(p, "idle")
    /\ UNCHANGED <<lockFile, meta, patience>>

Poll_NoDeadline(p) ==
    /\ pc[p] = "judging"
    /\ ~FoundStale(p) /\ patience[p] > 0
    /\ Goto(p, "trying")
    /\ UNCHANGED <<lockFile, meta, patience>>

Poll(p) ==
    /\ pc[p] = "judging"
    /\ ~FoundStale(p) /\ patience[p] > 0
    /\ patience' = [patience EXCEPT ![p] = @ - 1]
    /\ Goto(p, "trying")
    /\ UNCHANGED <<lockFile, meta>>

(* rmSync on the path, whatever file is there by now; an error is ignored. *)
ForceRelease ==
    \/ lockFile' = Absent
    \/ "remove" \in Faults /\ lockFile' = lockFile

Steal(p) ==
    /\ pc[p] = "stealing"
    /\ ForceRelease
    /\ Goto(p, "trying")
    /\ UNCHANGED <<meta, patience>>

Release(p) ==
    /\ pc[p] = "holding"
    /\ ForceRelease
    /\ Goto(p, "idle")
    /\ UNCHANGED <<meta, patience>>

(* A command that is done exits; a process may be killed anywhere.         *)
End(p) ==
    /\ \/ "exit" \in Faults /\ pc[p] = "idle"
       \/ "kill" \in Faults /\ pc[p] # "dead"
    /\ Goto(p, "dead")
    /\ UNCHANGED <<lockFile, meta, patience>>

Work(p) == TryAcquire(p) \/ WriteMeta(p) \/ ReadMeta(p) \/ JudgeStale(p) \/ GiveUp(p)
               \/ Poll(p) \/ Steal(p) \/ Release(p)

Next == \E p \in Proc : Work(p) \/ Start(p) \/ WriteFails(p) \/ End(p)

Spec == Init /\ [][Next]_vars

(* A process that is not killed keeps running, and every command releases  *)
(* in the end (a finally clause, or its process ends).                     *)
FairSpec == Spec /\ \A p \in Proc : WF_vars(Work(p))

-----------------------------------------------------------------------------
(* At most one process writes to the registry at any moment: no steal      *)
(* removes the lock of a process that is writing.                          *)
MutualExclusion ==
    \A p, q \in Proc : pc[p] = "holding" /\ pc[q] = "holding" => p = q

(* rmSync fails to remove a file that was judged stale.                    *)
RemovalFails(p) == Steal(p) /\ lockFile' # Absent

(* acquireWriteLock always comes to an end, with the lock or an error,     *)
(* whichever processes are killed while they hold or create the file; only *)
(* a stale file whose removal fails again and again keeps it going for     *)
(* ever, past its deadline.                                                *)
AcquireReturns ==
    \A p \in Proc :
        \/ (pc[p] = "trying") ~> (pc[p] \in {"holding", "idle", "dead"})
        \/ []<><<RemovalFails(p)>>_vars
=============================================================================
