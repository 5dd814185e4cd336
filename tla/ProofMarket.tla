---------------------------- MODULE ProofMarket ----------------------------
(***************************************************************************)
(* The commit-reveal lifecycle of the proof marketplace                    *)
(* (packages/proof-market/src/proof-market.ts).                            *)
(*                                                                         *)
(* The three SQLite tables are partial functions from primary keys to      *)
(* rows.  Every exported method is one db.transaction(), hence one action; *)
(* a throw rolls the transaction back, hence a disabled action.  A method   *)
(* reads Date.now() into nowMs before its transaction, which may then wait *)
(* for another process's: nowMs lags behind the clock by at most MaxLag.   *)
(* An operator named A_Slip is action A with a plausible slip: the runs    *)
(* show that a property tells the two apart.                               *)
(***************************************************************************)
EXTENDS Integers, FiniteSets

CONSTANTS
    BountyId, ClaimId, AttestationId, \* primary keys
    Account,                          \* claimants
    Artifact, NoArtifact,             \* proof artifacts, and SQL NULL for one
    Nonce,                            \* commitment nonces
    Joined(_, _),                     \* Joined(n, p): the bytes of n, then those of the id of p
    Knows,                            \* Knows[p]: the artifacts p found alone
    Stakes,                           \* stake amounts (positive, see the CLI)
    MinTCommit, MaxTCommit,           \* bounds of the commit window
    MinTReveal, MaxTReveal,           \* bounds of the reveal window
    DefaultTReveal,
    MaxLag,                           \* SQLite's busy timeout
    MaxTime                           \* bound: the last instant of the clock

ASSUME MarketAssumption ==
    /\ NoArtifact \notin Artifact
    /\ Knows \in [Account -> SUBSET Artifact]
    /\ Stakes \subseteq Nat \ {0}
    /\ {MinTCommit, MaxTCommit, MinTReveal, MaxTReveal, DefaultTReveal} \subseteq Nat
    /\ MinTCommit > 0 /\ MinTReveal > 0
    /\ DefaultTReveal \in MinTReveal..MaxTReveal
    /\ MaxLag \in Nat /\ MaxTime \in Nat

NoTime == -1  \* SQL NULL in a time column

BountyStatus == {"OPEN", "COMMIT", "REVEAL", "CHECK", "ACCEPT", "REJECT"}
ClaimStatus == {"COMMITTED", "REVEALED", "VALID", "INVALID", "LAPSED"}

(* A commit hash is the bytes it is computed from, BLAKE3 being injective: *)
(* the hash of the artifact, whose length is fixed, then the nonce, then   *)
(* the id of the claimant.  Nothing separates the last two, so that two    *)
(* nonces may make up for the difference of two ids.                       *)
Tail == {Joined(n, p) : n \in Nonce, p \in Account}
Commitment == [artifact : Artifact, tail : Tail]

ComputeCommitHash(artifact, nonce, p) == [artifact |-> artifact, tail |-> Joined(nonce, p)]

BountyRow == [status : BountyStatus, tCommitClose : Nat, tRevealClose : Nat \cup {NoTime}]

ClaimRow == [bounty : BountyId, claimant : Account, commit : Commitment, stake : Stakes,
             artifact : Artifact \cup {NoArtifact}, status : ClaimStatus,
             committedAt : Nat, revealedAt : Nat \cup {NoTime}]

AttestationRow == [claim : ClaimId, result : {"valid", "invalid"}]

VARIABLES clock, bounties, claims, attestations

vars == <<clock, bounties, claims, attestations>>

TypeOK ==
    /\ clock \in Nat
    /\ bounties \in [DOMAIN bounties -> BountyRow] /\ DOMAIN bounties \subseteq BountyId
    /\ claims \in [DOMAIN claims -> ClaimRow] /\ DOMAIN claims \subseteq ClaimId
    /\ attestations \in [DOMAIN attestations -> AttestationRow]
    /\ DOMAIN attestations \subseteq AttestationId

Init ==
    /\ clock = 0
    /\ bounties = [b \in {} |-> {}]
    /\ claims = [c \in {} |-> {}]
    /\ attestations = [a \in {} |-> {}]

-----------------------------------------------------------------------------
(* INSERT INTO table: the key is fresh.                                    *)
Insert(table, key, row) ==
    [k \in DOMAIN table \cup {key} |-> IF k = key THEN row ELSE table[k]]

(* UPDATE proof_claims SET status = to WHERE bounty_id = b AND status = from *)
MoveClaims(b, from, to) ==
    [c \in DOMAIN claims |->
        IF claims[c].bounty = b /\ claims[c].status = from
        THEN [claims[c] EXCEPT !.status = to]
        ELSE claims[c]]

(* What claimant p can know: its own artifacts, and those made public by a *)
(* reveal.                                                                 *)
Known(p) == Knows[p] \cup ({claims[c].artifact : c \in DOMAIN claims} \ {NoArtifact})

(* The commit hashes p can submit: the ones it can compute, and copies of  *)
(* the hashes that are already in the table.                               *)
Submittable(p) ==
    {ComputeCommitHash(a, n, p) : a \in Known(p), n \in Nonce}
        \cup {claims[c].commit : c \in DOMAIN claims}

(* tReveal is range-checked and then dropped, as the code does.            *)
PostBounty(b, tCommit, tReveal, nowMs) ==
    /\ b \notin DOMAIN bounties
    /\ tCommit \in MinTCommit..MaxTCommit
    /\ tReveal \in MinTReveal..MaxTReveal
    /\ bounties' = Insert(bounties, b, [status |-> "COMMIT", tCommitClose |-> nowMs + tCommit,
                                        tRevealClose |-> NoTime])
    /\ UNCHANGED <<clock, claims, attestations>>

NewClaim(b, p, hash, stake, nowMs) ==
    [bounty |-> b, claimant |-> p, commit |-> hash, stake |-> stake, artifact |-> NoArtifact,
     status |-> "COMMITTED", committedAt |-> nowMs, revealedAt |-> NoTime]

CommitClaim_NoStatusCheck(b, c, p, hash, stake, nowMs) ==
    /\ c \notin DOMAIN claims /\ b \in DOMAIN bounties
    /\ nowMs <= bounties[b].tCommitClose
    /\ claims' = Insert(claims, c, NewClaim(b, p, hash, stake, nowMs))
    /\ UNCHANGED <<clock, bounties, attestations>>

CommitClaim(b, c, p, hash, stake, nowMs) ==
    /\ c \notin DOMAIN claims
    /\ b \in DOMAIN bounties
    /\ bounties[b].status = "COMMIT"
    /\ nowMs <= bounties[b].tCommitClose
    /\ claims' = Insert(claims, c, NewClaim(b, p, hash, stake, nowMs))
    /\ UNCHANGED <<clock, bounties, attestations>>

BountyOf(c) == bounties[claims[c].bounty]

(* The recomputed commitment equals the stored one.                        *)
Opens(c, artifact, nonce) ==
    claims[c].commit = ComputeCommitHash(artifact, nonce, claims[c].claimant)

Revealed(row, artifact, nowMs) ==
    [row EXCEPT !.status = "REVEALED", !.artifact = artifact, !.revealedAt = nowMs]

RevealClaim_NoDeadline(c, artifact, nonce, nowMs) ==
    /\ c \in DOMAIN claims /\ claims[c].status = "COMMITTED"
    /\ BountyOf(c).status = "REVEAL"
    /\ Opens(c, artifact, nonce)
    /\ claims' = [claims EXCEPT ![c] = Revealed(@, artifact, nowMs)]
    /\ UNCHANGED <<clock, bounties, attestations>>

RevealClaim_StoresCommit(c, artifact, nonce, nowMs) ==
    /\ c \in DOMAIN claims /\ claims[c].status = "COMMITTED"
    /\ BountyOf(c).status = "REVEAL" /\ nowMs <= BountyOf(c).tRevealClose
    /\ Opens(c, artifact, nonce)
    /\ claims' = [claims EXCEPT ![c] = Revealed(@, claims[c].commit, nowMs)]
    /\ UNCHANGED <<clock, bounties, attestations>>

RevealClaim(c, artifact, nonce, nowMs) ==
    /\ c \in DOMAIN claims
    /\ claims[c].status = "COMMITTED"
    /\ BountyOf(c).status = "REVEAL"
    /\ BountyOf(c).tRevealClose # NoTime => nowMs <= BountyOf(c).tRevealClose
    /\ Opens(c, artifact, nonce)
    /\ claims' = [claims EXCEPT ![c] = Revealed(@, artifact, nowMs)]
    /\ UNCHANGED <<clock, bounties, attestations>>

CommitsDue(b, nowMs) ==
    /\ b \in DOMAIN bounties
    /\ bounties[b].status = "COMMIT"
    /\ nowMs >= bounties[b].tCommitClose

RevealsDue(b, nowMs) ==
    /\ b \in DOMAIN bounties
    /\ bounties[b].status = "REVEAL"
    /\ bounties[b].tRevealClose # NoTime
    /\ nowMs >= bounties[b].tRevealClose

OpenReveal_NoDeadline(b, tReveal, nowMs) ==
    /\ CommitsDue(b, nowMs)
    /\ bounties' = [bounties EXCEPT ![b].status = "REVEAL"]
    /\ UNCHANGED <<clock, claims, attestations>>

OpenReveal(b, tReveal, nowMs) ==
    /\ CommitsDue(b, nowMs)
    /\ bounties' = [bounties EXCEPT ![b] = [@ EXCEPT !.status = "REVEAL",
                                                !.tRevealClose = bounties[b].tCommitClose + tReveal]]
    /\ UNCHANGED <<clock, claims, attestations>>

CloseReveal_NoLapse(b, nowMs) ==
    /\ RevealsDue(b, nowMs)
    /\ bounties' = [bounties EXCEPT ![b].status = "CHECK"]
    /\ UNCHANGED <<clock, claims, attestations>>

CloseReveal(b, nowMs) ==
    /\ RevealsDue(b, nowMs)
    /\ claims' = MoveClaims(b, "COMMITTED", "LAPSED")
    /\ bounties' = [bounties EXCEPT ![b].status = "CHECK"]
    /\ UNCHANGED <<clock, attestations>>

(* One call moves a bounty by at most one status; the third disjunct is    *)
(* the call that finds nothing due.                                        *)
TransitionBounty(b, tReveal, nowMs) ==
    \/ OpenReveal(b, tReveal, nowMs)
    \/ CloseReveal(b, nowMs)
    \/ /\ b \in DOMAIN bounties /\ ~CommitsDue(b, nowMs) /\ ~RevealsDue(b, nowMs)
       /\ UNCHANGED vars

Supermajority(valid, total) == total > 0 /\ valid * 3 >= total * 2

(* The rows of a batch join the table; a primary key already there or a    *)
(* claim that does not exist aborts the transaction.                       *)
Insertable(batch) ==
    /\ DOMAIN batch \cap DOMAIN attestations = {}
    /\ \A a \in DOMAIN batch : batch[a].claim \in DOMAIN claims

Recorded(batch) ==
    [a \in DOMAIN attestations \cup DOMAIN batch |->
        IF a \in DOMAIN batch THEN batch[a] ELSE attestations[a]]

(* Every recorded attestation on any claim of the bounty votes.            *)
Accepted(b, batch) ==
    LET votes == {a \in DOMAIN Recorded(batch) : claims[Recorded(batch)[a].claim].bounty = b}
        valid == {a \in votes : Recorded(batch)[a].result = "valid"}
    IN  Supermajority(Cardinality(valid), Cardinality(votes))

Decide(b, batch) ==
    /\ Insertable(batch)
    /\ attestations' = Recorded(batch)
    /\ claims' = MoveClaims(b, "REVEALED", IF Accepted(b, batch) THEN "VALID" ELSE "INVALID")
    /\ bounties' = [bounties EXCEPT ![b].status = IF Accepted(b, batch) THEN "ACCEPT" ELSE "REJECT"]
    /\ UNCHANGED clock

FinalizeBounty_NoStatusCheck(b, batch) ==
    b \in DOMAIN bounties /\ Decide(b, batch)

FinalizeBounty(b, batch) ==
    /\ b \in DOMAIN bounties
    /\ bounties[b].status = "CHECK"
    /\ Decide(b, batch)

Tick ==
    /\ clock < MaxTime
    /\ clock' = clock + 1
    /\ UNCHANGED <<bounties, claims, attestations>>

-----------------------------------------------------------------------------
(* A claimant or requester acts, or whoever drives the lifecycle polls.    *)
Readings == {nowMs \in 0..clock : clock - nowMs <= MaxLag}

Post == \E b \in BountyId, tCommit, tReveal \in 0..MaxTime, nowMs \in Readings :
            /\ nowMs + tCommit + MaxTReveal <= MaxTime  \* bound: windows end in time
            /\ PostBounty(b, tCommit, tReveal, nowMs)

Commit == \E b \in BountyId, c \in ClaimId, p \in Account, stake \in Stakes, nowMs \in Readings :
            \E hash \in Submittable(p) : CommitClaim(b, c, p, hash, stake, nowMs)

Reveal == \E c \in ClaimId, artifact \in Artifact, nonce \in Nonce, nowMs \in Readings :
            RevealClaim(c, artifact, nonce, nowMs)

(* transitionBounty takes the reveal window as an option of its own; the   *)
(* callers pass a documented window or leave the default.                  *)
Transition(b) == \E tReveal \in MinTReveal..MaxTReveal, nowMs \in Readings :
                    TransitionBounty(b, tReveal, nowMs)

Batches == UNION {[ids -> AttestationRow] : ids \in SUBSET AttestationId}

Finalize(b) == \E batch \in Batches : FinalizeBounty(b, batch)

Next ==
    \/ Tick
    \/ Post
    \/ Commit
    \/ Reveal
    \/ \E b \in BountyId : Transition(b) \/ Finalize(b)

Spec == Init /\ [][Next]_vars

(* Nothing in src/ calls transitionBounty or finalizeBounty: the header    *)
(* leaves that to daemons.  A daemon that keeps polling, and a clock that  *)
(* keeps running, is the fairness liveness is stated under.                *)
PolledSpec ==
    /\ Spec
    /\ WF_vars(Tick)
    /\ \A b \in BountyId : WF_vars(Transition(b)) /\ WF_vars(Finalize(b))

-----------------------------------------------------------------------------
(* Safety.                                                                 *)

(* A claim's status and its bounty's status agree at every moment, however *)
(* late the polls come: nothing is revealed while commits are open,        *)
(* nothing stays COMMITTED once reveals are closed, and VALID or INVALID   *)
(* only ever stand on an accepted or rejected bounty (revealClaim,         *)
(* transitionBounty, finalizeBounty update the two tables separately).  A  *)
(* rejection leaves the lapsed claims as they are, where the comment of    *)
(* finalizeBounty has all claims INVALID.                                  *)
ClaimsFollowBounty ==
    \A c \in DOMAIN claims :
        /\ claims[c].bounty \in DOMAIN bounties
        /\ claims[c].status = "COMMITTED" => BountyOf(c).status \in {"COMMIT", "REVEAL"}
        /\ claims[c].status = "REVEALED" => BountyOf(c).status \in {"REVEAL", "CHECK"}
        /\ claims[c].status = "VALID" => BountyOf(c).status = "ACCEPT"
        /\ claims[c].status = "INVALID" => BountyOf(c).status = "REJECT"
        /\ claims[c].status = "LAPSED" => BountyOf(c).status \in {"CHECK", "ACCEPT", "REJECT"}

(* The deadlines are honoured although each is tested at a different       *)
(* moment and by a different process: a claim was committed by its         *)
(* bounty's commit deadline, and revealed by the reveal deadline and not   *)
(* before the commit deadline, up to the lag of the revealer's clock.      *)
TimesInOrder ==
    \A c \in DOMAIN claims :
        /\ claims[c].committedAt <= BountyOf(c).tCommitClose
        /\ claims[c].revealedAt # NoTime =>
            /\ BountyOf(c).tCommitClose <= claims[c].revealedAt + MaxLag
            /\ claims[c].revealedAt <= BountyOf(c).tRevealClose

(* Two claimants can open one commit hash, with different nonces: the id of*)
(* one is the end of the other's, say.                                     *)
MayShareHash(p, q) == p # q /\ \E n, m \in Nonce : Joined(n, p) = Joined(m, q)

(* Commit-reveal does what it is for: whoever reveals an artifact either   *)
(* found it alone or learnt it from a reveal on ANOTHER bounty; a reveal   *)
(* never serves a rival claim on the same bounty, even when both windows   *)
(* touch and the clocks lag.  The one exception the encoding leaves is a   *)
(* rival that had the very hash of somebody with whom it may share one.    *)
NoFrontRunning ==
    \A c \in DOMAIN claims : claims[c].artifact # NoArtifact =>
        \/ claims[c].artifact \in Knows[claims[c].claimant]
        \/ \E d \in DOMAIN claims :
            /\ claims[d].bounty # claims[c].bounty
            /\ claims[d].artifact = claims[c].artifact
        \/ \E d \in DOMAIN claims :
            /\ claims[d].commit = claims[c].commit
            /\ MayShareHash(claims[d].claimant, claims[c].claimant)

(* Decisions are final: no later call, on this bounty or another, changes  *)
(* a claim that is VALID, INVALID or LAPSED or a bounty that is accepted   *)
(* or rejected, and no row ever disappears.  Not even a rejection changes  *)
(* a claim that has lapsed.                                                *)
DecisionsKept ==
    /\ \A c \in DOMAIN claims :
        /\ c \in DOMAIN claims'
        /\ claims[c].status \in {"VALID", "INVALID", "LAPSED"} => claims'[c] = claims[c]
    /\ \A b \in DOMAIN bounties :
        /\ b \in DOMAIN bounties'
        /\ bounties[b].status \in {"ACCEPT", "REJECT"} => bounties'[b] = bounties[b]

DecisionsAreFinal == [][DecisionsKept]_vars

(* Liveness: when a daemon polls, every bounty that is posted is decided,  *)
(* with no claim on it left COMMITTED or REVEALED.                         *)
EveryBountyDecided ==
    \A b \in BountyId :
        (b \in DOMAIN bounties) ~>
            (/\ b \in DOMAIN bounties
             /\ bounties[b].status \in {"ACCEPT", "REJECT"}
             /\ \A c \in DOMAIN claims : claims[c].bounty = b =>
                    claims[c].status \in {"VALID", "INVALID", "LAPSED"})

(* What finalizeBounty's comment promises: "If zero attestations or zero   *)
(* revealed claims: REJECT".                                               *)
AcceptNeedsReveal ==
    \A b \in DOMAIN bounties : bounties[b].status = "ACCEPT" =>
        \E c \in DOMAIN claims :
            claims[c].bounty = b /\ claims[c].artifact # NoArtifact
=============================================================================
