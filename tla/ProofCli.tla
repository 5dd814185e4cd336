------------------------------ MODULE ProofCli ------------------------------
(***************************************************************************)
(* The commands "proof claim commit" and "proof claim reveal"              *)
(* (packages/cli/src/commands/proof.ts) on top of the proof market.        *)
(*                                                                         *)
(* The nonce of a claim is drawn by the commit command, and only the stash *)
(* file in the user's home remembers it.  A command works on the database  *)
(* and on the stash in separate steps: others run in between, and it may   *)
(* be killed, or its disk be full, at any step.  What a command does before*)
(* its first shared effect (parsing, reading the artifact, drawing the     *)
(* nonce) is part of that step.  "proof bounty post" is one transaction:   *)
(* Post of ProofMarket.                                                    *)
(***************************************************************************)
EXTENDS ProofMarket, Functions

CONSTANTS Command,  \* processes that run one command after another
          UserOf,   \* UserOf[k]: whose home k works in; also its claimant id
          Truncated \* a file that is no valid JSON

Secret == [artifact : Artifact, nonce : Nonce]

ASSUME CommandAssumption == UserOf \in [Command -> Account] /\ Truncated \notin Secret

VARIABLES
    run,     \* run[k]: the command that k runs
    stash,   \* stash[p]: the files in p's proof-claims directory, by claim
    broken   \* history: the claims whose commit or reveal command was cut short

cliVars == <<clock, bounties, claims, attestations, run, stash, broken>>
files == <<stash, broken>>

Idle == [phase |-> "idle"]
Phase == {"stash", "write", "reveal", "delete"}
Run == {Idle} \cup [phase : Phase, claim : ClaimId, secret : Secret]

CliTypeOK ==
    /\ TypeOK
    /\ run \in [Command -> Run]
    /\ DOMAIN stash = Account
    /\ \A p \in Account :
        stash[p] \in [DOMAIN stash[p] -> Secret \cup {Truncated}] /\ DOMAIN stash[p] \subseteq ClaimId
    /\ broken \subseteq {"commit", "reveal"} \X ClaimId

CliInit ==
    /\ Init
    /\ run = [k \in Command |-> Idle]
    /\ stash = [p \in Account |-> [c \in {} |-> Truncated]]
    /\ broken = {}

-----------------------------------------------------------------------------
Working(k, phase, c, secret) ==
    run' = [run EXCEPT ![k] = [phase |-> phase, claim |-> c, secret |-> secret]]
Ends(k) == run' = [run EXCEPT ![k] = Idle]

Holds(p, c) == c \in DOMAIN stash[p] /\ stash[p][c] # Truncated
Write(p, c, content) == stash' = [stash EXCEPT ![p] = Insert(@, c, content)]

(* 32 random bytes: a nonce that no claim was committed with.              *)
Drawn == {n \in Nonce : \A c \in DOMAIN claims :
                            claims[c].commit.tail # Joined(n, claims[c].claimant)}

CommitHash(k, secret) == ComputeCommitHash(secret.artifact, secret.nonce, UserOf[k])

(* Claim commit, up to commitClaim.                                        *)
StartCommit(k, b, c, secret, stake, nowMs) ==
    /\ run[k] = Idle
    /\ secret.artifact \in Known(UserOf[k]) /\ secret.nonce \in Drawn
    /\ CommitClaim(b, c, UserOf[k], CommitHash(k, secret), stake, nowMs)
    /\ Working(k, "stash", c, secret)
    /\ UNCHANGED files

(* writeFileSync: the file is created or truncated, then written.          *)
CreateStash(k) ==
    /\ run[k].phase = "stash"
    /\ Write(UserOf[k], run[k].claim, Truncated)
    /\ Working(k, "write", run[k].claim, run[k].secret)
    /\ UNCHANGED <<vars, broken>>

WriteStash_OtherNonce(k) ==  \* Mutant: a nonce drawn anew is stashed
    /\ run[k].phase = "write"
    /\ \E n \in Drawn : Write(UserOf[k], run[k].claim, [run[k].secret EXCEPT !.nonce = n])
    /\ Ends(k)
    /\ UNCHANGED <<vars, broken>>

WriteStash(k) ==
    /\ run[k].phase = "write"
    /\ Write(UserOf[k], run[k].claim, run[k].secret)
    /\ Ends(k)
    /\ UNCHANGED <<vars, broken>>

(* Claim reveal.  A missing or truncated stash ends the command at once.   *)
ReadStash(k, c) ==
    /\ run[k] = Idle
    /\ Holds(UserOf[k], c)
    /\ Working(k, "reveal", c, stash[UserOf[k]][c])
    /\ UNCHANGED <<vars, files>>

(* revealClaim throws, for any of its guards or because the database is   *)
(* busy: the stash is kept for another try.                                *)
RevealFails_Deletes(k) ==  \* Mutant: the stash is deleted in a finally
    /\ run[k].phase = "reveal"
    /\ Working(k, "delete", run[k].claim, run[k].secret)
    /\ UNCHANGED <<vars, files>>

RevealFails(k) ==
    /\ run[k].phase = "reveal"
    /\ Ends(k)
    /\ UNCHANGED <<vars, files>>

RevealStep_Keeps(k, nowMs) ==  \* Mutant: the stash is not deleted
    /\ run[k].phase = "reveal"
    /\ RevealClaim(run[k].claim, run[k].secret.artifact, run[k].secret.nonce, nowMs)
    /\ Ends(k)
    /\ UNCHANGED files

RevealStep(k, nowMs) ==
    /\ run[k].phase = "reveal"
    /\ RevealClaim(run[k].claim, run[k].secret.artifact, run[k].secret.nonce, nowMs)
    /\ Working(k, "delete", run[k].claim, run[k].secret)
    /\ UNCHANGED files

DeleteStash(k) ==
    /\ run[k].phase = "delete"
    /\ stash' = [stash EXCEPT ![UserOf[k]] = Restrict(@, DOMAIN @ \ {run[k].claim})]
    /\ Ends(k)
    /\ UNCHANGED <<vars, broken>>

(* The process is killed, or a file cannot be written or removed.  In      *)
(* phase "reveal" that is RevealFails.                                     *)
CutShort(k) ==
    /\ run[k].phase \in {"stash", "write", "delete"}
    /\ broken' = broken \cup {<<IF run[k].phase \in {"stash", "write"} THEN "commit" ELSE "reveal",
                              run[k].claim>>}
    /\ Ends(k)
    /\ UNCHANGED <<vars, stash>>

-----------------------------------------------------------------------------
Commits(k) == \E b \in BountyId, c \in ClaimId, secret \in Secret, stake \in Stakes,
                 nowMs \in Readings : StartCommit(k, b, c, secret, stake, nowMs)

CommandStep(k) ==
    \/ Commits(k)
    \/ CreateStash(k)
    \/ WriteStash(k)
    \/ \E c \in ClaimId : ReadStash(k, c)
    \/ RevealFails(k)
    \/ \E nowMs \in Readings : RevealStep(k, nowMs)
    \/ DeleteStash(k)
    \/ CutShort(k)

(* The clock, the requesters and the daemon that drives the lifecycle.     *)
MarketStep(A) == A /\ UNCHANGED <<run, files>>

CliNext ==
    \/ MarketStep(Tick)
    \/ MarketStep(Post)
    \/ \E b \in BountyId : MarketStep(Transition(b)) \/ MarketStep(Finalize(b))
    \/ \E k \in Command : CommandStep(k)

CliSpec == CliInit /\ [][CliNext]_cliVars

(* The fairness of PolledSpec.  No command has to be run or to end.        *)
PolledCliSpec ==
    /\ CliSpec
    /\ WF_cliVars(MarketStep(Tick))
    /\ \A b \in BountyId : WF_cliVars(MarketStep(Transition(b))) /\ WF_cliVars(MarketStep(Finalize(b)))

-----------------------------------------------------------------------------
(* A stash is worth keeping: whatever commands ran at the same time, in    *)
(* the same home or another, a stash that can be parsed holds the very     *)
(* artifact and nonce that the database's commitment was computed from, so *)
(* claim reveal can only fail for the bounty's status or the deadline.     *)
StashOpensClaim ==
    \A p \in Account, c \in ClaimId : Holds(p, c) =>
        /\ c \in DOMAIN claims /\ claims[c].claimant = p
        /\ Opens(c, stash[p][c].artifact, stash[p][c].nonce)

(* The nonce exists nowhere but in the stash, so the stash must outlive    *)
(* everything but a reveal: a claim that is not revealed has its stash,    *)
(* through failed reveals and races of two reveals, unless its commit      *)
(* command is still writing or was cut short before it had written.        *)
UnrevealedKeepsStash ==
    \A c \in DOMAIN claims : claims[c].artifact = NoArtifact =>
        \/ Holds(claims[c].claimant, c)
        \/ \E k \in Command : run[k].phase \in {"stash", "write"} /\ run[k].claim = c
        \/ <<"commit", c>> \in broken

(* A stash that stays behind tells that its claim is unrevealed: once the  *)
(* claim is revealed some reveal command is about to delete the stash, or  *)
(* was cut short in between.                                               *)
RevealedIsCleanedUp ==
    \A p \in Account, c \in ClaimId : Holds(p, c) /\ claims[c].artifact # NoArtifact =>
        \/ \E k \in Command : run[k].phase = "delete" /\ run[k].claim = c
        \/ <<"reveal", c>> \in broken
=============================================================================
