-------------------------- MODULE ProofRetraction --------------------------
(***************************************************************************)
(* Counter-proofs against accepted proofs                                  *)
(* (packages/proof-market/src/retraction.ts), on top of the lifecycle they *)
(* challenge: RetractionMarket works on the same database as ProofMarket,  *)
(* so their transactions interleave on the same tables.                    *)
(*                                                                         *)
(* resolveRetraction returns what to slash and leaves the transfer to its  *)
(* caller: payouts keeps the resolutions returned, by retraction.          *)
(***************************************************************************)
EXTENDS ProofMarket

CONSTANTS
    RetractionId,
    RetractionStakes,     \* stakes put on a retraction
    StakeMultiplier,      \* RETRACTION_STAKE_MULTIPLIER
    TRetraction,          \* T_RETRACTION_MS
    Rewards,              \* values of the option originalRewardAmount
    MaxVotes,             \* bound: attestations on one retraction
    SlashAfter(_, _)      \* Math.round(base * 2^-(elapsed / half-life))

(* A reward base is a whole amount; decay and rounding never exceed it.    *)
ASSUME RetractionAssumption ==
    /\ RetractionStakes \subseteq Nat /\ Rewards \subseteq Nat
    /\ StakeMultiplier \in Nat \ {0} /\ TRetraction \in Nat
    /\ MaxVotes \in Nat
    /\ \A base \in Stakes \cup Rewards, elapsed \in 0..MaxTime :
            SlashAfter(base, elapsed) \in 0..base

RetractionRow == [claim : ClaimId, retractor : Account, stake : RetractionStakes,
                  status : {"PENDING", "RETRACTED", "REJECTED"},
                  filedAt : Nat, resolvedAt : Nat \cup {NoTime}]

Payout == [base : Nat, slash : Nat, reward : Nat, treasury : Nat]

VARIABLES retractions, payouts

marketVars == vars
allVars == <<marketVars, retractions, payouts>>

RetractionTypeOK ==
    /\ TypeOK
    /\ retractions \in [DOMAIN retractions -> RetractionRow]
    /\ DOMAIN retractions \subseteq RetractionId
    /\ payouts \in [DOMAIN payouts -> Payout]
    /\ DOMAIN payouts \subseteq DOMAIN retractions

RetractionInit ==
    /\ Init
    /\ retractions = [r \in {} |-> {}]
    /\ payouts = [r \in {} |-> {}]

-----------------------------------------------------------------------------
(* Acceptance is dated by the reveal of the claim.                         *)
InWindow(c, nowMs) ==
    /\ claims[c].revealedAt # NoTime
    /\ nowMs <= claims[c].revealedAt + TRetraction

FileRetraction_NoStatusCheck(r, c, p, stake, nowMs) ==
    /\ r \notin DOMAIN retractions /\ c \in DOMAIN claims
    /\ stake >= StakeMultiplier * claims[c].stake
    /\ InWindow(c, nowMs)
    /\ retractions' = Insert(retractions, r, [claim |-> c, retractor |-> p, stake |-> stake,
                             status |-> "PENDING", filedAt |-> nowMs, resolvedAt |-> NoTime])
    /\ UNCHANGED <<marketVars, payouts>>

FileRetraction(r, c, p, stake, nowMs) ==
    /\ r \notin DOMAIN retractions
    /\ c \in DOMAIN claims
    /\ claims[c].status = "VALID"
    /\ stake >= StakeMultiplier * claims[c].stake
    /\ InWindow(c, nowMs)
    /\ retractions' = Insert(retractions, r, [claim |-> c, retractor |-> p, stake |-> stake,
                             status |-> "PENDING", filedAt |-> nowMs, resolvedAt |-> NoTime])
    /\ UNCHANGED <<marketVars, payouts>>

IsPending(r) == r \in DOMAIN retractions /\ retractions[r].status = "PENDING"

AlreadyRetracted(c) ==
    \E s \in DOMAIN retractions : retractions[s].claim = c /\ retractions[s].status = "RETRACTED"

Resolved(row, status, nowMs) == [row EXCEPT !.status = status, !.resolvedAt = nowMs]

(* The bet is moot, or the attestations are no supermajority.              *)
RejectRetraction(r, valid, total, nowMs) ==
    /\ IsPending(r)
    /\ AlreadyRetracted(retractions[r].claim) \/ ~Supermajority(valid, total)
    /\ retractions' = [retractions EXCEPT ![r] = Resolved(@, "REJECTED", nowMs)]
    /\ UNCHANGED <<marketVars, payouts>>

(* The retraction is upheld; every other one still PENDING on the claim is *)
(* rejected with it.                                                       *)
Upheld(r, nowMs) ==
    [s \in DOMAIN retractions |->
        IF s = r THEN Resolved(retractions[s], "RETRACTED", nowMs)
        ELSE IF retractions[s].claim = retractions[r].claim /\ IsPending(s)
        THEN Resolved(retractions[s], "REJECTED", nowMs)
        ELSE retractions[s]]

(* Half of the slash, rounded up, rewards the retractor.                   *)
PayoutFor_OfBase(base, slash) ==
    [base |-> base, slash |-> slash, reward |-> (base + 1) \div 2,
     treasury |-> slash - (base + 1) \div 2]

PayoutFor(base, slash) ==
    [base |-> base, slash |-> slash, reward |-> (slash + 1) \div 2,
     treasury |-> slash - (slash + 1) \div 2]

(* Since the acceptance; a retracted claim was revealed, so that filed_at  *)
(* never stands in for revealed_at.                                        *)
Elapsed(r, nowMs) ==
    LET acceptedAt == claims[retractions[r].claim].revealedAt
    IN  IF nowMs >= acceptedAt THEN nowMs - acceptedAt ELSE 0

Pay(r, base, nowMs) ==
    payouts' = Insert(payouts, r, PayoutFor(base, SlashAfter(base, Elapsed(r, nowMs))))

Uphold_NoOthers(r, valid, total, base, nowMs) ==
    /\ IsPending(r) /\ ~AlreadyRetracted(retractions[r].claim)
    /\ Supermajority(valid, total)
    /\ retractions' = [retractions EXCEPT ![r] = Resolved(@, "RETRACTED", nowMs)]
    /\ Pay(r, base, nowMs)
    /\ UNCHANGED marketVars

Uphold_NotOnce(r, valid, total, base, nowMs) ==
    /\ IsPending(r) /\ Supermajority(valid, total)
    /\ retractions' = Upheld(r, nowMs)
    /\ Pay(r, base, nowMs)
    /\ UNCHANGED marketVars

Uphold(r, valid, total, base, nowMs) ==
    /\ IsPending(r)
    /\ ~AlreadyRetracted(retractions[r].claim)
    /\ Supermajority(valid, total)
    /\ retractions' = Upheld(r, nowMs)
    /\ Pay(r, base, nowMs)
    /\ UNCHANGED marketVars

ResolveRetraction(r, valid, total, base, nowMs) ==
    RejectRetraction(r, valid, total, nowMs) \/ Uphold(r, valid, total, base, nowMs)

-----------------------------------------------------------------------------
File == \E r \in RetractionId, c \in ClaimId, p \in Account, stake \in RetractionStakes,
           nowMs \in Readings : FileRetraction(r, c, p, stake, nowMs)

(* The reward base is the option originalRewardAmount or the claim's stake.*)
Resolve ==
    \E r \in DOMAIN retractions, total \in 0..MaxVotes, nowMs \in Readings :
        \E valid \in 0..total, base \in Rewards \cup {claims[retractions[r].claim].stake} :
            ResolveRetraction(r, valid, total, base, nowMs)

RetractionNext ==
    \/ Next /\ UNCHANGED <<retractions, payouts>>
    \/ File
    \/ Resolve

RetractionSpec == RetractionInit /\ [][RetractionNext]_allVars

-----------------------------------------------------------------------------
(* An accepted proof is slashed at most once, however many retractions     *)
(* were filed against it concurrently or afterwards, and what was paid is  *)
(* backed by a retraction that stays RETRACTED.                            *)
SlashedOnce ==
    /\ \A r, s \in DOMAIN payouts : retractions[r].claim = retractions[s].claim => r = s
    /\ \A r \in DOMAIN retractions : retractions[r].status = "RETRACTED" <=> r \in DOMAIN payouts

(* Only accepted proofs are challenged, and they stay what they are while  *)
(* they are: the claim under a retraction is VALID on an accepted bounty,  *)
(* and the retraction was filed after the claim was revealed and inside    *)
(* the window (up to the lag of the filer's clock).                        *)
OnlyAcceptedChallenged ==
    \A r \in DOMAIN retractions :
        LET c == retractions[r].claim IN
        /\ c \in DOMAIN claims
        /\ claims[c].status = "VALID" /\ BountyOf(c).status = "ACCEPT"
        /\ claims[c].revealedAt <= retractions[r].filedAt + MaxLag
        /\ retractions[r].filedAt <= claims[c].revealedAt + TRetraction

(* An upheld retraction ends its rivals: resolveRetraction rejects what is *)
(* PENDING on the claim at once, so that what is pending on a retracted    *)
(* proof was filed later.  (schema.ts:165-168 leaves the rivals PENDING,   *)
(* to be resolved one by one; the code does not.)                          *)
NoRivalLeftPending ==
    \A r, s \in DOMAIN retractions :
        /\ retractions[r].status = "RETRACTED" /\ retractions[s].status = "PENDING"
        /\ retractions[r].claim = retractions[s].claim
        => retractions[s].filedAt + MaxLag >= retractions[r].resolvedAt
=============================================================================
