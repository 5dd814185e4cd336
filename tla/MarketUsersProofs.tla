------------------------- MODULE MarketUsersProofs -------------------------
(***************************************************************************)
(* Theorems about what is built on the proof market: retractions, for      *)
(* every set of claims and retractions, every stake, window and decay, and *)
(* the commands of the command line with their stash files.  Both are      *)
(* users of the market: what holds of the market holds of them.            *)
(***************************************************************************)
EXTENDS ProofRetraction, ProofCli, ProofMarketProofs

-----------------------------------------------------------------------------
(* Retractions.                                                            *)

(* What the past has in common: nothing is dated later than now.           *)
NothingLater ==
    /\ clock <= MaxTime
    /\ \A c \in DOMAIN claims : claims[c].revealedAt <= clock
    /\ \A r \in DOMAIN retractions : retractions[r].resolvedAt <= clock

RInv == RetractionTypeOK /\ NothingLater /\ OnlyAcceptedChallenged /\ SlashedOnce
            /\ NoRivalLeftPending

-----------------------------------------------------------------------------
(* To the market, a step of the composition is one of its own or none.     *)
LEMMA RetractionSteps == [RetractionNext]_allVars => [Next]_vars
BY DEF RetractionNext, File, FileRetraction, Resolve, ResolveRetraction, RejectRetraction,
       Uphold, allVars, marketVars

(* The market's invariant holds under retractions.                         *)
LEMMA RetractionMarket == RetractionSpec => []IInv
<1>1. RetractionInit => Init
  BY DEF RetractionInit
<1>2. RetractionSpec => Spec
  BY <1>1, RetractionSteps, PTL DEF RetractionSpec, Spec
<1>3. QED
  BY <1>2, Invariant, PTL

(* The market's clock stays in its bound, and its reveals in the past.     *)
LEMMA MarketPast ==
    ASSUME IInv, IInv', Next, clock <= MaxTime,
           \A c \in DOMAIN claims : claims[c].revealedAt <= clock
    PROVE  clock' <= MaxTime /\ \A c \in DOMAIN claims' : claims'[c].revealedAt <= clock'
<1> USE MarketAssumption
<1>1. /\ clock \in Nat /\ clock' \in Nat
      /\ \A c \in DOMAIN claims : claims[c].revealedAt \in Int
  BY DEF IInv, TypeOK, ClaimRow, NoTime
<1>2. CASE Tick
  BY <1>1, <1>2 DEF Tick
<1>3. CASE Post
  BY <1>3 DEF Post, PostBounty
<1>4. CASE Commit
  BY <1>1, <1>4 DEF Commit, CommitClaim, Insert, NewClaim, NoTime
<1>5. CASE Reveal
  <2>1. PICK c \in ClaimId, artifact \in Artifact, nonce \in Nonce, nowMs \in Readings :
            RevealClaim(c, artifact, nonce, nowMs)
    BY <1>5 DEF Reveal
  <2>2. Revealed(claims[c], artifact, nowMs).revealedAt = nowMs
    BY <2>1, RevealedRow DEF RevealClaim, IInv, TypeOK
  <2>3. /\ DOMAIN claims' = DOMAIN claims /\ clock' = clock
        /\ \A x \in DOMAIN claims : claims'[x].revealedAt \in {claims[x].revealedAt, nowMs}
    BY <2>1, <2>2 DEF RevealClaim, IInv, TypeOK
  <2>4. nowMs <= clock
    BY <1>1 DEF Readings
  <2>5. QED
    BY <2>3, <2>4
<1>6. ASSUME NEW b, NEW tReveal, NEW nowMs, OpenReveal(b, tReveal, nowMs)
      PROVE  claims' = claims /\ clock' = clock
  BY <1>6 DEF OpenReveal
<1>7. ASSUME NEW b, NEW from, NEW to, claims' = MoveClaims(b, from, to), clock' = clock
      PROVE  clock' <= MaxTime /\ \A c \in DOMAIN claims' : claims'[c].revealedAt <= clock'
  <2>1. \A c \in DOMAIN claims : claims'[c].revealedAt = claims[c].revealedAt
    BY <1>7, MovedRow DEF IInv
  <2>2. DOMAIN claims' = DOMAIN claims
    BY <1>7 DEF MoveClaims
  <2>3. QED
    BY <1>7, <2>1, <2>2
<1>8. ASSUME NEW b \in BountyId, Transition(b) \/ Finalize(b)
      PROVE  \/ claims' = claims /\ clock' = clock
             \/ \E from, to : claims' = MoveClaims(b, from, to) /\ clock' = clock
  BY <1>8 DEF Transition, TransitionBounty, OpenReveal, CloseReveal, Finalize, FinalizeBounty,
              Decide, vars
<1>9. QED
  BY <1>2, <1>3, <1>4, <1>5, <1>7, <1>8 DEF Next

(* A step of the market disturbs no retraction: the claims they challenge  *)
(* are decided.                                                            *)
LEMMA MarketKeeps ==
    ASSUME IInv, IInv', RInv, Next, UNCHANGED <<retractions, payouts>>
    PROVE  RInv'
<1>1. RetractionTypeOK'
  BY DEF RInv, RetractionTypeOK, IInv
<1>2. NothingLater'
  <2>1. clock <= clock' /\ clock \in Nat /\ clock' \in Nat
    <3>1. clock' \in {clock, clock + 1}
      <4>1. CASE Tick \/ Post \/ Commit \/ Reveal
        BY <4>1 DEF Tick, Post, PostBounty, Commit, CommitClaim, Reveal, RevealClaim
      <4>2. ASSUME NEW b, Transition(b) PROVE clock' = clock
        BY <4>2 DEF Transition, TransitionBounty, OpenReveal, CloseReveal, vars
      <4>3. ASSUME NEW b, Finalize(b) PROVE clock' = clock
        BY <4>3 DEF Finalize, FinalizeBounty, Decide
      <4>4. QED
        BY <4>1, <4>2, <4>3 DEF Next
    <3>2. QED
      BY <3>1 DEF IInv, TypeOK
  <2>2. \A r \in DOMAIN retractions : retractions[r].resolvedAt \in Int
    BY DEF RInv, RetractionTypeOK, RetractionRow, NoTime
  <2>3. QED
    BY <2>1, <2>2, MarketPast DEF RInv, NothingLater
<1>3. OnlyAcceptedChallenged'
  <2>1. [DecisionsKept]_vars
    BY DecisionsStep
  <2>2. ASSUME NEW r \in DOMAIN retractions
        PROVE  LET c == retractions[r].claim IN
               c \in DOMAIN claims' /\ claims'[c] = claims[c]
    BY <2>1 DEF DecisionsKept, vars, RInv, OnlyAcceptedChallenged
  <2>3. ASSUME NEW r \in DOMAIN retractions
        PROVE  BountyOf(retractions[r].claim)'.status = "ACCEPT"
    BY <2>2 DEF RInv, OnlyAcceptedChallenged, IInv, TablesAgree, ClaimsFollowBounty
  <2>4. QED
    BY <2>2, <2>3 DEF RInv, OnlyAcceptedChallenged
<1>4. SlashedOnce' /\ NoRivalLeftPending'
  BY DEF RInv, SlashedOnce, NoRivalLeftPending
<1>5. QED
  BY <1>1, <1>2, <1>3, <1>4 DEF RInv

(* Filing adds a PENDING retraction on an accepted claim.                  *)
LEMMA FileKeeps ==
    ASSUME IInv, IInv', RInv, NEW r \in RetractionId, NEW c \in ClaimId, NEW p \in Account,
           NEW stake \in RetractionStakes, NEW nowMs \in Readings,
           FileRetraction(r, c, p, stake, nowMs)
    PROVE  RInv'
<1> DEFINE new == [claim |-> c, retractor |-> p, stake |-> stake,
                   status |-> "PENDING", filedAt |-> nowMs, resolvedAt |-> NoTime]
<1>1. /\ r \notin DOMAIN retractions /\ DOMAIN retractions' = DOMAIN retractions \cup {r}
      /\ retractions'[r] = new
      /\ \A x \in DOMAIN retractions : retractions'[x] = retractions[x]
      /\ c \in DOMAIN claims /\ claims[c].status = "VALID" /\ InWindow(c, nowMs)
      /\ UNCHANGED <<clock, bounties, claims, attestations, payouts>>
  BY DEF FileRetraction, Insert, marketVars, vars
<1>2. /\ new.claim = c /\ new.status = "PENDING" /\ new.filedAt = nowMs
      /\ new.resolvedAt = NoTime /\ new \in RetractionRow
      /\ nowMs \in Nat /\ nowMs <= clock /\ clock <= nowMs + MaxLag
  BY MarketAssumption DEF RetractionRow, Readings, IInv, TypeOK
<1> HIDE DEF new
<1>3. RetractionTypeOK'
  <2>1. retractions' = [x \in DOMAIN retractions \cup {r} |->
                            IF x = r THEN new ELSE retractions[x]]
    BY DEF FileRetraction, Insert, new
  <2>2. retractions' \in [DOMAIN retractions' -> RetractionRow]
    BY <1>2, <2>1 DEF RInv, RetractionTypeOK
  <2>3. QED
    BY <1>1, <2>2 DEF RInv, RetractionTypeOK, IInv
<1>4. NothingLater'
  BY <1>1, <1>2 DEF RInv, NothingLater, NoTime, IInv, TypeOK
<1>5. OnlyAcceptedChallenged'
  <2>1. /\ BountyOf(c).status = "ACCEPT"
        /\ claims[c].revealedAt <= clock /\ claims[c].revealedAt \in Nat
    BY <1>1 DEF IInv, TablesAgree, ClaimsFollowBounty, RInv, NothingLater, InWindow, TypeOK,
                ClaimRow
  <2>2. claims[c].revealedAt <= nowMs + MaxLag /\ nowMs <= claims[c].revealedAt + TRetraction
    BY <1>1, <1>2, <2>1, MarketAssumption DEF InWindow, IInv, TypeOK
  <2>3. QED
    BY <1>1, <1>2, <2>1, <2>2 DEF RInv, OnlyAcceptedChallenged, BountyOf
<1>6. SlashedOnce'
  BY <1>1, <1>2 DEF RInv, SlashedOnce, RetractionTypeOK
<1>7. NoRivalLeftPending'
  <2>1. ASSUME NEW s \in DOMAIN retractions
        PROVE  retractions[s].resolvedAt <= nowMs + MaxLag
    <3>1. retractions[s].resolvedAt <= clock /\ retractions[s].resolvedAt \in Int
      BY DEF RInv, NothingLater, RetractionTypeOK, RetractionRow, NoTime
    <3>2. QED
      BY <1>2, <3>1, MarketAssumption DEF IInv, TypeOK
  <2>2. QED
    BY <1>1, <1>2, <2>1 DEF RInv, NoRivalLeftPending
<1>8. QED
  BY <1>3, <1>4, <1>5, <1>6, <1>7 DEF RInv

(* What a resolution makes of a row.                                       *)
LEMMA ResolvedRow ==
    ASSUME NEW row \in RetractionRow, NEW status \in {"RETRACTED", "REJECTED"}, NEW t \in Nat
    PROVE  LET new == Resolved(row, status, t) IN
           /\ new \in RetractionRow
           /\ new.claim = row.claim /\ new.filedAt = row.filedAt
           /\ new.status = status /\ new.resolvedAt = t
BY DEF Resolved, RetractionRow

(* A resolution changes the status and the date of PENDING rows only.      *)
LEMMA ResolutionKeeps ==
    ASSUME IInv, IInv', RInv, NEW nowMs \in Readings, UNCHANGED marketVars,
           retractions' \in [DOMAIN retractions -> RetractionRow],
           \A s \in DOMAIN retractions :
                \/ retractions'[s] = retractions[s]
                \/ /\ retractions[s].status = "PENDING" /\ retractions'[s].status # "PENDING"
                   /\ retractions'[s].claim = retractions[s].claim
                   /\ retractions'[s].filedAt = retractions[s].filedAt
                   /\ retractions'[s].resolvedAt = nowMs
    PROVE  NothingLater' /\ OnlyAcceptedChallenged'
<1>1. nowMs <= clock /\ UNCHANGED <<clock, bounties, claims>>
  BY DEF Readings, IInv, TypeOK, marketVars, vars
<1>2. NothingLater'
  BY <1>1 DEF RInv, NothingLater
<1>3. OnlyAcceptedChallenged'
  BY <1>1 DEF RInv, OnlyAcceptedChallenged, BountyOf
<1>4. QED
  BY <1>2, <1>3

(* Rejecting one retraction pays nothing.                                  *)
LEMMA RejectKeeps ==
    ASSUME IInv, IInv', RInv, NEW r, NEW valid, NEW total, NEW nowMs \in Readings,
           RejectRetraction(r, valid, total, nowMs)
    PROVE  RInv'
<1> DEFINE new == Resolved(retractions[r], "REJECTED", nowMs)
<1>1. /\ r \in DOMAIN retractions /\ retractions[r].status = "PENDING"
      /\ retractions' = [retractions EXCEPT ![r] = new]
      /\ payouts' = payouts /\ UNCHANGED marketVars
  BY DEF RejectRetraction, IsPending
<1>2. /\ new \in RetractionRow /\ new.claim = retractions[r].claim
      /\ new.filedAt = retractions[r].filedAt /\ new.status = "REJECTED"
      /\ new.resolvedAt = nowMs
  <2>1. retractions[r] \in RetractionRow /\ nowMs \in Nat
    BY <1>1 DEF RInv, RetractionTypeOK, Readings, IInv, TypeOK
  <2>2. QED
    BY <2>1, ResolvedRow
<1> HIDE DEF new
<1>3. /\ retractions' \in [DOMAIN retractions -> RetractionRow]
      /\ retractions'[r] = new
      /\ \A s \in DOMAIN retractions : s # r => retractions'[s] = retractions[s]
  BY <1>1, <1>2 DEF RInv, RetractionTypeOK
<1>4. RetractionTypeOK'
  BY <1>1, <1>3 DEF RInv, RetractionTypeOK, IInv
<1>5. NothingLater' /\ OnlyAcceptedChallenged'
  BY <1>1, <1>2, <1>3, ResolutionKeeps
<1>6. SlashedOnce' /\ NoRivalLeftPending'
  BY <1>1, <1>2, <1>3 DEF RInv, SlashedOnce, NoRivalLeftPending, RetractionTypeOK
<1>7. QED
  BY <1>4, <1>5, <1>6 DEF RInv

(* What is paid for a retraction is made of natural amounts.               *)
LEMMA PayoutTyped ==
    ASSUME NEW base \in Nat, NEW slash \in 0..base
    PROVE  PayoutFor(base, slash) \in Payout
<1>1. (slash + 1) \div 2 \in Nat /\ (slash + 1) \div 2 <= slash
  OBVIOUS
<1>2. QED
  BY <1>1 DEF PayoutFor, Payout

(* Upholding one retraction pays once and leaves none PENDING on the claim.*)
LEMMA UpholdKeeps ==
    ASSUME IInv, IInv', RInv, NEW r, NEW valid, NEW total, NEW nowMs \in Readings,
           NEW base \in Rewards \cup {claims[retractions[r].claim].stake},
           Uphold(r, valid, total, base, nowMs)
    PROVE  RInv'
<1> DEFINE c == retractions[r].claim
           paid == PayoutFor(base, SlashAfter(base, Elapsed(r, nowMs)))
<1>1. /\ r \in DOMAIN retractions /\ retractions[r].status = "PENDING"
      /\ ~AlreadyRetracted(c) /\ retractions' = Upheld(r, nowMs)
      /\ payouts' = Insert(payouts, r, paid) /\ UNCHANGED marketVars
  BY DEF Uphold, Pay, IsPending
<1>2. nowMs \in Nat /\ nowMs <= clock /\ clock <= MaxTime /\ clock \in Nat
  BY DEF Readings, IInv, TypeOK, RInv, NothingLater
<1>3. ASSUME NEW s \in DOMAIN retractions
      PROVE  /\ retractions'[s] \in RetractionRow
             /\ retractions'[s].claim = retractions[s].claim
             /\ retractions'[s].filedAt = retractions[s].filedAt
             /\ s = r => retractions'[s].status = "RETRACTED"
             /\ s # r /\ retractions[s].claim = c /\ retractions[s].status = "PENDING"
                    => retractions'[s].status = "REJECTED"
             /\ s # r /\ ~(retractions[s].claim = c /\ retractions[s].status = "PENDING")
                    => retractions'[s] = retractions[s]
             /\ retractions'[s] # retractions[s] => retractions'[s].resolvedAt = nowMs
  <2>1. retractions[s] \in RetractionRow
    BY DEF RInv, RetractionTypeOK
  <2>2. retractions'[s] = IF s = r THEN Resolved(retractions[s], "RETRACTED", nowMs)
                          ELSE IF retractions[s].claim = c /\ retractions[s].status = "PENDING"
                          THEN Resolved(retractions[s], "REJECTED", nowMs)
                          ELSE retractions[s]
    BY <1>1 DEF Upheld, IsPending
  <2>3. CASE s = r
    <3> DEFINE new == Resolved(retractions[s], "RETRACTED", nowMs)
    <3>1. /\ new \in RetractionRow /\ new.claim = retractions[s].claim
          /\ new.filedAt = retractions[s].filedAt
          /\ new.status = "RETRACTED" /\ new.resolvedAt = nowMs
      BY <1>2, <2>1, ResolvedRow
    <3>2. retractions'[s] = new
      BY <2>2, <2>3
    <3> HIDE DEF new
    <3>3. QED
      BY <2>3, <3>1, <3>2
  <2>4. CASE s # r /\ retractions[s].claim = c /\ retractions[s].status = "PENDING"
    <3> DEFINE new == Resolved(retractions[s], "REJECTED", nowMs)
    <3>1. /\ new \in RetractionRow /\ new.claim = retractions[s].claim
          /\ new.filedAt = retractions[s].filedAt
          /\ new.status = "REJECTED" /\ new.resolvedAt = nowMs
      BY <1>2, <2>1, ResolvedRow
    <3>2. retractions'[s] = new
      BY <2>2, <2>4
    <3> HIDE DEF new
    <3>3. QED
      BY <2>4, <3>1, <3>2
  <2>5. CASE s # r /\ ~(retractions[s].claim = c /\ retractions[s].status = "PENDING")
    <3>1. retractions'[s] = retractions[s]
      BY <2>2, <2>5
    <3>2. QED
      BY <2>1, <2>5, <3>1
  <2>6. QED
    BY <2>3, <2>4, <2>5
<1>4. DOMAIN retractions' = DOMAIN retractions
  BY <1>1 DEF Upheld
<1>5. retractions' \in [DOMAIN retractions -> RetractionRow]
  BY <1>1, <1>3 DEF Upheld
<1>6. paid \in Payout
  <2>1. c \in DOMAIN claims /\ claims[c].revealedAt \in Nat \cup {NoTime}
        /\ claims[c].stake \in Stakes
    BY <1>1 DEF RInv, OnlyAcceptedChallenged, IInv, TypeOK, ClaimRow
  <2>2. claims[c].revealedAt # NoTime
    BY <1>1, <2>1 DEF RInv, OnlyAcceptedChallenged, IInv, TablesAgree, RevealedRows
  <2>3. Elapsed(r, nowMs) \in 0..MaxTime
    BY <1>2, <2>1, <2>2, MarketAssumption DEF Elapsed
  <2>4. base \in Stakes \cup Rewards /\ base \in Nat
    BY <2>1, MarketAssumption, RetractionAssumption
  <2>5. SlashAfter(base, Elapsed(r, nowMs)) \in 0..base
    BY <2>3, <2>4, RetractionAssumption
  <2>6. QED
    BY <2>4, <2>5, PayoutTyped
<1> HIDE DEF paid
<1>7. /\ DOMAIN payouts' = DOMAIN payouts \cup {r}
      /\ payouts' \in [DOMAIN payouts' -> Payout]
  BY <1>1, <1>6 DEF Insert, RInv, RetractionTypeOK
<1>8. RetractionTypeOK'
  BY <1>1, <1>4, <1>5, <1>7 DEF RInv, RetractionTypeOK, IInv
<1>9. NothingLater' /\ OnlyAcceptedChallenged'
  <2>1. \A s \in DOMAIN retractions :
            \/ retractions'[s] = retractions[s]
            \/ /\ retractions[s].status = "PENDING" /\ retractions'[s].status # "PENDING"
               /\ retractions'[s].claim = retractions[s].claim
               /\ retractions'[s].filedAt = retractions[s].filedAt
               /\ retractions'[s].resolvedAt = nowMs
    BY <1>1, <1>3
  <2>2. QED
    BY <1>1, <1>5, <2>1, ResolutionKeeps
<1>10. SlashedOnce'
  <2>1. \A s \in DOMAIN retractions :
            retractions'[s].status = "RETRACTED" <=> s = r \/ retractions[s].status = "RETRACTED"
    BY <1>1, <1>3
  <2>2. \A s \in DOMAIN payouts : s \in DOMAIN retractions /\ retractions[s].claim # c
    BY <1>1 DEF RInv, SlashedOnce, RetractionTypeOK, AlreadyRetracted
  <2>3. QED
    BY <1>1, <1>3, <1>4, <1>7, <2>1, <2>2 DEF RInv, SlashedOnce
<1>11. NoRivalLeftPending'
  <2>1. ASSUME NEW s \in DOMAIN retractions, NEW t \in DOMAIN retractions,
               retractions'[s].status = "RETRACTED", retractions'[t].status = "PENDING",
               retractions'[s].claim = retractions'[t].claim
        PROVE  retractions'[t].filedAt + MaxLag >= retractions'[s].resolvedAt
    <3>1. t # r /\ retractions[t].claim # c /\ retractions'[t] = retractions[t]
      BY <1>3, <2>1
    <3>2. s # r /\ retractions'[s] = retractions[s]
      BY <1>3, <2>1, <3>1
    <3>3. QED
      BY <2>1, <3>1, <3>2 DEF RInv, NoRivalLeftPending
  <2>2. QED
    BY <1>4, <2>1 DEF NoRivalLeftPending
<1>12. QED
  BY <1>8, <1>9, <1>10, <1>11 DEF RInv

(* Every step keeps the invariant of the retractions.                      *)
LEMMA RInvStep == IInv /\ IInv' /\ RInv /\ [RetractionNext]_allVars => RInv'
<1> SUFFICES ASSUME IInv, IInv', RInv, [RetractionNext]_allVars PROVE RInv'
  OBVIOUS
<1>1. CASE Next /\ UNCHANGED <<retractions, payouts>>
  BY <1>1, MarketKeeps
<1>2. CASE File
  BY <1>2, FileKeeps DEF File
<1>3. CASE Resolve
  BY <1>3, RejectKeeps, UpholdKeeps DEF Resolve, ResolveRetraction
<1>4. CASE UNCHANGED allVars
  <2>1. UNCHANGED <<clock, bounties, claims, attestations, retractions, payouts>>
    BY <1>4 DEF allVars, marketVars, vars
  <2>2. RetractionTypeOK' /\ NothingLater'
    BY <2>1 DEF RInv, RetractionTypeOK, NothingLater, IInv
  <2>3. OnlyAcceptedChallenged' /\ SlashedOnce' /\ NoRivalLeftPending'
    BY <2>1 DEF RInv, OnlyAcceptedChallenged, SlashedOnce, NoRivalLeftPending, BountyOf
  <2>4. QED
    BY <2>2, <2>3 DEF RInv
<1>5. QED
  BY <1>1, <1>2, <1>3, <1>4 DEF RetractionNext

(* The invariant of the retractions holds in every reachable state.        *)
LEMMA RetractionInvariant == RetractionSpec => []RInv
<1>1. RetractionInit => RInv
  BY MarketAssumption
     DEF RetractionInit, Init, RInv, RetractionTypeOK, TypeOK, NothingLater,
         OnlyAcceptedChallenged, SlashedOnce, NoRivalLeftPending
<1>2. QED
  BY <1>1, RInvStep, RetractionMarket, PTL DEF RetractionSpec

(* Retractions and their payouts keep their shape, and resolveRetraction   *)
(* pays out only what fileRetraction filed.                                *)
THEOREM RetractionTypeCorrect == RetractionSpec => []RetractionTypeOK
<1>1. RInv => RetractionTypeOK
  BY DEF RInv
<1>2. QED
  BY <1>1, RetractionInvariant, PTL

-----------------------------------------------------------------------------
(* No accepted proof is slashed twice, whatever is filed against it.       *)
THEOREM NeverSlashedTwice == RetractionSpec => []SlashedOnce
<1>1. RInv => SlashedOnce
  BY DEF RInv
<1>2. QED
  BY <1>1, RetractionInvariant, PTL

(* What is challenged is, and stays, an accepted proof; it is challenged   *)
(* inside its window.                                                      *)
THEOREM ChallengesAccepted == RetractionSpec => []OnlyAcceptedChallenged
<1>1. RInv => OnlyAcceptedChallenged
  BY DEF RInv
<1>2. QED
  BY <1>1, RetractionInvariant, PTL

(* A retraction leaves no earlier rival pending.                           *)
THEOREM RivalsResolved == RetractionSpec => []NoRivalLeftPending
<1>1. RInv => NoRivalLeftPending
  BY DEF RInv
<1>2. QED
  BY <1>1, RetractionInvariant, PTL

(* The market under retractions is still the market.                       *)
THEOREM MarketUndisturbed == RetractionSpec => Spec
<1>1. RetractionInit => Init
  BY DEF RetractionInit
<1>2. QED
  BY <1>1, RetractionSteps, PTL DEF RetractionSpec, Spec

-----------------------------------------------------------------------------
(* Commands and their stash files.                                         *)

Writing(k) == run[k].phase \in {"stash", "write"}
Busy(k) == run[k] # Idle

(* A command works on a claim of its user, with the secret of its commit.  *)
SecretsOpen ==
    \A k \in Command : Busy(k) =>
        /\ run[k].claim \in DOMAIN claims
        /\ claims[run[k].claim].claimant = UserOf[k]
        /\ Opens(run[k].claim, run[k].secret.artifact, run[k].secret.nonce)

(* Until a commit command has written the stash nobody can have read it.   *)
WritersAlone ==
    \A k \in Command : Writing(k) =>
        /\ claims[run[k].claim].artifact = NoArtifact
        /\ \A p \in Account : ~Holds(p, run[k].claim)
        /\ \A j \in Command : Busy(j) /\ run[j].claim = run[k].claim => j = k

(* A stash is deleted only after the reveal.                               *)
DeletesAreLate ==
    \A k \in Command : run[k].phase = "delete" => claims[run[k].claim].artifact # NoArtifact

StashInv ==
    /\ StashOpensClaim /\ UnrevealedKeepsStash /\ RevealedIsCleanedUp
    /\ SecretsOpen /\ WritersAlone /\ DeletesAreLate

CliInv == CliTypeOK /\ StashInv

-----------------------------------------------------------------------------
(* Every step of a command is a step of the market, or none of it.         *)
LEMMA MarketSteps == CliTypeOK /\ [CliNext]_cliVars => [Next]_vars
<1> SUFFICES ASSUME CliTypeOK, [CliNext]_cliVars PROVE [Next]_vars
  OBVIOUS
<1> USE CommandAssumption
<1>1. CASE MarketStep(Tick) \/ MarketStep(Post)
  BY <1>1 DEF MarketStep, Next
<1>2. ASSUME NEW b \in BountyId, MarketStep(Transition(b)) \/ MarketStep(Finalize(b))
      PROVE  Next
  BY <1>2 DEF MarketStep, Next
<1>3. ASSUME NEW k \in Command, Commits(k) PROVE Next
  <2>1. PICK b \in BountyId, c \in ClaimId, secret \in Secret, stake \in Stakes, nowMs \in Readings :
            StartCommit(k, b, c, secret, stake, nowMs)
    BY <1>3 DEF Commits
  <2>2. CommitHash(k, secret) \in Submittable(UserOf[k])
    BY <2>1 DEF StartCommit, CommitHash, Submittable, Secret
  <2>3. Commit
    BY <2>1, <2>2 DEF StartCommit, Commit
  <2>4. QED
    BY <2>3 DEF Next
<1>4. ASSUME NEW k \in Command, NEW nowMs \in Readings, RevealStep(k, nowMs) PROVE Next
  <2>1. run[k].claim \in ClaimId /\ run[k].secret \in Secret
    BY <1>4 DEF RevealStep, CliTypeOK, Run, Idle
  <2>2. Reveal
    BY <1>4, <2>1 DEF RevealStep, Reveal, Secret
  <2>3. QED
    BY <2>2 DEF Next
<1>5. ASSUME NEW k \in Command,
             \/ CreateStash(k) \/ WriteStash(k) \/ RevealFails(k) \/ DeleteStash(k) \/ CutShort(k)
             \/ \E c \in ClaimId : ReadStash(k, c)
      PROVE  UNCHANGED vars
  BY <1>5 DEF CreateStash, WriteStash, RevealFails, DeleteStash, CutShort, ReadStash
<1>6. CASE UNCHANGED cliVars
  BY <1>6 DEF cliVars, vars
<1>7. QED
  BY <1>1, <1>2, <1>3, <1>4, <1>5, <1>6 DEF CliNext, CommandStep

(* The files and the running commands have their types after every step.  *)
LEMMA CliTypeStep == CliTypeOK /\ [CliNext]_cliVars => CliTypeOK'
<1> SUFFICES ASSUME CliTypeOK, [CliNext]_cliVars PROVE CliTypeOK'
  OBVIOUS
<1> USE CommandAssumption
<1> DEFINE FilesTyped == /\ DOMAIN stash = Account
                         /\ \A p \in Account :
                              /\ stash[p] \in [DOMAIN stash[p] -> Secret \cup {Truncated}]
                              /\ DOMAIN stash[p] \subseteq ClaimId
<1>1. TypeOK'
  BY MarketSteps, TypeStep DEF CliTypeOK
<1>2. SUFFICES run' \in [Command -> Run] /\ FilesTyped' /\ (broken \subseteq {"commit", "reveal"} \X ClaimId)'
  BY <1>1 DEF CliTypeOK
<1>3. ASSUME UNCHANGED <<run, files>>
      PROVE  run' \in [Command -> Run] /\ FilesTyped' /\ (broken \subseteq {"commit", "reveal"} \X ClaimId)'
  BY <1>3 DEF files, CliTypeOK
<1>4. ASSUME NEW k \in Command, Busy(k)
      PROVE  run[k].claim \in ClaimId /\ run[k].secret \in Secret /\ UserOf[k] \in Account
  BY <1>4 DEF Busy, CliTypeOK, Run
<1>5. ASSUME NEW k \in Command, NEW phase \in Phase, NEW c \in ClaimId, NEW secret \in Secret,
             Working(k, phase, c, secret)
      PROVE  run' \in [Command -> Run]
  BY <1>5 DEF Working, CliTypeOK, Run
<1>6. ASSUME NEW k \in Command, Ends(k) PROVE run' \in [Command -> Run]
  BY <1>6 DEF Ends, CliTypeOK, Run
<1>7. ASSUME NEW p \in Account, NEW c \in ClaimId, NEW content \in Secret \cup {Truncated},
             Write(p, c, content)
      PROVE  FilesTyped'
  <2>1. /\ stash[p] \in [DOMAIN stash[p] -> Secret \cup {Truncated}] /\ DOMAIN stash[p] \subseteq ClaimId
        /\ DOMAIN stash = Account
    BY DEF CliTypeOK
  <2>2. /\ Insert(stash[p], c, content) \in [DOMAIN stash[p] \cup {c} -> Secret \cup {Truncated}]
        /\ DOMAIN Insert(stash[p], c, content) = DOMAIN stash[p] \cup {c}
    BY <2>1 DEF Insert
  <2>3. /\ DOMAIN stash' = Account /\ stash'[p] = Insert(stash[p], c, content)
        /\ \A q \in Account : q # p => stash'[q] = stash[q]
    BY <1>7, <2>1 DEF Write
  <2>4. QED
    BY <2>1, <2>2, <2>3 DEF CliTypeOK
<1>8. ASSUME NEW k \in Command, Commits(k)
      PROVE  run' \in [Command -> Run] /\ FilesTyped' /\ (broken \subseteq {"commit", "reveal"} \X ClaimId)'
  BY <1>8, <1>5 DEF Commits, StartCommit, files, CliTypeOK, Phase
<1>9. ASSUME NEW k \in Command, CreateStash(k)
      PROVE  run' \in [Command -> Run] /\ FilesTyped' /\ (broken \subseteq {"commit", "reveal"} \X ClaimId)'
  <2>1. Busy(k)
    BY <1>9 DEF CreateStash, Busy, Idle
  <2>2. FilesTyped'
    BY <1>9, <2>1, <1>4, <1>7 DEF CreateStash
  <2>3. run' \in [Command -> Run]
    BY <1>9, <2>1, <1>4, <1>5 DEF CreateStash, Phase
  <2>4. QED
    BY <1>9, <2>2, <2>3 DEF CreateStash, CliTypeOK
<1>10. ASSUME NEW k \in Command, WriteStash(k)
       PROVE  run' \in [Command -> Run] /\ FilesTyped' /\ (broken \subseteq {"commit", "reveal"} \X ClaimId)'
  <2>1. Busy(k)
    BY <1>10 DEF WriteStash, Busy, Idle
  <2>2. FilesTyped'
    BY <1>10, <2>1, <1>4, <1>7 DEF WriteStash
  <2>3. QED
    BY <1>10, <2>2, <1>6 DEF WriteStash, CliTypeOK
<1>11. ASSUME NEW k \in Command, NEW c \in ClaimId, ReadStash(k, c)
       PROVE  run' \in [Command -> Run] /\ FilesTyped' /\ (broken \subseteq {"commit", "reveal"} \X ClaimId)'
  <2>1. stash[UserOf[k]][c] \in Secret
    BY <1>11 DEF ReadStash, Holds, CliTypeOK
  <2>2. run' \in [Command -> Run]
    BY <1>11, <2>1, <1>5 DEF ReadStash, Phase
  <2>3. QED
    BY <1>11, <2>2 DEF ReadStash, files, CliTypeOK
<1>12. ASSUME NEW k \in Command, RevealFails(k)
       PROVE  run' \in [Command -> Run] /\ FilesTyped' /\ (broken \subseteq {"commit", "reveal"} \X ClaimId)'
  BY <1>12, <1>6 DEF RevealFails, files, CliTypeOK
<1>13. ASSUME NEW k \in Command, NEW nowMs \in Readings, RevealStep(k, nowMs)
       PROVE  run' \in [Command -> Run] /\ FilesTyped' /\ (broken \subseteq {"commit", "reveal"} \X ClaimId)'
  <2>1. Busy(k)
    BY <1>13 DEF RevealStep, Busy, Idle
  <2>2. run' \in [Command -> Run]
    BY <1>13, <2>1, <1>4, <1>5 DEF RevealStep, Phase
  <2>3. QED
    BY <1>13, <2>2 DEF RevealStep, files, CliTypeOK
<1>14. ASSUME NEW k \in Command, DeleteStash(k)
       PROVE  run' \in [Command -> Run] /\ FilesTyped' /\ (broken \subseteq {"commit", "reveal"} \X ClaimId)'
  <2>1. UserOf[k] \in Account
    OBVIOUS
  <2>2. FilesTyped'
    BY <1>14, <2>1 DEF DeleteStash, Restrict, CliTypeOK
  <2>3. QED
    BY <1>14, <2>2, <1>6 DEF DeleteStash, CliTypeOK
<1>15. ASSUME NEW k \in Command, CutShort(k)
       PROVE  run' \in [Command -> Run] /\ FilesTyped' /\ (broken \subseteq {"commit", "reveal"} \X ClaimId)'
  <2>1. Busy(k)
    BY <1>15 DEF CutShort, Busy, Idle
  <2>2. broken' \subseteq {"commit", "reveal"} \X ClaimId
    BY <1>15, <2>1, <1>4 DEF CutShort, CliTypeOK
  <2>3. QED
    BY <1>15, <2>2, <1>6 DEF CutShort, CliTypeOK
<1>16. QED
  BY <1>3, <1>8, <1>9, <1>10, <1>11, <1>12, <1>13, <1>14, <1>15
     DEF CliNext, CommandStep, MarketStep, cliVars, files

(* Files, commands and tables keep their types.                            *)
THEOREM CliTypeCorrect == CliSpec => []CliTypeOK
<1>1. CliInit => CliTypeOK
  BY CommandAssumption DEF CliInit, Init, TypeOK, CliTypeOK, Run
<1>2. QED
  BY <1>1, CliTypeStep, PTL DEF CliSpec

(* The commands implement the market's specification.                      *)
THEOREM ImplementsMarket == CliSpec => Spec
<1>1. CliInit => Init
  BY DEF CliInit
<1>2. CliSpec => []CliTypeOK
  BY CliTypeCorrect
<1>3. QED
  BY <1>1, <1>2, MarketSteps, PTL DEF CliSpec, Spec

-----------------------------------------------------------------------------
(* What a stash and a command rely on: the claims there are, their         *)
(* claimants and commitments.                                              *)
KeepsClaims ==
    \A c \in DOMAIN claims :
        /\ c \in DOMAIN claims'
        /\ claims'[c].claimant = claims[c].claimant /\ claims'[c].commit = claims[c].commit

KeepsArtifacts ==
    /\ DOMAIN claims' = DOMAIN claims
    /\ \A c \in DOMAIN claims : claims'[c].artifact = claims[c].artifact

LEMMA MovesKeep ==
    ASSUME TypeOK, NEW b, NEW from, NEW to, claims' = MoveClaims(b, from, to)
    PROVE  KeepsClaims /\ KeepsArtifacts
<1>1. DOMAIN claims' = DOMAIN claims
  BY DEF MoveClaims
<1>2. QED
  BY <1>1, MovedRow DEF KeepsClaims, KeepsArtifacts

(* The daemon, the requesters and the clock keep all of it.                *)
LEMMA DaemonKeeps ==
    ASSUME TypeOK,
           \/ Tick \/ Post \/ UNCHANGED vars
           \/ \E b \in BountyId : Transition(b) \/ Finalize(b)
    PROVE  KeepsClaims /\ KeepsArtifacts
<1>1. CASE Tick \/ Post \/ UNCHANGED vars
  BY <1>1 DEF Tick, Post, PostBounty, vars, KeepsClaims, KeepsArtifacts
<1>2. ASSUME NEW b \in BountyId, Transition(b) PROVE KeepsClaims /\ KeepsArtifacts
  <2>1. PICK tReveal \in MinTReveal..MaxTReveal, nowMs \in Readings :
            TransitionBounty(b, tReveal, nowMs)
    BY <1>2 DEF Transition
  <2>2. CASE CloseReveal(b, nowMs)
    BY <2>2, MovesKeep DEF CloseReveal
  <2>3. CASE ~CloseReveal(b, nowMs)
    BY <2>1, <2>3 DEF TransitionBounty, OpenReveal, vars, KeepsClaims, KeepsArtifacts
  <2>4. QED
    BY <2>2, <2>3
<1>3. ASSUME NEW b \in BountyId, Finalize(b) PROVE KeepsClaims /\ KeepsArtifacts
  BY <1>3, MovesKeep DEF Finalize, FinalizeBounty, Decide
<1>4. QED
  BY <1>1, <1>2, <1>3

(* A reveal: the claim's artifact is set, and nothing else changes.        *)
LEMMA RevealKeepsClaims ==
    ASSUME TypeOK, NEW k \in Command, NEW nowMs, RevealStep(k, nowMs),
           run[k].secret.artifact \in Artifact
    PROVE  /\ DOMAIN claims' = DOMAIN claims /\ run[k].claim \in DOMAIN claims
           /\ \A c \in DOMAIN claims : c # run[k].claim => claims'[c] = claims[c]
           /\ claims'[run[k].claim].artifact # NoArtifact
           /\ KeepsClaims
<1> DEFINE c == run[k].claim
<1>1. /\ c \in DOMAIN claims
      /\ claims' = [claims EXCEPT ![c] = Revealed(@, run[k].secret.artifact, nowMs)]
  BY DEF RevealStep, RevealClaim
<1>2. claims[c] \in ClaimRow
  BY <1>1 DEF TypeOK
<1>3. LET row == Revealed(claims[c], run[k].secret.artifact, nowMs)
      IN  /\ row.claimant = claims[c].claimant /\ row.commit = claims[c].commit
          /\ row.artifact = run[k].secret.artifact
  BY <1>2, RevealedRow
<1>4. run[k].secret.artifact # NoArtifact
  BY MarketAssumption
<1> HIDE DEF c
<1>5. DOMAIN claims' = DOMAIN claims /\ \A d \in DOMAIN claims : d # c => claims'[d] = claims[d]
  BY <1>1
<1>6. claims'[c] = Revealed(claims[c], run[k].secret.artifact, nowMs)
  BY <1>1
<1>7. QED
  BY <1>1, <1>3, <1>4, <1>5, <1>6 DEF KeepsClaims, c
-----------------------------------------------------------------------------
(* Steps that keep the files and what they rely on.                        *)
LEMMA QuietKeeps ==
    ASSUME CliInv, CliTypeOK', UNCHANGED <<run, files>>, KeepsClaims, KeepsArtifacts
    PROVE  StashInv'
<1> USE CommandAssumption DEF CliInv, StashInv
<1>1. /\ UNCHANGED <<run, broken>>
      /\ \A p \in Account, d \in ClaimId :
            ((Holds(p, d))' <=> Holds(p, d)) /\ stash'[p][d] = stash[p][d]
  BY DEF files, Holds
<1>2. /\ DOMAIN claims' = DOMAIN claims
      /\ \A d \in DOMAIN claims : claims'[d].claimant = claims[d].claimant
                                 /\ claims'[d].artifact = claims[d].artifact
      /\ \A d \in DOMAIN claims : \A a, n : ((Opens(d, a, n))' <=> Opens(d, a, n))
  BY DEF KeepsClaims, KeepsArtifacts, Opens
<1>3. /\ DOMAIN claims \subseteq ClaimId
      /\ \A j \in Command : run[j] # Idle => run[j].claim \in ClaimId
      /\ \A d \in DOMAIN claims : claims[d].claimant \in Account
  BY DEF CliTypeOK, TypeOK, ClaimRow, Run
<1>4. \A j \in Command : (Busy(j) <=> run[j].phase \in Phase) /\ (Busy(j)' <=> run'[j].phase \in Phase)
  BY DEF CliTypeOK, Run, Busy, Idle, Phase
<1>5. StashOpensClaim'
  BY <1>1, <1>2
     DEF StashOpensClaim
<1>6. UnrevealedKeepsStash'
  BY <1>1, <1>2, <1>3
     DEF UnrevealedKeepsStash
<1>7. RevealedIsCleanedUp'
  BY <1>1, <1>2
     DEF StashOpensClaim, RevealedIsCleanedUp
<1>8. SecretsOpen'
  BY <1>2, <1>4
     DEF SecretsOpen
<1>9. WritersAlone'
  BY <1>1, <1>2, <1>3, <1>4
     DEF SecretsOpen, WritersAlone, Writing, Phase
<1>10. DeletesAreLate'
  BY <1>2, <1>4
     DEF SecretsOpen, DeletesAreLate, Phase
<1>11. QED
  BY <1>5, <1>6, <1>7, <1>8, <1>9, <1>10

(* Claim commit, its first step.                                           *)
LEMMA StartKeeps ==
    ASSUME CliInv, CliTypeOK', NEW k \in Command, NEW b, NEW c \in ClaimId, NEW secret \in Secret,
           NEW stake, NEW nowMs, StartCommit(k, b, c, secret, stake, nowMs)
    PROVE  StashInv'
<1> USE CommandAssumption DEF CliInv, StashInv
<1>1. run[k] = Idle /\ ~Busy(k) /\ UNCHANGED broken
  BY DEF StartCommit, files, Busy
<1>2. \A p \in Account, d \in ClaimId : ((Holds(p, d))' <=> Holds(p, d)) /\ stash'[p][d] = stash[p][d]
  BY DEF StartCommit, files, Holds
<1>3. TypeOK
  BY DEF CliTypeOK
<1>4. /\ c \notin DOMAIN claims /\ DOMAIN claims' = DOMAIN claims \cup {c}
      /\ \A d \in DOMAIN claims : claims'[d] = claims[d]
      /\ claims'[c].claimant = UserOf[k] /\ claims'[c].artifact = NoArtifact
      /\ claims'[c].commit = CommitHash(k, secret)
  <2>1. /\ c \notin DOMAIN claims
        /\ claims' = Insert(claims, c, NewClaim(b, UserOf[k], CommitHash(k, secret), stake, nowMs))
    BY DEF StartCommit, CommitClaim
  <2>2. /\ DOMAIN claims' = DOMAIN claims \cup {c}
        /\ \A d \in DOMAIN claims : claims'[d] = claims[d]
        /\ claims'[c] = NewClaim(b, UserOf[k], CommitHash(k, secret), stake, nowMs)
    BY <2>1 DEF Insert
  <2>3. QED
    BY <2>1, <2>2 DEF NewClaim
<1>5. (Opens(c, secret.artifact, secret.nonce))'
  BY <1>4 DEF Opens, CommitHash
<1>6. c \in ClaimId /\ UserOf[k] \in Account
  OBVIOUS
<1>7. \A d \in DOMAIN claims : \A a, n : ((Opens(d, a, n))' <=> Opens(d, a, n))
  BY <1>4 DEF Opens
<1>8. /\ k \in Command /\ run'[k] = [phase |-> "stash", claim |-> c, secret |-> secret]
      /\ \A j \in Command : j # k => run'[j] = run[j]
  BY DEF StartCommit, Working, CliTypeOK
<1>9. run'[k].phase = "stash" /\ run'[k].claim = c /\ run'[k].secret = secret
  BY <1>8
<1>10. /\ DOMAIN claims \subseteq ClaimId
       /\ \A j \in Command : run[j] # Idle => run[j].claim \in ClaimId
       /\ \A d \in DOMAIN claims : claims[d].claimant \in Account
  BY DEF CliTypeOK, TypeOK, ClaimRow, Run
<1>11. \A j \in Command : (Busy(j) <=> run[j].phase \in Phase) /\ (Busy(j)' <=> run'[j].phase \in Phase)
  BY DEF CliTypeOK, Run, Busy, Idle, Phase
<1>12. StashOpensClaim'
  BY <1>2, <1>4, <1>7
     DEF StashOpensClaim
<1>13. UnrevealedKeepsStash'
  <2>1. SUFFICES ASSUME NEW d \in DOMAIN claims', claims'[d].artifact = NoArtifact
                 PROVE  \/ (Holds(claims[d].claimant, d))'
                        \/ \E j \in Command : run'[j].phase \in {"stash", "write"} /\ run'[j].claim = d
                        \/ <<"commit", d>> \in broken'
    BY DEF UnrevealedKeepsStash
  <2>2. CASE d = c
    BY <1>8, <1>9, <2>2
  <2>3. CASE d # c
    <3>0. d \in DOMAIN claims
      BY <1>4, <2>1, <2>3
    <3>1. claims'[d] = claims[d] /\ claims[d].claimant \in Account /\ d \in ClaimId
      BY <1>4, <1>10, <3>0
    <3>2. \/ Holds(claims[d].claimant, d)
          \/ \E j \in Command : run[j].phase \in {"stash", "write"} /\ run[j].claim = d
          \/ <<"commit", d>> \in broken
      BY <2>1, <3>0, <3>1 DEF UnrevealedKeepsStash
    <3>3. CASE Holds(claims[d].claimant, d)
      BY <3>1, <3>3, <1>1 DEF Holds, StartCommit, files
    <3>4. CASE \E j \in Command : run[j].phase \in {"stash", "write"} /\ run[j].claim = d
      BY <3>4, <1>1, <1>8, <1>11 DEF Phase
    <3>5. QED
      BY <3>2, <3>3, <3>4, <1>1
  <2>4. QED
    BY <2>2, <2>3
<1>14. RevealedIsCleanedUp'
  BY <1>1, <1>2, <1>4, <1>8, <1>11
     DEF StashOpensClaim, RevealedIsCleanedUp, Phase
<1>15. SecretsOpen'
  BY <1>4, <1>5, <1>7, <1>8, <1>11
     DEF SecretsOpen
<1>16. WritersAlone'
  BY <1>2, <1>4, <1>8, <1>10, <1>11
     DEF StashOpensClaim, SecretsOpen, WritersAlone, Writing, Phase
<1>17. DeletesAreLate'
  BY <1>4, <1>8, <1>11
     DEF SecretsOpen, DeletesAreLate, Phase
<1>18. QED
  BY <1>12, <1>13, <1>14, <1>15, <1>16, <1>17

(* The stash file is created or truncated.                                 *)
LEMMA CreateKeeps ==
    ASSUME CliInv, CliTypeOK', NEW k \in Command, CreateStash(k)
    PROVE  StashInv'
<1> USE CommandAssumption DEF CliInv, StashInv
<1>1. run[k].phase = "stash" /\ Busy(k) /\ UNCHANGED broken
  BY DEF CreateStash, Busy, Idle
<1>2. /\ DOMAIN claims \subseteq ClaimId
      /\ \A j \in Command : run[j] # Idle => run[j].claim \in ClaimId
      /\ \A d \in DOMAIN claims : claims[d].claimant \in Account
  BY DEF CliTypeOK, TypeOK, ClaimRow, Run
<1>3. stash' = [stash EXCEPT ![UserOf[k]] = Insert(@, run[k].claim, Truncated)]
  BY DEF CreateStash, Write
<1>4. /\ \A d \in DOMAIN stash[UserOf[k]] : d # run[k].claim =>
            d \in DOMAIN stash'[UserOf[k]] /\ stash'[UserOf[k]][d] = stash[UserOf[k]][d]
      /\ DOMAIN stash'[UserOf[k]] = DOMAIN stash[UserOf[k]] \cup {run[k].claim}
      /\ stash'[UserOf[k]][run[k].claim] = Truncated
      /\ \A p \in Account : p # UserOf[k] => stash'[p] = stash[p]
  BY <1>3 DEF Insert, CliTypeOK
<1>5. /\ \A p \in Account, d \in ClaimId : ~(p = UserOf[k] /\ d = run[k].claim) =>
            ((Holds(p, d))' <=> Holds(p, d))
      /\ \A p \in Account, d \in ClaimId : ~(p = UserOf[k] /\ d = run[k].claim) /\ Holds(p, d) =>
            stash'[p][d] = stash[p][d]
  BY <1>4 DEF Holds
<1>6. \A p \in Account, d \in ClaimId : p = UserOf[k] /\ d = run[k].claim => ~(Holds(p, d))'
  BY <1>4 DEF Holds
<1>7. /\ DOMAIN claims' = DOMAIN claims
      /\ \A d \in DOMAIN claims : claims'[d].claimant = claims[d].claimant
                                 /\ claims'[d].artifact = claims[d].artifact
      /\ \A d \in DOMAIN claims : \A a, n : ((Opens(d, a, n))' <=> Opens(d, a, n))
  BY DEF CreateStash, vars, Opens
<1>8. /\ k \in Command /\ run'[k] = [phase |-> "write", claim |-> run[k].claim, secret |-> run[k].secret]
      /\ \A j \in Command : j # k => run'[j] = run[j]
  BY DEF CreateStash, Working, CliTypeOK
<1>9. run'[k].phase = "write" /\ run'[k].claim = run[k].claim /\ run'[k].secret = run[k].secret
  BY <1>8
<1>10. \A j \in Command : (Busy(j) <=> run[j].phase \in Phase) /\ (Busy(j)' <=> run'[j].phase \in Phase)
  BY DEF CliTypeOK, Run, Busy, Idle, Phase
<1>11. StashOpensClaim'
  BY <1>5, <1>6, <1>7
     DEF StashOpensClaim
<1>12. UnrevealedKeepsStash'
  BY <1>1, <1>2, <1>5, <1>7, <1>8
     DEF UnrevealedKeepsStash
<1>13. RevealedIsCleanedUp'
  BY <1>1, <1>5, <1>6, <1>7, <1>8
     DEF StashOpensClaim, RevealedIsCleanedUp
<1>14. SecretsOpen'
  BY <1>1, <1>7, <1>8, <1>10
     DEF SecretsOpen
<1>15. WritersAlone'
  BY <1>1, <1>2, <1>5, <1>6, <1>7, <1>8, <1>10
     DEF SecretsOpen, WritersAlone, Writing, Phase
<1>16. DeletesAreLate'
  BY <1>7, <1>8, <1>10
     DEF SecretsOpen, DeletesAreLate, Phase
<1>17. QED
  BY <1>11, <1>12, <1>13, <1>14, <1>15, <1>16

(* The stash file is written.                                              *)
LEMMA WriteKeeps ==
    ASSUME CliInv, CliTypeOK', NEW k \in Command, WriteStash(k)
    PROVE  StashInv'
<1> USE CommandAssumption DEF CliInv, StashInv
<1>1. run[k].phase = "write" /\ Busy(k) /\ UNCHANGED broken
  BY DEF WriteStash, Busy, Idle
<1>2. /\ DOMAIN claims \subseteq ClaimId
      /\ \A j \in Command : run[j] # Idle => run[j].claim \in ClaimId
      /\ \A d \in DOMAIN claims : claims[d].claimant \in Account
  BY DEF CliTypeOK, TypeOK, ClaimRow, Run
<1>3. stash' = [stash EXCEPT ![UserOf[k]] = Insert(@, run[k].claim, run[k].secret)]
  BY DEF WriteStash, Write
<1>4. /\ \A d \in DOMAIN stash[UserOf[k]] : d # run[k].claim =>
            d \in DOMAIN stash'[UserOf[k]] /\ stash'[UserOf[k]][d] = stash[UserOf[k]][d]
      /\ DOMAIN stash'[UserOf[k]] = DOMAIN stash[UserOf[k]] \cup {run[k].claim}
      /\ stash'[UserOf[k]][run[k].claim] = run[k].secret
      /\ \A p \in Account : p # UserOf[k] => stash'[p] = stash[p]
  BY <1>3 DEF Insert, CliTypeOK
<1>5. /\ \A p \in Account, d \in ClaimId : ~(p = UserOf[k] /\ d = run[k].claim) =>
            ((Holds(p, d))' <=> Holds(p, d))
      /\ \A p \in Account, d \in ClaimId : ~(p = UserOf[k] /\ d = run[k].claim) /\ Holds(p, d) =>
            stash'[p][d] = stash[p][d]
  BY <1>4 DEF Holds
<1>6. \A p \in Account, d \in ClaimId : p = UserOf[k] /\ d = run[k].claim =>
             (Holds(p, d))' /\ stash'[p][d] = run[k].secret
  BY <1>1, <1>2, <1>4 DEF Holds, CliTypeOK, Run, Busy
<1>7. /\ DOMAIN claims' = DOMAIN claims
      /\ \A d \in DOMAIN claims : claims'[d].claimant = claims[d].claimant
                                 /\ claims'[d].artifact = claims[d].artifact
      /\ \A d \in DOMAIN claims : \A a, n : ((Opens(d, a, n))' <=> Opens(d, a, n))
  BY DEF WriteStash, vars, Opens
<1>8. /\ k \in Command /\ run'[k] = Idle
      /\ \A j \in Command : j # k => run'[j] = run[j]
  BY DEF WriteStash, Ends, CliTypeOK
<1>9. run'[k].phase \notin Phase
  BY <1>8 DEF Idle, Phase
<1>10. \A j \in Command : (Busy(j) <=> run[j].phase \in Phase) /\ (Busy(j)' <=> run'[j].phase \in Phase)
  BY DEF CliTypeOK, Run, Busy, Idle, Phase
<1>11. StashOpensClaim'
  BY <1>1, <1>5, <1>6, <1>7
     DEF StashOpensClaim, SecretsOpen
<1>12. UnrevealedKeepsStash'
  BY <1>1, <1>2, <1>5, <1>6, <1>7, <1>8
     DEF UnrevealedKeepsStash, SecretsOpen
<1>13. RevealedIsCleanedUp'
  BY <1>1, <1>5, <1>7, <1>8
     DEF StashOpensClaim, RevealedIsCleanedUp, SecretsOpen, WritersAlone, Writing
<1>14. SecretsOpen'
  BY <1>7, <1>8, <1>9, <1>10
     DEF SecretsOpen
<1>15. WritersAlone'
  BY <1>1, <1>2, <1>5, <1>7, <1>8, <1>9, <1>10
     DEF SecretsOpen, WritersAlone, Writing, Phase
<1>16. DeletesAreLate'
  BY <1>7, <1>8, <1>9, <1>10
     DEF SecretsOpen, DeletesAreLate, Phase
<1>17. QED
  BY <1>11, <1>12, <1>13, <1>14, <1>15, <1>16

(* Claim reveal reads the stash.                                           *)
LEMMA ReadKeeps ==
    ASSUME CliInv, CliTypeOK', NEW k \in Command, NEW c \in ClaimId, ReadStash(k, c)
    PROVE  StashInv'
<1> USE CommandAssumption DEF CliInv, StashInv
<1>1. run[k] = Idle /\ UNCHANGED broken /\ Holds(UserOf[k], c)
  BY DEF ReadStash, files
<1>2. \A p \in Account, d \in ClaimId : ((Holds(p, d))' <=> Holds(p, d)) /\ stash'[p][d] = stash[p][d]
  BY DEF ReadStash, files, Holds
<1>3. /\ DOMAIN claims' = DOMAIN claims
      /\ \A d \in DOMAIN claims : claims'[d].claimant = claims[d].claimant
                                 /\ claims'[d].artifact = claims[d].artifact
      /\ \A d \in DOMAIN claims : \A a, n : ((Opens(d, a, n))' <=> Opens(d, a, n))
  BY DEF ReadStash, vars, Opens
<1>4. /\ k \in Command /\ run'[k] = [phase |-> "reveal", claim |-> c, secret |-> stash[UserOf[k]][c]]
      /\ \A j \in Command : j # k => run'[j] = run[j]
  BY DEF ReadStash, Working, CliTypeOK
<1>5. run'[k].phase = "reveal" /\ run'[k].claim = c /\ run'[k].secret = stash[UserOf[k]][c]
  BY <1>4
<1>6. /\ DOMAIN claims \subseteq ClaimId
      /\ \A j \in Command : run[j] # Idle => run[j].claim \in ClaimId
      /\ \A d \in DOMAIN claims : claims[d].claimant \in Account
  BY DEF CliTypeOK, TypeOK, ClaimRow, Run
<1>7. Idle.phase \notin Phase
  BY DEF Idle, Phase
<1>8. \A j \in Command : (Busy(j) <=> run[j].phase \in Phase) /\ (Busy(j)' <=> run'[j].phase \in Phase)
  BY DEF CliTypeOK, Run, Busy, Idle, Phase
<1>9. StashOpensClaim'
  BY <1>2, <1>3
     DEF StashOpensClaim
<1>10. UnrevealedKeepsStash'
  BY <1>1, <1>2, <1>3, <1>4, <1>6, <1>7
     DEF UnrevealedKeepsStash, Phase
<1>11. RevealedIsCleanedUp'
  BY <1>1, <1>2, <1>3, <1>4, <1>7
     DEF StashOpensClaim, RevealedIsCleanedUp, Phase
<1>12. SecretsOpen'
  BY <1>1, <1>3, <1>4, <1>8
     DEF StashOpensClaim, SecretsOpen
<1>13. WritersAlone'
  BY <1>1, <1>2, <1>3, <1>4, <1>6, <1>8
     DEF SecretsOpen, WritersAlone, Writing, Phase
<1>14. DeletesAreLate'
  BY <1>3, <1>4, <1>8
     DEF SecretsOpen, DeletesAreLate, Phase
<1>15. QED
  BY <1>9, <1>10, <1>11, <1>12, <1>13, <1>14

(* A reveal fails.                                                         *)
LEMMA FailKeeps ==
    ASSUME CliInv, CliTypeOK', NEW k \in Command, RevealFails(k)
    PROVE  StashInv'
<1> USE CommandAssumption DEF CliInv, StashInv
<1>1. run[k].phase = "reveal" /\ UNCHANGED broken
  BY DEF RevealFails, files
<1>2. \A p \in Account, d \in ClaimId : ((Holds(p, d))' <=> Holds(p, d)) /\ stash'[p][d] = stash[p][d]
  BY DEF RevealFails, files, Holds
<1>3. /\ DOMAIN claims' = DOMAIN claims
      /\ \A d \in DOMAIN claims : claims'[d].claimant = claims[d].claimant
                                 /\ claims'[d].artifact = claims[d].artifact
      /\ \A d \in DOMAIN claims : \A a, n : ((Opens(d, a, n))' <=> Opens(d, a, n))
  BY DEF RevealFails, vars, Opens
<1>4. /\ k \in Command /\ run'[k] = Idle
      /\ \A j \in Command : j # k => run'[j] = run[j]
  BY DEF RevealFails, Ends, CliTypeOK
<1>5. /\ DOMAIN claims \subseteq ClaimId
      /\ \A j \in Command : run[j] # Idle => run[j].claim \in ClaimId
      /\ \A d \in DOMAIN claims : claims[d].claimant \in Account
  BY DEF CliTypeOK, TypeOK, ClaimRow, Run
<1>6. run'[k].phase \notin Phase
  BY <1>4 DEF Idle, Phase
<1>7. \A j \in Command : (Busy(j) <=> run[j].phase \in Phase) /\ (Busy(j)' <=> run'[j].phase \in Phase)
  BY DEF CliTypeOK, Run, Busy, Idle, Phase
<1>8. StashOpensClaim'
  BY <1>2, <1>3
     DEF StashOpensClaim
<1>9. UnrevealedKeepsStash'
  BY <1>1, <1>2, <1>3, <1>4, <1>5
     DEF UnrevealedKeepsStash
<1>10. RevealedIsCleanedUp'
  BY <1>1, <1>2, <1>3, <1>4
     DEF StashOpensClaim, RevealedIsCleanedUp
<1>11. SecretsOpen'
  BY <1>3, <1>4, <1>6, <1>7
     DEF SecretsOpen
<1>12. WritersAlone'
  BY <1>2, <1>3, <1>4, <1>5, <1>6, <1>7
     DEF SecretsOpen, WritersAlone, Writing, Phase
<1>13. DeletesAreLate'
  BY <1>3, <1>4, <1>6, <1>7
     DEF SecretsOpen, DeletesAreLate, Phase
<1>14. QED
  BY <1>8, <1>9, <1>10, <1>11, <1>12, <1>13

(* A reveal is done.                                                       *)
LEMMA RevealStepKeeps ==
    ASSUME CliInv, CliTypeOK', NEW k \in Command, NEW nowMs, RevealStep(k, nowMs)
    PROVE  StashInv'
<1> USE CommandAssumption DEF CliInv, StashInv
<1>1. run[k].phase = "reveal" /\ Busy(k) /\ UNCHANGED broken
  BY DEF RevealStep, files, Busy, Idle
<1>2. \A p \in Account, d \in ClaimId : ((Holds(p, d))' <=> Holds(p, d)) /\ stash'[p][d] = stash[p][d]
  BY DEF RevealStep, files, Holds
<1>3. run[k].secret.artifact \in Artifact
  BY <1>1 DEF CliTypeOK, Busy, Run, Secret
<1>4. /\ DOMAIN claims' = DOMAIN claims /\ run[k].claim \in DOMAIN claims
      /\ \A d \in DOMAIN claims : d # run[k].claim => claims'[d] = claims[d]
      /\ claims'[run[k].claim].artifact # NoArtifact
      /\ KeepsClaims
  BY <1>3, RevealKeepsClaims DEF CliTypeOK
<1>5. /\ \A d \in DOMAIN claims : claims'[d].claimant = claims[d].claimant
      /\ \A d \in DOMAIN claims : \A a, n : ((Opens(d, a, n))' <=> Opens(d, a, n))
  BY <1>4 DEF KeepsClaims, Opens
<1>6. /\ k \in Command /\ run'[k] = [phase |-> "delete", claim |-> run[k].claim, secret |-> run[k].secret]
      /\ \A j \in Command : j # k => run'[j] = run[j]
  BY DEF RevealStep, Working, CliTypeOK
<1>7. run'[k].phase = "delete" /\ run'[k].claim = run[k].claim /\ run'[k].secret = run[k].secret
  BY <1>6
<1>8. /\ DOMAIN claims \subseteq ClaimId
      /\ \A j \in Command : run[j] # Idle => run[j].claim \in ClaimId
      /\ \A d \in DOMAIN claims : claims[d].claimant \in Account
  BY DEF CliTypeOK, TypeOK, ClaimRow, Run
<1>9. \A j \in Command : (Busy(j) <=> run[j].phase \in Phase) /\ (Busy(j)' <=> run'[j].phase \in Phase)
  BY DEF CliTypeOK, Run, Busy, Idle, Phase
<1>10. StashOpensClaim'
  BY <1>2, <1>4, <1>5
     DEF StashOpensClaim
<1>11. UnrevealedKeepsStash'
  BY <1>1, <1>2, <1>4, <1>6, <1>8
     DEF UnrevealedKeepsStash
<1>12. RevealedIsCleanedUp'
  BY <1>1, <1>2, <1>4, <1>6
     DEF StashOpensClaim, RevealedIsCleanedUp
<1>13. SecretsOpen'
  BY <1>1, <1>4, <1>5, <1>6, <1>9
     DEF SecretsOpen
<1>14. WritersAlone'
  BY <1>1, <1>2, <1>4, <1>6, <1>8, <1>9
     DEF SecretsOpen, WritersAlone, Writing, Phase
<1>15. DeletesAreLate'
  BY <1>4, <1>6, <1>9
     DEF SecretsOpen, DeletesAreLate, Phase
<1>16. QED
  BY <1>10, <1>11, <1>12, <1>13, <1>14, <1>15

(* The stash is deleted.                                                   *)
LEMMA DeleteKeeps ==
    ASSUME CliInv, CliTypeOK', NEW k \in Command, DeleteStash(k)
    PROVE  StashInv'
<1> USE CommandAssumption DEF CliInv, StashInv
<1>1. run[k].phase = "delete" /\ Busy(k) /\ UNCHANGED broken
  BY DEF DeleteStash, Busy, Idle
<1>2. /\ DOMAIN claims \subseteq ClaimId
      /\ \A j \in Command : run[j] # Idle => run[j].claim \in ClaimId
      /\ \A d \in DOMAIN claims : claims[d].claimant \in Account
  BY DEF CliTypeOK, TypeOK, ClaimRow, Run
<1>3. /\ \A p \in Account, d \in ClaimId : (Holds(p, d))' <=> Holds(p, d) /\ ~(p = UserOf[k] /\ d = run[k].claim)
      /\ \A p \in Account, d \in ClaimId : (Holds(p, d))' => stash'[p][d] = stash[p][d]
  BY DEF DeleteStash, Restrict, Holds, CliTypeOK
<1>4. /\ DOMAIN claims' = DOMAIN claims
      /\ \A d \in DOMAIN claims : claims'[d].claimant = claims[d].claimant
                                 /\ claims'[d].artifact = claims[d].artifact
      /\ \A d \in DOMAIN claims : \A a, n : ((Opens(d, a, n))' <=> Opens(d, a, n))
  BY DEF DeleteStash, vars, Opens
<1>5. /\ k \in Command /\ run'[k] = Idle
      /\ \A j \in Command : j # k => run'[j] = run[j]
  BY DEF DeleteStash, Ends, CliTypeOK
<1>6. run'[k].phase \notin Phase
  BY <1>5 DEF Idle, Phase
<1>7. \A j \in Command : (Busy(j) <=> run[j].phase \in Phase) /\ (Busy(j)' <=> run'[j].phase \in Phase)
  BY DEF CliTypeOK, Run, Busy, Idle, Phase
<1>8. StashOpensClaim'
  BY <1>3, <1>4
     DEF StashOpensClaim
<1>9. UnrevealedKeepsStash'
  BY <1>1, <1>2, <1>3, <1>4, <1>5
     DEF UnrevealedKeepsStash, DeletesAreLate
<1>10. RevealedIsCleanedUp'
  BY <1>1, <1>3, <1>4, <1>5
     DEF StashOpensClaim, RevealedIsCleanedUp, SecretsOpen
<1>11. SecretsOpen'
  BY <1>4, <1>5, <1>6, <1>7
     DEF SecretsOpen
<1>12. WritersAlone'
  BY <1>2, <1>3, <1>4, <1>5, <1>6, <1>7
     DEF SecretsOpen, WritersAlone, Writing, Phase
<1>13. DeletesAreLate'
  BY <1>1, <1>4, <1>5, <1>6, <1>7
     DEF SecretsOpen, DeletesAreLate
<1>14. QED
  BY <1>8, <1>9, <1>10, <1>11, <1>12, <1>13

(* A command is cut short.                                                 *)
LEMMA CutKeeps ==
    ASSUME CliInv, CliTypeOK', NEW k \in Command, CutShort(k)
    PROVE  StashInv'
<1> USE CommandAssumption DEF CliInv, StashInv
<1>1. /\ run[k].phase \in {"stash", "write", "delete"}
      /\ broken' = broken \cup {<<IF run[k].phase \in {"stash", "write"} THEN "commit" ELSE "reveal",
                                run[k].claim>>}
  BY DEF CutShort
<1>2. \A p \in Account, d \in ClaimId : ((Holds(p, d))' <=> Holds(p, d)) /\ stash'[p][d] = stash[p][d]
  BY DEF CutShort, Holds
<1>3. /\ DOMAIN claims' = DOMAIN claims
      /\ \A d \in DOMAIN claims : claims'[d].claimant = claims[d].claimant
                                 /\ claims'[d].artifact = claims[d].artifact
      /\ \A d \in DOMAIN claims : \A a, n : ((Opens(d, a, n))' <=> Opens(d, a, n))
  BY DEF CutShort, vars, Opens
<1>4. /\ k \in Command /\ run'[k] = Idle
      /\ \A j \in Command : j # k => run'[j] = run[j]
  BY DEF CutShort, Ends, CliTypeOK
<1>5. /\ DOMAIN claims \subseteq ClaimId
      /\ \A j \in Command : run[j] # Idle => run[j].claim \in ClaimId
      /\ \A d \in DOMAIN claims : claims[d].claimant \in Account
  BY DEF CliTypeOK, TypeOK, ClaimRow, Run
<1>6. run'[k].phase \notin Phase
  BY <1>4 DEF Idle, Phase
<1>7. \A j \in Command : (Busy(j) <=> run[j].phase \in Phase) /\ (Busy(j)' <=> run'[j].phase \in Phase)
  BY DEF CliTypeOK, Run, Busy, Idle, Phase
<1>8. StashOpensClaim'
  BY <1>2, <1>3
     DEF StashOpensClaim
<1>9. UnrevealedKeepsStash'
  BY <1>1, <1>2, <1>3, <1>4, <1>5
     DEF UnrevealedKeepsStash
<1>10. RevealedIsCleanedUp'
  BY <1>1, <1>2, <1>3, <1>4, <1>7, SMTT(30)
     DEF StashOpensClaim, UnrevealedKeepsStash, RevealedIsCleanedUp, DeletesAreLate
<1>11. SecretsOpen'
  BY <1>3, <1>4, <1>6, <1>7
     DEF SecretsOpen
<1>12. WritersAlone'
  BY <1>2, <1>3, <1>4, <1>5, <1>6, <1>7
     DEF SecretsOpen, WritersAlone, Writing, Phase
<1>13. DeletesAreLate'
  BY <1>3, <1>4, <1>6, <1>7
     DEF SecretsOpen, DeletesAreLate, Phase
<1>14. QED
  BY <1>8, <1>9, <1>10, <1>11, <1>12, <1>13

-----------------------------------------------------------------------------
(* The inductive invariant is kept by every step.                          *)
LEMMA CliStep == CliInv /\ [CliNext]_cliVars => CliInv'
<1> SUFFICES ASSUME CliInv, [CliNext]_cliVars PROVE CliInv'
  OBVIOUS
<1>1. CliTypeOK /\ TypeOK
  BY DEF CliInv, CliTypeOK
<1>2. CliTypeOK'
  BY <1>1, CliTypeStep
<1>3. SUFFICES StashInv'
  BY <1>2 DEF CliInv
<1>4. CASE \/ MarketStep(Tick) \/ MarketStep(Post) \/ UNCHANGED cliVars
           \/ \E b \in BountyId : MarketStep(Transition(b)) \/ MarketStep(Finalize(b))
  <2>1. UNCHANGED <<run, files>>
    BY <1>4 DEF MarketStep, cliVars, files
  <2>2. KeepsClaims /\ KeepsArtifacts
    BY <1>1, <1>4, DaemonKeeps DEF MarketStep, cliVars, vars
  <2>3. QED
    BY <1>2, <2>1, <2>2, QuietKeeps
<1>5. ASSUME NEW k \in Command, CommandStep(k) PROVE StashInv'
  BY <1>2, <1>5, StartKeeps, CreateKeeps, WriteKeeps, ReadKeeps, FailKeeps, RevealStepKeeps,
     DeleteKeeps, CutKeeps DEF CommandStep, Commits
<1>6. QED
  BY <1>4, <1>5 DEF CliNext

(* The inductive invariant holds in every reachable state.                 *)
THEOREM CliInvariant == CliSpec => []CliInv
<1>1. CliInit => CliInv
  <2>1. CliInit => CliTypeOK
    BY CommandAssumption DEF CliInit, Init, TypeOK, CliTypeOK, Run
  <2>2. CliInit => StashInv
    BY DEF CliInit, Init, StashInv, StashOpensClaim, UnrevealedKeepsStash, RevealedIsCleanedUp,
           SecretsOpen, WritersAlone, DeletesAreLate, Holds, Busy, Writing, Idle
  <2>3. QED
    BY <2>1, <2>2 DEF CliInv
<1>2. QED
  BY <1>1, CliStep, PTL DEF CliSpec

(* A stash that can be parsed holds what its claim was committed with.     *)
THEOREM StashIsWorthKeeping == CliSpec => []StashOpensClaim
<1>1. CliInv => StashOpensClaim
  BY DEF CliInv, StashInv
<1>2. QED
  BY <1>1, CliInvariant, PTL

(* No failed or racing reveal costs an unrevealed claim its stash.         *)
THEOREM StashOutlivesFailures == CliSpec => []UnrevealedKeepsStash
<1>1. CliInv => UnrevealedKeepsStash
  BY DEF CliInv, StashInv
<1>2. QED
  BY <1>1, CliInvariant, PTL

(* A revealed claim's stash is being deleted, or its reveal was cut short. *)
THEOREM RevealsCleanUp == CliSpec => []RevealedIsCleanedUp
<1>1. CliInv => RevealedIsCleanedUp
  BY DEF CliInv, StashInv
<1>2. QED
  BY <1>1, CliInvariant, PTL
=============================================================================
