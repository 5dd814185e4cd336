------------------------- MODULE ProofMarketProofs -------------------------
(* Theorems about the proof-market lifecycle, for every set of bounties,   *)
(* claims and accounts, every window and every clock lag.                  *)
EXTENDS ProofMarket, TLAPS

(* A bounty that left COMMIT has a reveal deadline, and left it after the  *)
(* commit deadline.                                                        *)
WindowsOpenInTurn ==
    \A b \in DOMAIN bounties : bounties[b].status # "COMMIT" =>
        /\ bounties[b].tRevealClose # NoTime
        /\ bounties[b].tCommitClose <= clock

(* The revealed columns are NULL together, and filled exactly for the      *)
(* claims that have been through REVEALED; what is revealed is the         *)
(* artifact of the commit hash, with a nonce that opens it for the row.    *)
RevealedRows ==
    \A c \in DOMAIN claims :
        /\ claims[c].artifact = NoArtifact <=> claims[c].status \in {"COMMITTED", "LAPSED"}
        /\ claims[c].revealedAt = NoTime <=> claims[c].status \in {"COMMITTED", "LAPSED"}
        /\ claims[c].artifact # NoArtifact =>
            /\ claims[c].artifact = claims[c].commit.artifact
            /\ \E n \in Nonce : claims[c].commit.tail = Joined(n, claims[c].claimant)

(* The claim of one who could open the commit hash of claim c: the hash    *)
(* was computed for that row's claimant.                                   *)
SameHash(d, c) ==
    /\ claims[d].commit = claims[c].commit
    /\ \E n \in Nonce : claims[c].commit.tail = Joined(n, claims[d].claimant)

(* Claim e made the artifact of c's commit hash public, on another bounty. *)
PublicElsewhere(e, c) ==
    claims[e].bounty # claims[c].bounty /\ claims[e].artifact = claims[c].commit.artifact

(* Whoever computed a commit hash in the table has a claim with it, and    *)
(* knew the artifact alone or from a reveal on a bounty other than the     *)
(* row's.                                                                  *)
CommitsAreKnown ==
    \A c \in DOMAIN claims : \E d \in DOMAIN claims :
        /\ SameHash(d, c)
        /\ \/ claims[c].commit.artifact \in Knows[claims[d].claimant]
           \/ \E e \in DOMAIN claims : PublicElsewhere(e, c)

TablesAgree == ClaimsFollowBounty /\ TimesInOrder /\ WindowsOpenInTurn
                    /\ RevealedRows /\ CommitsAreKnown

IInv == TypeOK /\ TablesAgree

-----------------------------------------------------------------------------
(* Moving claims between statuses keeps the table's domain and types.      *)
LEMMA MovedTyped ==
    ASSUME TypeOK, NEW b, NEW from, NEW to \in ClaimStatus
    PROVE  MoveClaims(b, from, to) \in [DOMAIN claims -> ClaimRow]
<1>1. ASSUME NEW c \in DOMAIN claims
      PROVE  [claims[c] EXCEPT !.status = to] \in ClaimRow /\ claims[c] \in ClaimRow
  BY DEF TypeOK, ClaimRow
<1>2. QED
  BY <1>1 DEF MoveClaims

(* What a reveal and an opened window make of a row.                      *)
LEMMA RevealedTyped ==
    ASSUME NEW row \in ClaimRow, NEW artifact \in Artifact, NEW t \in Nat
    PROVE  Revealed(row, artifact, t) \in ClaimRow
BY DEF Revealed, ClaimRow, ClaimStatus

LEMMA OpenedTyped ==
    ASSUME NEW row \in BountyRow, NEW t \in Nat
    PROVE  [row EXCEPT !.status = "REVEAL", !.tRevealClose = t] \in BountyRow
BY DEF BountyRow, BountyStatus

(* The tables and the clock have their types after every step.             *)
LEMMA TypeStep == TypeOK /\ [Next]_vars => TypeOK'
<1> SUFFICES ASSUME TypeOK, [Next]_vars PROVE TypeOK'
  OBVIOUS
<1> USE MarketAssumption
<1>1. CASE Tick
  BY <1>1 DEF TypeOK, Tick
<1>2. ASSUME NEW b \in BountyId, NEW tCommit \in 0..MaxTime, NEW tReveal \in 0..MaxTime,
             NEW nowMs \in Readings, PostBounty(b, tCommit, tReveal, nowMs)
      PROVE TypeOK'
  <2>1. [status |-> "COMMIT", tCommitClose |-> nowMs + tCommit, tRevealClose |-> NoTime]
          \in BountyRow
    BY DEF BountyRow, BountyStatus, Readings, TypeOK
  <2>2. QED
    BY <1>2, <2>1 DEF PostBounty, Insert, TypeOK
<1>3. ASSUME NEW b \in BountyId, NEW c \in ClaimId, NEW p \in Account, NEW stake \in Stakes,
             NEW nowMs \in Readings, NEW hash \in Submittable(p),
             CommitClaim(b, c, p, hash, stake, nowMs)
      PROVE TypeOK'
  <2>1. hash \in Commitment
    BY DEF Submittable, Known, TypeOK, ClaimRow, Commitment, Tail, ComputeCommitHash
  <2>2. NewClaim(b, p, hash, stake, nowMs) \in ClaimRow
    BY <2>1 DEF NewClaim, ClaimRow, ClaimStatus, Readings, TypeOK
  <2>3. QED
    BY <1>3, <2>2 DEF CommitClaim, Insert, TypeOK
<1>4. ASSUME NEW c \in ClaimId, NEW artifact \in Artifact, NEW nonce \in Nonce,
             NEW nowMs \in Readings, RevealClaim(c, artifact, nonce, nowMs)
      PROVE TypeOK'
  <2>1. Revealed(claims[c], artifact, nowMs) \in ClaimRow
    <3>1. claims[c] \in ClaimRow /\ nowMs \in Nat
      BY <1>4 DEF RevealClaim, TypeOK, Readings
    <3>2. QED
      BY <3>1, RevealedTyped
  <2>2. claims' = [claims EXCEPT ![c] = Revealed(claims[c], artifact, nowMs)]
    BY <1>4 DEF RevealClaim
  <2>3. claims' \in [DOMAIN claims -> ClaimRow]
    BY <2>1, <2>2 DEF TypeOK
  <2>4. QED
    BY <1>4, <2>3 DEF RevealClaim, TypeOK
<1>5. ASSUME NEW b \in BountyId, NEW tReveal \in MinTReveal..MaxTReveal,
             NEW nowMs \in Readings, TransitionBounty(b, tReveal, nowMs)
      PROVE TypeOK'
  <2>1. CASE OpenReveal(b, tReveal, nowMs)
    <3> DEFINE row == [bounties[b] EXCEPT !.status = "REVEAL",
                            !.tRevealClose = bounties[b].tCommitClose + tReveal]
    <3>1. row \in BountyRow
      <4>1. bounties[b] \in BountyRow
        BY <2>1 DEF OpenReveal, CommitsDue, TypeOK
      <4>2. bounties[b].tCommitClose + tReveal \in Nat
        BY <4>1 DEF BountyRow
      <4>3. QED
        BY <4>1, <4>2, OpenedTyped
    <3>2. bounties' = [bounties EXCEPT ![b] = row]
      BY <2>1 DEF OpenReveal
    <3> HIDE DEF row
    <3>3. bounties' \in [DOMAIN bounties -> BountyRow]
      BY <3>1, <3>2 DEF TypeOK
    <3>4. QED
      BY <2>1, <3>3 DEF OpenReveal, TypeOK
  <2>2. CASE CloseReveal(b, nowMs)
    <3>1. claims' \in [DOMAIN claims -> ClaimRow]
      BY <2>2, MovedTyped DEF CloseReveal, ClaimStatus
    <3>2. [bounties[b] EXCEPT !.status = "CHECK"] \in BountyRow
      BY <2>2 DEF CloseReveal, RevealsDue, TypeOK, BountyRow, BountyStatus
    <3>3. QED
      BY <2>2, <3>1, <3>2 DEF CloseReveal, RevealsDue, TypeOK
  <2>3. CASE UNCHANGED vars
    BY <2>3 DEF vars, TypeOK
  <2>4. QED
    BY <1>5, <2>1, <2>2, <2>3 DEF TransitionBounty
<1>6. ASSUME NEW b \in BountyId, NEW batch \in Batches, FinalizeBounty(b, batch)
      PROVE TypeOK'
  <2> DEFINE verdict == IF Accepted(b, batch) THEN "VALID" ELSE "INVALID"
             outcome == IF Accepted(b, batch) THEN "ACCEPT" ELSE "REJECT"
  <2>1. verdict \in ClaimStatus /\ outcome \in BountyStatus
    BY DEF ClaimStatus, BountyStatus
  <2>2. /\ claims' = MoveClaims(b, "REVEALED", verdict)
        /\ bounties' = [bounties EXCEPT ![b].status = outcome]
        /\ attestations' = Recorded(batch)
        /\ UNCHANGED clock
    BY <1>6 DEF FinalizeBounty, Decide
  <2> HIDE DEF verdict, outcome
  <2>3. claims' \in [DOMAIN claims -> ClaimRow]
    BY <2>1, <2>2, MovedTyped
  <2>4. bounties' \in [DOMAIN bounties -> BountyRow]
    BY <2>1, <2>2 DEF TypeOK, BountyRow
  <2>5. /\ attestations' \in [DOMAIN attestations' -> AttestationRow]
        /\ DOMAIN attestations' \subseteq AttestationId
    BY <2>2 DEF Recorded, Batches, TypeOK
  <2>6. QED
    BY <2>2, <2>3, <2>4, <2>5 DEF TypeOK
<1>7. CASE UNCHANGED vars
  BY <1>7 DEF vars, TypeOK
<1>8. QED
  BY <1>1, <1>2, <1>3, <1>4, <1>5, <1>6, <1>7
     DEF Next, Post, Commit, Reveal, Transition, Finalize

(* The tables keep their column types in every reachable state.            *)
THEOREM TypeCorrect == Spec => []TypeOK
<1>1. Init => TypeOK
  BY DEF Init, TypeOK
<1>2. QED
  BY <1>1, TypeStep, PTL DEF Spec

-----------------------------------------------------------------------------
(* Moving claims changes nothing but the status of the claims it moves.    *)
LEMMA MovedRow ==
    ASSUME TypeOK, NEW b, NEW from, NEW to, NEW c \in DOMAIN claims
    PROVE  LET row == MoveClaims(b, from, to)[c] IN
           /\ row.bounty = claims[c].bounty /\ row.claimant = claims[c].claimant
           /\ row.commit = claims[c].commit /\ row.artifact = claims[c].artifact
           /\ row.committedAt = claims[c].committedAt /\ row.revealedAt = claims[c].revealedAt
           /\ row.status = IF claims[c].bounty = b /\ claims[c].status = from
                           THEN to ELSE claims[c].status
<1>1. claims[c] \in ClaimRow
  BY DEF TypeOK
<1>2. CASE claims[c].bounty = b /\ claims[c].status = from
  <2>1. MoveClaims(b, from, to)[c] = [claims[c] EXCEPT !.status = to]
    BY <1>2 DEF MoveClaims
  <2>2. QED
    BY <1>1, <1>2, <2>1 DEF ClaimRow
<1>3. CASE ~(claims[c].bounty = b /\ claims[c].status = from)
  BY <1>3 DEF MoveClaims
<1>4. QED
  BY <1>2, <1>3

(* A reveal changes the artifact, the reveal time and the status of a row. *)
LEMMA RevealedRow ==
    ASSUME NEW row \in ClaimRow, NEW artifact, NEW t
    PROVE  LET new == Revealed(row, artifact, t) IN
           /\ new.bounty = row.bounty /\ new.claimant = row.claimant
           /\ new.commit = row.commit /\ new.committedAt = row.committedAt
           /\ new.artifact = artifact /\ new.revealedAt = t /\ new.status = "REVEALED"
BY DEF Revealed, ClaimRow

(* A new bounty has no claims, and no old row points to it.                *)
LEMMA PostKeeps ==
    ASSUME IInv, TypeOK', NEW b, NEW tCommit, NEW tReveal, NEW nowMs \in Readings,
           PostBounty(b, tCommit, tReveal, nowMs)
    PROVE  TablesAgree'
<1>1. /\ \A x \in DOMAIN bounties : x \in DOMAIN bounties' /\ bounties'[x] = bounties[x]
      /\ \A x \in DOMAIN bounties' : x \in DOMAIN bounties \/ bounties'[x].status = "COMMIT"
      /\ claims' = claims /\ clock' = clock
  BY DEF PostBounty, Insert
<1>2. ClaimsFollowBounty' /\ TimesInOrder'
  BY <1>1 DEF IInv, TablesAgree, ClaimsFollowBounty, TimesInOrder, BountyOf
<1>3. WindowsOpenInTurn'
  BY <1>1 DEF IInv, TablesAgree, WindowsOpenInTurn
<1>4. RevealedRows' /\ CommitsAreKnown'
  BY <1>1 DEF IInv, TablesAgree, RevealedRows, CommitsAreKnown, SameHash, PublicElsewhere
<1>5. QED
  BY <1>2, <1>3, <1>4 DEF TablesAgree

(* A new claim is COMMITTED in time on a bounty nobody has revealed on; so *)
(* an artifact it may have been taken from was revealed on another bounty. *)
LEMMA CommitKeeps ==
    ASSUME IInv, TypeOK', NEW b, NEW c, NEW p \in Account, NEW stake, NEW nowMs \in Readings,
           NEW hash \in Submittable(p), CommitClaim(b, c, p, hash, stake, nowMs)
    PROVE  TablesAgree'
<1> DEFINE new == NewClaim(b, p, hash, stake, nowMs)
<1>1. /\ DOMAIN claims' = DOMAIN claims \cup {c} /\ c \notin DOMAIN claims
      /\ \A x \in DOMAIN claims : claims'[x] = claims[x]
      /\ claims'[c] = new
      /\ b \in DOMAIN bounties /\ bounties[b].status = "COMMIT"
      /\ nowMs <= bounties[b].tCommitClose
      /\ bounties' = bounties /\ clock' = clock
  BY DEF CommitClaim, Insert
<1>2. /\ new.bounty = b /\ new.claimant = p /\ new.commit = hash /\ new.artifact = NoArtifact
      /\ new.status = "COMMITTED" /\ new.committedAt = nowMs /\ new.revealedAt = NoTime
  BY DEF NewClaim
<1> HIDE DEF new
<1>3. ClaimsFollowBounty'
  BY <1>1, <1>2 DEF IInv, TablesAgree, ClaimsFollowBounty, BountyOf
<1>4. TimesInOrder'
  BY <1>1, <1>2 DEF IInv, TablesAgree, TimesInOrder, ClaimsFollowBounty, BountyOf
<1>5. WindowsOpenInTurn'
  BY <1>1 DEF IInv, TablesAgree, WindowsOpenInTurn
<1>6. RevealedRows'
  BY <1>1, <1>2 DEF IInv, TablesAgree, RevealedRows
<1>7. ASSUME NEW d \in DOMAIN claims, claims[d].artifact # NoArtifact
      PROVE  claims[d].bounty # b
  BY <1>1, <1>7 DEF IInv, TablesAgree, RevealedRows, ClaimsFollowBounty, BountyOf,
                    TypeOK, ClaimRow, ClaimStatus
<1>8. \E d \in DOMAIN claims' : SameHash(d, c)' /\
            (\/ hash.artifact \in Knows[claims'[d].claimant]
             \/ \E e \in DOMAIN claims : PublicElsewhere(e, c)')
  <2>1. CASE \E d \in DOMAIN claims : hash = claims[d].commit
    <3>1. PICK x \in DOMAIN claims : hash = claims[x].commit
      BY <2>1
    <3>2. PICK d \in DOMAIN claims :
            /\ SameHash(d, x)
            /\ \/ hash.artifact \in Knows[claims[d].claimant]
               \/ \E e \in DOMAIN claims : PublicElsewhere(e, x)
      BY <3>1 DEF IInv, TablesAgree, CommitsAreKnown
    <3>3. SameHash(d, c)'
      BY <1>1, <1>2, <3>1, <3>2 DEF SameHash
    <3>4. CASE hash.artifact \in Knows[claims[d].claimant]
      BY <1>1, <3>3, <3>4
    <3>5. CASE \E e \in DOMAIN claims : PublicElsewhere(e, x)
      <4>1. PICK e \in DOMAIN claims : claims[e].artifact = hash.artifact
        BY <3>1, <3>5 DEF PublicElsewhere
      <4>2. hash.artifact \in Artifact
        BY <3>1 DEF IInv, TypeOK, ClaimRow, Commitment
      <4>3. PublicElsewhere(e, c)'
        BY <1>1, <1>2, <4>1, <4>2, <1>7, MarketAssumption DEF PublicElsewhere
      <4>4. QED
        BY <1>1, <3>3, <4>3
    <3>6. QED
      BY <3>2, <3>4, <3>5
  <2>2. CASE \E a \in Known(p), n \in Nonce : hash = ComputeCommitHash(a, n, p)
    <3>1. PICK a \in Known(p), n \in Nonce : hash = ComputeCommitHash(a, n, p)
      BY <2>2
    <3>2. hash.artifact = a /\ hash.tail = Joined(n, p)
      BY <3>1 DEF ComputeCommitHash
    <3>3. SameHash(c, c)'
      BY <1>1, <1>2, <3>2 DEF SameHash
    <3>4. CASE a \in Knows[p]
      BY <1>1, <1>2, <3>2, <3>3, <3>4
    <3>5. CASE \E e \in DOMAIN claims : claims[e].artifact = a /\ a # NoArtifact
      <4>1. PICK e \in DOMAIN claims : claims[e].artifact = a /\ a # NoArtifact
        BY <3>5
      <4>2. PublicElsewhere(e, c)'
        BY <1>1, <1>2, <1>7, <3>2, <4>1 DEF PublicElsewhere
      <4>3. QED
        BY <1>1, <3>3, <4>2
    <3>6. QED
      BY <3>4, <3>5 DEF Known
  <2>3. QED
    BY <2>1, <2>2 DEF Submittable
<1>9. ASSUME NEW x \in DOMAIN claims
      PROVE  \E d \in DOMAIN claims' : SameHash(d, x)' /\
                (\/ claims[x].commit.artifact \in Knows[claims'[d].claimant]
                 \/ \E e \in DOMAIN claims : PublicElsewhere(e, x)')
  BY <1>1 DEF IInv, TablesAgree, CommitsAreKnown, SameHash, PublicElsewhere
<1>10. CommitsAreKnown'
  BY <1>1, <1>2, <1>8, <1>9 DEF CommitsAreKnown
<1>11. QED
  BY <1>3, <1>4, <1>5, <1>6, <1>10 DEF TablesAgree

(* A reveal fills the columns of one COMMITTED claim, inside the window.   *)
LEMMA RevealKeeps ==
    ASSUME IInv, TypeOK', NEW c, NEW artifact \in Artifact, NEW nonce \in Nonce, NEW nowMs \in Readings,
           RevealClaim(c, artifact, nonce, nowMs)
    PROVE  TablesAgree'
<1> DEFINE new == Revealed(claims[c], artifact, nowMs)
<1>1. /\ c \in DOMAIN claims /\ DOMAIN claims' = DOMAIN claims
      /\ \A x \in DOMAIN claims : x # c => claims'[x] = claims[x]
      /\ claims'[c] = new
      /\ claims[c].status = "COMMITTED" /\ BountyOf(c).status = "REVEAL"
      /\ BountyOf(c).tRevealClose # NoTime => nowMs <= BountyOf(c).tRevealClose
      /\ bounties' = bounties /\ clock' = clock
  BY DEF RevealClaim, IInv, TypeOK
<1>2. /\ claims[c].commit.artifact = artifact
      /\ claims[c].commit.tail = Joined(nonce, claims[c].claimant)
  BY DEF RevealClaim, Opens, ComputeCommitHash
<1>3. /\ new.bounty = claims[c].bounty /\ new.claimant = claims[c].claimant
      /\ new.commit = claims[c].commit /\ new.committedAt = claims[c].committedAt
      /\ new.artifact = artifact /\ new.revealedAt = nowMs /\ new.status = "REVEALED"
  <2>1. claims[c] \in ClaimRow
    BY <1>1 DEF IInv, TypeOK
  <2>2. QED
    BY <2>1, RevealedRow
<1> HIDE DEF new
<1>4. ClaimsFollowBounty'
  <2>1. claims[c].bounty \in DOMAIN bounties
    BY <1>1 DEF IInv, TablesAgree, ClaimsFollowBounty
  <2>2. /\ claims'[c].status = "REVEALED" /\ claims'[c].bounty = claims[c].bounty
        /\ bounties'[claims[c].bounty].status = "REVEAL"
    BY <1>1, <1>3 DEF BountyOf
  <2>3. ASSUME NEW x \in DOMAIN claims, x # c
        PROVE  claims'[x] = claims[x]
    BY <1>1, <2>3
  <2>4. QED
    BY <1>1, <2>1, <2>2, <2>3 DEF IInv, TablesAgree, ClaimsFollowBounty, BountyOf
<1>5. TimesInOrder'
  <2>1. claims[c].bounty \in DOMAIN bounties
    BY <1>1 DEF IInv, TablesAgree, ClaimsFollowBounty
  <2>2. /\ BountyOf(c).tRevealClose # NoTime
        /\ BountyOf(c).tCommitClose <= clock
    BY <1>1, <2>1 DEF IInv, TablesAgree, WindowsOpenInTurn, BountyOf
  <2>3. BountyOf(c).tCommitClose <= nowMs + MaxLag
    <3>1. BountyOf(c).tCommitClose \in Nat /\ clock \in Nat
      BY <2>1 DEF IInv, TypeOK, BountyRow, BountyOf
    <3>2. QED
      BY <2>2, <3>1, MarketAssumption DEF Readings
  <2>4. QED
    BY <1>1, <1>3, <2>2, <2>3 DEF IInv, TablesAgree, TimesInOrder, BountyOf
<1>6. WindowsOpenInTurn'
  BY <1>1 DEF IInv, TablesAgree, WindowsOpenInTurn
<1>7. RevealedRows'
  <2>1. artifact # NoArtifact /\ nowMs # NoTime
    BY MarketAssumption DEF Readings, NoTime, IInv, TypeOK
  <2>2. QED
    BY <1>1, <1>2, <1>3, <2>1 DEF IInv, TablesAgree, RevealedRows
<1>8. CommitsAreKnown'
  <2>1. ASSUME NEW x \in DOMAIN claims, NEW e \in DOMAIN claims, PublicElsewhere(e, x)
        PROVE  PublicElsewhere(e, x)'
    <3>1. claims[x].commit.artifact # NoArtifact
      BY MarketAssumption DEF IInv, TypeOK, ClaimRow, Commitment
    <3>2. e # c
      BY <1>1, <2>1, <3>1 DEF PublicElsewhere, IInv, TablesAgree, RevealedRows
    <3>3. QED
      BY <1>1, <1>3, <2>1, <3>2 DEF PublicElsewhere
  <2>2. \A x \in DOMAIN claims : /\ claims'[x].commit = claims[x].commit
                                 /\ claims'[x].claimant = claims[x].claimant
    BY <1>1, <1>3
  <2>3. QED
    BY <1>1, <2>1, <2>2 DEF IInv, TablesAgree, CommitsAreKnown, SameHash
<1>9. QED
  BY <1>4, <1>5, <1>6, <1>7, <1>8 DEF TablesAgree

(* The reveal window opens over claims that are all still COMMITTED.       *)
LEMMA OpenKeeps ==
    ASSUME IInv, TypeOK', NEW b, NEW tReveal \in MinTReveal..MaxTReveal, NEW nowMs \in Readings,
           OpenReveal(b, tReveal, nowMs)
    PROVE  TablesAgree'
<1> DEFINE new == [bounties[b] EXCEPT !.status = "REVEAL",
                                     !.tRevealClose = bounties[b].tCommitClose + tReveal]
<1>1. /\ b \in DOMAIN bounties /\ DOMAIN bounties' = DOMAIN bounties
      /\ \A x \in DOMAIN bounties : x # b => bounties'[x] = bounties[x]
      /\ bounties'[b] = new
      /\ bounties[b].status = "COMMIT" /\ nowMs >= bounties[b].tCommitClose
      /\ claims' = claims /\ clock' = clock
  BY DEF OpenReveal, CommitsDue, IInv, TypeOK
<1>2. bounties[b] \in BountyRow
  BY <1>1 DEF IInv, TypeOK
<1>3. /\ new.status = "REVEAL" /\ new.tCommitClose = bounties[b].tCommitClose
      /\ new.tRevealClose = bounties[b].tCommitClose + tReveal
  BY <1>2 DEF BountyRow
<1> HIDE DEF new
<1>4. \A c \in DOMAIN claims : claims[c].bounty = b => claims[c].status = "COMMITTED"
  BY <1>1 DEF IInv, TablesAgree, ClaimsFollowBounty, BountyOf, TypeOK, ClaimRow, ClaimStatus
<1>5. ClaimsFollowBounty'
  BY <1>1, <1>3, <1>4 DEF IInv, TablesAgree, ClaimsFollowBounty, BountyOf
<1>6. TimesInOrder'
  BY <1>1, <1>3, <1>4 DEF IInv, TablesAgree, TimesInOrder, ClaimsFollowBounty, RevealedRows, BountyOf
<1>7. WindowsOpenInTurn'
  <2>1. bounties[b].tCommitClose + tReveal # NoTime /\ bounties[b].tCommitClose <= clock
    BY <1>1, <1>2, MarketAssumption DEF BountyRow, NoTime, Readings, IInv, TypeOK
  <2>2. QED
    BY <1>1, <1>3, <2>1 DEF IInv, TablesAgree, WindowsOpenInTurn
<1>8. RevealedRows' /\ CommitsAreKnown'
  BY <1>1 DEF IInv, TablesAgree, RevealedRows, CommitsAreKnown, SameHash, PublicElsewhere
<1>9. QED
  BY <1>5, <1>6, <1>7, <1>8 DEF TablesAgree

(* The steps that move a bounty on and its claims with it.                 *)
Moves(b, old, from, to, status) ==
    /\ b \in DOMAIN bounties /\ bounties[b].status = old
    /\ claims' = MoveClaims(b, from, to)
    /\ bounties' = [bounties EXCEPT ![b].status = status]
    /\ clock' = clock

Moved == {<<"REVEAL", "COMMITTED", "LAPSED", "CHECK">>,
          <<"CHECK", "REVEALED", "VALID", "ACCEPT">>,
          <<"CHECK", "REVEALED", "INVALID", "REJECT">>}

(* Closing the window lapses what is still COMMITTED; deciding turns every *)
(* REVEALED claim VALID or INVALID.  Both move a bounty and the claims     *)
(* that its old status still allowed.                                      *)
LEMMA MoveKeeps ==
    ASSUME IInv, TypeOK', NEW b, NEW old, NEW from, NEW to, NEW status,
           <<old, from, to, status>> \in Moved, Moves(b, old, from, to, status)
    PROVE  TablesAgree'
<1> DEFINE moved(c) == claims[c].bounty = b /\ claims[c].status = from
<1>1. /\ DOMAIN bounties' = DOMAIN bounties
      /\ \A x \in DOMAIN bounties :
            /\ bounties'[x].status = IF x = b THEN status ELSE bounties[x].status
            /\ bounties'[x].tCommitClose = bounties[x].tCommitClose
            /\ bounties'[x].tRevealClose = bounties[x].tRevealClose
  BY DEF Moves, IInv, TypeOK, BountyRow
<1>2. DOMAIN claims' = DOMAIN claims
  BY DEF Moves, MoveClaims
<1>3. \A c \in DOMAIN claims :
        /\ claims'[c].bounty = claims[c].bounty /\ claims'[c].claimant = claims[c].claimant
        /\ claims'[c].commit = claims[c].commit /\ claims'[c].artifact = claims[c].artifact
        /\ claims'[c].committedAt = claims[c].committedAt
        /\ claims'[c].revealedAt = claims[c].revealedAt
        /\ claims'[c].status = IF moved(c) THEN to ELSE claims[c].status
  BY MovedRow DEF Moves, IInv
<1>4. ClaimsFollowBounty'
  BY <1>1, <1>2, <1>3 DEF IInv, TablesAgree, ClaimsFollowBounty, BountyOf, TypeOK, ClaimRow,
                          ClaimStatus, Moves, Moved
<1>5. TimesInOrder'
  BY <1>1, <1>2, <1>3 DEF IInv, TablesAgree, TimesInOrder, ClaimsFollowBounty, BountyOf
<1>6. WindowsOpenInTurn'
  BY <1>1 DEF IInv, TablesAgree, WindowsOpenInTurn, Moves, Moved
<1>7. RevealedRows'
  BY <1>2, <1>3 DEF IInv, TablesAgree, RevealedRows, Moved
<1>8. CommitsAreKnown'
  BY <1>2, <1>3 DEF IInv, TablesAgree, CommitsAreKnown, SameHash, PublicElsewhere
<1>9. QED
  BY <1>4, <1>5, <1>6, <1>7, <1>8 DEF TablesAgree

(* Time passing disturbs nothing: no table depends on the present.         *)
LEMMA IdleKeeps ==
    ASSUME IInv, claims' = claims, bounties' = bounties, clock' \in {clock, clock + 1}
    PROVE  TablesAgree'
<1>1. ClaimsFollowBounty' /\ TimesInOrder'
  BY DEF IInv, TablesAgree, ClaimsFollowBounty, TimesInOrder, BountyOf
<1>2. WindowsOpenInTurn'
  <2>1. \A b \in DOMAIN bounties :
            bounties[b].tCommitClose <= clock => bounties[b].tCommitClose <= clock'
    BY DEF IInv, TypeOK, BountyRow
  <2>2. QED
    BY <2>1 DEF IInv, TablesAgree, WindowsOpenInTurn
<1>3. RevealedRows' /\ CommitsAreKnown'
  BY DEF IInv, TablesAgree, RevealedRows, CommitsAreKnown, SameHash, PublicElsewhere
<1>4. QED
  BY <1>1, <1>2, <1>3 DEF TablesAgree

(* Every step keeps the inductive invariant.                               *)
LEMMA IInvStep == IInv /\ [Next]_vars => IInv'
<1> SUFFICES ASSUME IInv, [Next]_vars PROVE TablesAgree' /\ TypeOK'
  BY DEF IInv
<1>1. TypeOK'
  BY TypeStep DEF IInv
<1>2. CASE Tick
  BY <1>1, <1>2, IdleKeeps DEF Tick
<1>3. CASE Post
  BY <1>1, <1>3, PostKeeps DEF Post
<1>4. CASE Commit
  BY <1>1, <1>4, CommitKeeps DEF Commit
<1>5. CASE Reveal
  BY <1>1, <1>5, RevealKeeps DEF Reveal
<1>6. ASSUME NEW b \in BountyId, Transition(b)
      PROVE  TablesAgree'
  <2>1. PICK tReveal \in MinTReveal..MaxTReveal, nowMs \in Readings :
            TransitionBounty(b, tReveal, nowMs)
    BY <1>6 DEF Transition
  <2>2. CASE OpenReveal(b, tReveal, nowMs)
    BY <1>1, <2>2, OpenKeeps
  <2>3. CASE CloseReveal(b, nowMs)
    <3>1. Moves(b, "REVEAL", "COMMITTED", "LAPSED", "CHECK")
      BY <2>3 DEF CloseReveal, RevealsDue, Moves
    <3>2. QED
      BY <1>1, <3>1, MoveKeeps DEF Moved
  <2>4. CASE UNCHANGED vars
    BY <2>4, IdleKeeps DEF vars
  <2>5. QED
    BY <2>1, <2>2, <2>3, <2>4 DEF TransitionBounty
<1>7. ASSUME NEW b \in BountyId, Finalize(b)
      PROVE  TablesAgree'
  <2>1. PICK batch \in Batches : FinalizeBounty(b, batch)
    BY <1>7 DEF Finalize
  <2>2. CASE Accepted(b, batch)
    <3>1. Moves(b, "CHECK", "REVEALED", "VALID", "ACCEPT")
      BY <2>1, <2>2 DEF FinalizeBounty, Decide, Moves
    <3>2. QED
      BY <1>1, <3>1, MoveKeeps DEF Moved
  <2>3. CASE ~Accepted(b, batch)
    <3>1. Moves(b, "CHECK", "REVEALED", "INVALID", "REJECT")
      BY <2>1, <2>3 DEF FinalizeBounty, Decide, Moves
    <3>2. QED
      BY <1>1, <3>1, MoveKeeps DEF Moved
  <2>4. QED
    BY <2>2, <2>3
<1>8. CASE UNCHANGED vars
  BY <1>1, <1>8, IdleKeeps DEF vars
<1>9. QED
  BY <1>1, <1>2, <1>3, <1>4, <1>5, <1>6, <1>7, <1>8 DEF Next

(* The inductive invariant holds in every reachable state.                 *)
THEOREM Invariant == Spec => []IInv
<1>1. Init => IInv
  BY DEF Init, IInv, TypeOK, TablesAgree, ClaimsFollowBounty, TimesInOrder, WindowsOpenInTurn,
         RevealedRows, CommitsAreKnown
<1>2. QED
  BY <1>1, IInvStep, PTL DEF Spec

-----------------------------------------------------------------------------
(* A claim and its bounty agree at every moment, whatever the poll times.  *)
THEOREM ClaimsFollow == Spec => []ClaimsFollowBounty
<1>1. IInv => ClaimsFollowBounty
  BY DEF IInv, TablesAgree
<1>2. QED
  BY <1>1, Invariant, PTL

(* The deadlines are honoured, up to the lag of the revealer's clock.      *)
THEOREM DeadlinesHonoured == Spec => []TimesInOrder
<1>1. IInv => TimesInOrder
  BY DEF IInv, TablesAgree
<1>2. QED
  BY <1>1, Invariant, PTL

(* No claim is revealed with an artifact learnt from a rival on its bounty *)
(* by one who shares no commit hash with the rival.                        *)
THEOREM FrontRunningPrevented == Spec => []NoFrontRunning
<1>1. ASSUME IInv, NEW c \in DOMAIN claims, claims[c].artifact # NoArtifact
      PROVE  \/ claims[c].artifact \in Knows[claims[c].claimant]
             \/ \E e \in DOMAIN claims : PublicElsewhere(e, c)
             \/ \E d \in DOMAIN claims :
                    /\ claims[d].commit = claims[c].commit
                    /\ MayShareHash(claims[d].claimant, claims[c].claimant)
  <2>1. /\ claims[c].artifact = claims[c].commit.artifact
        /\ \E n \in Nonce : claims[c].commit.tail = Joined(n, claims[c].claimant)
    BY <1>1 DEF IInv, TablesAgree, RevealedRows
  <2>2. PICK d \in DOMAIN claims :
            /\ SameHash(d, c)
            /\ \/ claims[c].commit.artifact \in Knows[claims[d].claimant]
               \/ \E e \in DOMAIN claims : PublicElsewhere(e, c)
    BY <1>1 DEF IInv, TablesAgree, CommitsAreKnown
  <2>3. CASE claims[d].claimant = claims[c].claimant
    BY <2>1, <2>2, <2>3
  <2>4. CASE claims[d].claimant # claims[c].claimant
    BY <2>1, <2>2, <2>4 DEF SameHash, MayShareHash
  <2>5. QED
    BY <2>3, <2>4
<1>2. IInv => NoFrontRunning
  BY <1>1 DEF IInv, TablesAgree, RevealedRows, NoFrontRunning, PublicElsewhere
<1>3. QED
  BY <1>2, Invariant, PTL

(* Where no two accounts can open one hash, as when all nonces have one    *)
(* length, a reveal never serves a rival on the bounty at all.  The command*)
(* draws nonces of 32 bytes, but revealClaim takes any.                    *)
COROLLARY RevealServesNoRival ==
    ASSUME \A p, q \in Account : ~MayShareHash(p, q)
    PROVE  Spec => [](\A c \in DOMAIN claims : claims[c].artifact # NoArtifact =>
                        \/ claims[c].artifact \in Knows[claims[c].claimant]
                        \/ \E d \in DOMAIN claims :
                            /\ claims[d].bounty # claims[c].bounty
                            /\ claims[d].artifact = claims[c].artifact)
<1>1. TypeOK /\ NoFrontRunning =>
        \A c \in DOMAIN claims : claims[c].artifact # NoArtifact =>
            \/ claims[c].artifact \in Knows[claims[c].claimant]
            \/ \E d \in DOMAIN claims :
                /\ claims[d].bounty # claims[c].bounty
                /\ claims[d].artifact = claims[c].artifact
  BY DEF NoFrontRunning, TypeOK, ClaimRow
<1>2. QED
  BY <1>1, TypeCorrect, FrontRunningPrevented, PTL

-----------------------------------------------------------------------------
(* The steps that move a bounty and its claims leave decided rows alone.   *)
LEMMA MovesKeepDecisions ==
    ASSUME IInv, NEW b, NEW old, NEW from, NEW to, NEW status,
           <<old, from, to, status>> \in Moved, Moves(b, old, from, to, status)
    PROVE  DecisionsKept
<1>1. /\ from \in {"COMMITTED", "REVEALED"} /\ old \in {"REVEAL", "CHECK"}
      /\ bounties[b].status = old
  BY DEF Moved, Moves
<1>2. /\ DOMAIN claims' = DOMAIN claims
      /\ \A c \in DOMAIN claims : claims[c].status # from => claims'[c] = claims[c]
  BY DEF Moves, MoveClaims
<1>3. /\ DOMAIN bounties' = DOMAIN bounties
      /\ \A x \in DOMAIN bounties : x # b => bounties'[x] = bounties[x]
  BY DEF Moves, IInv, TypeOK
<1>4. QED
  BY <1>1, <1>2, <1>3 DEF DecisionsKept

(* No step disturbs a decided claim or bounty.                             *)
LEMMA DecisionsStep == IInv /\ [Next]_vars => [DecisionsKept]_vars
<1> SUFFICES ASSUME IInv, Next PROVE DecisionsKept
  OBVIOUS
<1>1. CASE Tick
  BY <1>1 DEF Tick, DecisionsKept
<1>2. CASE Post
  BY <1>2 DEF Post, PostBounty, Insert, DecisionsKept
<1>3. CASE Commit
  BY <1>3 DEF Commit, CommitClaim, Insert, DecisionsKept
<1>4. ASSUME NEW c, NEW artifact, NEW nonce, NEW nowMs,
             RevealClaim(c, artifact, nonce, nowMs)
      PROVE  DecisionsKept
  BY <1>4 DEF RevealClaim, DecisionsKept, IInv, TypeOK
<1>5. ASSUME NEW b, NEW tReveal, NEW nowMs, OpenReveal(b, tReveal, nowMs)
      PROVE  DecisionsKept
  BY <1>5 DEF OpenReveal, CommitsDue, DecisionsKept, IInv, TypeOK
<1>6. ASSUME NEW b, NEW nowMs, CloseReveal(b, nowMs)
      PROVE  DecisionsKept
  <2>1. Moves(b, "REVEAL", "COMMITTED", "LAPSED", "CHECK")
    BY <1>6 DEF CloseReveal, RevealsDue, Moves
  <2>2. QED
    BY <2>1, MovesKeepDecisions DEF Moved
<1>7. ASSUME NEW b, NEW batch, FinalizeBounty(b, batch)
      PROVE  DecisionsKept
  <2>1. CASE Accepted(b, batch)
    <3>1. Moves(b, "CHECK", "REVEALED", "VALID", "ACCEPT")
      BY <1>7, <2>1 DEF FinalizeBounty, Decide, Moves
    <3>2. QED
      BY <3>1, MovesKeepDecisions DEF Moved
  <2>2. CASE ~Accepted(b, batch)
    <3>1. Moves(b, "CHECK", "REVEALED", "INVALID", "REJECT")
      BY <1>7, <2>2 DEF FinalizeBounty, Decide, Moves
    <3>2. QED
      BY <3>1, MovesKeepDecisions DEF Moved
  <2>3. QED
    BY <2>1, <2>2
<1>8. CASE UNCHANGED vars
  BY <1>8 DEF vars, DecisionsKept
<1>9. QED
  BY <1>1, <1>2, <1>3, <1>4, <1>5, <1>6, <1>7, <1>8
     DEF Next, Reveal, Transition, TransitionBounty, Finalize

(* Decisions are final, whatever is called afterwards.                     *)
THEOREM DecisionsStand == Spec => DecisionsAreFinal
<1>1. QED
  BY DecisionsStep, Invariant, PTL DEF Spec, DecisionsAreFinal
=============================================================================
