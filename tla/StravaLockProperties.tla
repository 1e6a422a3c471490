------------------------ MODULE StravaLockProperties ------------------------
(* What the Strava Lock owes its players, contract and backend together.   *)
EXTENDS StravaLock, FiniteSetsExt

AccessAttestation ==
    [account : Wallets, action : {"create", "join"}, pactId : PactIds \cup {0},
     configHash : Configurations, nonce : AccessNonces, issuedAt : Nat, expiresAt : Nat,
     signer : {AccessKey}]

CompletionAttestation ==
    [pactId : PactIds, account : Wallets, dayIndex : Nat, identityHash : Identities,
     eventNullifier : Nullifiers, metric : Nat, occurredAt : Nat, issuedAt : Nat,
     expiresAt : Nat, signer : {EvidenceKey}]

CompletionAccepted ==
    [pactId : PactIds, account : Wallets, dayIndex : Nat, metric : Nat,
     eventNullifier : Nullifiers, occurredAt : Nat]

EscrowTypeOK ==
    /\ PausesTypeOK
    /\ creationPaused \in BOOLEAN /\ joiningPaused \in BOOLEAN
    /\ evidenceSigner \in EvidenceSigners /\ accessSigner \in AccessSigners
    /\ nextPactId \in Nat \ {0}
    /\ pacts \in [PactIds -> Pact]
    /\ joined \in [PactIds -> SUBSET Wallets]
    /\ claimed \in [PactIds -> SUBSET Wallets]
    /\ completionBitmap \in [PactIds -> [Wallets -> SUBSET Nat]]
    /\ completionCount \in [PactIds -> [Wallets -> Nat]]
    /\ lastMetric \in [PactIds -> [Wallets -> Nat]]
    /\ participantIdentity \in [PactIds -> [Wallets -> Identities \cup {NoIdentity}]]
    /\ identityOwner \in [PactIds -> [Identities -> Wallets \cup {NoAddress}]]
    /\ usedEventNullifiers \subseteq Nullifiers
    /\ completionsAccepted \subseteq CompletionAccepted
    /\ usedAccessNonces \subseteq AccessNonces
    /\ missionIdentityOwner \in [Identities -> Wallets \cup {NoAddress}]
    /\ scoredUtcDay \in [Wallets -> SUBSET Nat] /\ missionDayScored \in [Wallets -> SUBSET Nat]
    /\ verifiedDays \in [Wallets -> Nat] /\ missionVerifiedDays \in [Wallets -> Nat]
    /\ lockScore \in [Wallets -> Nat]
    /\ vault \in Int
    /\ payout \in [PactIds -> [Wallets -> Nat]]

(* Every variable keeps its type: the contract's, and the attestations the *)
(* routes signed for it.                                                   *)
LockTypeOK ==
    /\ EscrowTypeOK
    /\ accesses \subseteq AccessAttestation
    /\ completions \subseteq CompletionAttestation

-----------------------------------------------------------------------------
(* Counters and money.                                                     *)

finishersOf(p) == {w \in Wallets : finisher(p, w)}
winners(p) == {w \in Wallets : Eligible(p, w)}
unpaid(p) == winners(p) \ claimed[p]

(* The bitmap and the two counters that are kept beside it never drift:    *)
(* the count is the number of days in the bitmap, stops at the requirement *)
(* and made its wallet a finisher exactly when it got there, so that a     *)
(* settled Lock expects exactly the claims its winners have still to make. *)
DaysAndCountersMatch ==
    \A p \in PactIds :
        /\ pacts[p].participantCount = Cardinality(joined[p])
        /\ pacts[p].finisherCount = Cardinality(finishersOf(p))
        /\ pacts[p].claimsRemaining =
              IF pacts[p].finalized THEN Cardinality(unpaid(p)) ELSE 0
        /\ \A w \in Wallets :
              /\ completionBitmap[p][w] \subseteq Days(p)
              /\ completionCount[p][w] = Cardinality(completionBitmap[p][w])
              /\ completionCount[p][w] <= terms(p).requiredCompletions
              /\ completionBitmap[p][w] # {} => w \in joined[p]

(* How far the settlement of a Lock has got, as module Settlement sees it. *)
outcomeOf(p) ==
    IF ~pacts[p].finalized THEN "open" ELSE IF pacts[p].cancelled THEN "refund" ELSE "split"

verdict(p) ==
    [refund |-> pacts[p].cancelled \/ refundDue(p), finishers |-> finishersOf(p),
     players |-> joined[p]]

ownerCancels(p) ==
    /\ ~pacts[p].finalized /\ ~pacts'[p].finalized
    /\ ~pacts[p].cancelled /\ pacts'[p].cancelled

(* From its deadline on, when the last day stops taking runs, the outcome  *)
(* of a Lock is decided however late it is finalized; only the owner's     *)
(* cancellation can still change it.                                       *)
OutcomeFrozenAtDeadline ==
    [][\A p \in PactIds :
          Exists(p) /\ now >= submissionDeadline(p) /\ ~ownerCancels(p)
              => verdict(p)' = verdict(p)]_lockSystemVars

-----------------------------------------------------------------------------
(* Admission.                                                              *)

(* One admission, one stake: the nonces used are as many as the stakes     *)
(* taken over all Locks, although nothing in a create attestation tells    *)
(* two Locks with the same terms apart.                                    *)
OneAdmissionOneStake ==
    LET stakes(p) == Cardinality(joined[p])
    IN  Cardinality(usedAccessNonces) = MapThenSumSet(stakes, PactIds)

-----------------------------------------------------------------------------
(* Runs.                                                                   *)

accepted(p, w, d) ==
    {e \in completionsAccepted : e.pactId = p /\ e.account = w /\ e.dayIndex = d}

(* Every completed day rests on one run of its own, a real outdoor run,    *)
(* started inside that Lock day and long enough; no run is behind two      *)
(* days, not of two Locks nor of two wallets. Who ran, and whom the wallet *)
(* plays as, are athletes that authorised this wallet, however rows and    *)
(* tokens moved in between. After a reconnection they may be two: a late   *)
(* refresh leaves the one's tokens on the row that names the other.        *)
EveryDayIsARunOfItsOwn ==
    /\ \A p \in PactIds, w \in Wallets : \A d \in completionBitmap[p][w] :
          \E e \in accepted(p, w, d) : LET run == activities[e.eventNullifier] IN
              /\ {run.athlete, participantIdentity[p][w]} \subseteq authorized[w]
              /\ run.startsAt \in dayStart(p, d) .. dayStart(p, d + 1) - 1
              /\ isRun(run) /\ outdoor(run) /\ plausible(run)
              /\ run.distance >= terms(p).dailyTarget
    /\ \A e, f \in completionsAccepted : e.eventNullifier = f.eventNullifier => e = f

(* Within a Lock an identity, the athlete a row names, plays for one       *)
(* wallet; the two maps that say so are inverse to one another.            *)
OneAthleteOnePlayer ==
    \A p \in PactIds :
        /\ \A i \in Identities, w \in Wallets :
              identityOwner[p][i] = w <=> participantIdentity[p][w] = i
        /\ \A w \in Wallets :
              completionBitmap[p][w] # {} <=> participantIdentity[p][w] # NoIdentity

(* The score is ten a day for exactly the UTC days on which the wallet had *)
(* a run accepted under an identity that scores for it: no UTC day counts  *)
(* twice when it touches two Lock days or two Locks, none is lost, and an  *)
(* identity used by another wallet first scores for that one only.         *)
ScoresCountUtcDaysOnce ==
    \A w \in Wallets :
        /\ scoredUtcDay[w] =
              {utcDay(e.occurredAt) : e \in {x \in completionsAccepted :
                  x.account = w /\ missionIdentityOwner[participantIdentity[x.pactId][w]] = w}}
        /\ missionDayScored[w] = scoredUtcDay[w]
        /\ verifiedDays[w] = Cardinality(scoredUtcDay[w])
        /\ missionVerifiedDays[w] = verifiedDays[w]
        /\ lockScore[w] = LockScorePerDay * verifiedDays[w]

-----------------------------------------------------------------------------
(* Every step of contract, routes and athletes is, Lock by Lock, a step of *)
(* the settlement that the Lock promises, or changes nothing of it: one    *)
(* stake for all, nobody buys in once somebody has finished, one decision, *)
(* and the whole pool to the winners in shares that differ by at most one  *)
(* base unit.                                                              *)
Promise(p) == INSTANCE Settlement WITH
    Players <- Wallets, stake <- terms(p).stake, players <- joined[p],
    finishers <- finishersOf(p), outcome <- outcomeOf(p), paid <- payout[p]

ImplementsSettlement ==
    [][\A p \in PactIds : [Promise(p)!Next]_(Promise(p)!svars)]_lockSystemVars
=============================================================================
