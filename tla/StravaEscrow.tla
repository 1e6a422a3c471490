---------------------------- MODULE StravaEscrow ----------------------------
(***************************************************************************)
(* contracts/LockInEscrow.sol, the Locks: fixed stakes, a number of days   *)
(* with a run on each of at least requiredCompletions of them, and a score *)
(* per UTC day that has nothing to do with the money. Handles and profile  *)
(* visibility share no state with this and are in module SocialBoard.      *)
(*                                                                         *)
(* One action per external function; the conditions of the reverts are its *)
(* guards. Actions that take evidence are given the set of attestations    *)
(* the caller could present. The hash of a configuration is the            *)
(* configuration; it holds nothing that tells two Locks with the same      *)
(* terms apart. A signature is what it covers plus the key that made it.   *)
(* There is one mission type, hence one policy hash, and neither appears.  *)
(***************************************************************************)
EXTENDS CompletionPauses, Integers, FiniteSets

CONSTANTS
    Wallets, NoAddress,         \* accounts; address(0)
    Identities, NoIdentity,     \* pseudonyms of Strava athletes; bytes32(0)
    Nullifiers,                 \* pseudonyms of Strava activities
    AccessNonces,               \* nonces of access attestations
    EvidenceSigners, AccessSigners,   \* keys the two signers may be set to
    PactIds,                    \* pact ids, 1 .. MaxPacts
    Configurations,             \* terms within _validateConfiguration's limits
    DayLength,                  \* 1 days
    SubmissionGrace, MaxStartDelay, MaxAttestationAge, MaxClockSkew,
    LockScorePerDay

Terms == [stake : Nat \ {0}, dailyTarget : Nat, durationDays : Nat \ {0},
          requiredCompletions : Nat \ {0}, minParticipants : Nat \ {0},
          maxParticipants : Nat, startsAt : Nat]

ASSUME StravaConstants ==
    /\ IsFiniteSet(Wallets) /\ NoAddress \notin Wallets
    /\ NoIdentity \notin Identities
    /\ PactIds \subseteq Nat \ {0} /\ IsFiniteSet(PactIds)
    /\ \A c \in Configurations :
          /\ c \in Terms
          /\ c.requiredCompletions <= c.durationDays /\ c.minParticipants <= c.maxParticipants
    /\ DayLength \in Nat \ {0} /\ MaxStartDelay \in Nat
    /\ SubmissionGrace \in Nat /\ SubmissionGrace <= DayLength
    /\ MaxAttestationAge \in Nat /\ MaxClockSkew \in Nat /\ LockScorePerDay \in Nat

VARIABLES
    creationPaused, joiningPaused,
    evidenceSigner, accessSigner,
    nextPactId,
    pacts,                  \* pact id -> Pact, the zero record until created
    joined,                 \* pact id -> wallets whose stake is in the Lock
    completionBitmap,       \* pact id -> wallet -> days completed
    completionCount,        \* pact id -> wallet -> their number, as the code counts it
    lastMetric,             \* pact id -> wallet -> metres of the last completion
    participantIdentity,    \* pact id -> wallet -> identity
    identityOwner,          \* pact id -> identity -> wallet
    claimed,                \* pact id -> wallets that have claimed
    usedEventNullifiers,
    completionsAccepted,    \* the CompletionAccepted events
    usedAccessNonces,
    usedHighFives,
    missionIdentityOwner,   \* identity -> the wallet it scores for, over all Locks
    scoredUtcDay,           \* wallet -> UTC days that scored
    missionDayScored,       \* the same per mission, of which there is one
    verifiedDays, missionVerifiedDays, lockScore,   \* wallet -> count
    vault,                  \* stakeToken.balanceOf(this), less what was sent past its functions
    payout                  \* the PayoutClaimed events: pact id -> wallet -> amount

switchVars == <<creationPaused, joiningPaused, evidenceSigner, accessSigner>>
lockVars  == <<nextPactId, pacts, joined, usedAccessNonces>>
identityVars == <<participantIdentity, identityOwner>>
scoreVars == <<missionIdentityOwner, scoredUtcDay, missionDayScored, verifiedDays,
               missionVerifiedDays, lockScore>>
dayVars == <<completionBitmap, completionCount, lastMetric, usedEventNullifiers,
             completionsAccepted, identityVars, scoreVars>>
paidVars == <<claimed, vault, payout>>
escrowVars == <<now, pauseVars, switchVars, lockVars, dayVars, usedHighFives, paidVars>>

ZeroTerms == [stake |-> 0, dailyTarget |-> 0, durationDays |-> 0, requiredCompletions |-> 0,
              minParticipants |-> 0, maxParticipants |-> 0, startsAt |-> 0]

Pact == [creator : Wallets \cup {NoAddress}, terms : Configurations \cup {ZeroTerms},
         participantCount : Nat, finisherCount : Nat, claimsRemaining : Nat,
         remainingPool : Nat, finalized : BOOLEAN, cancelled : BOOLEAN]

ZeroPact == [creator |-> NoAddress, terms |-> ZeroTerms, participantCount |-> 0,
             finisherCount |-> 0, claimsRemaining |-> 0, remainingPool |-> 0,
             finalized |-> FALSE, cancelled |-> FALSE]

perPlayer(x) == [p \in PactIds |-> [w \in Wallets |-> x]]
perWallet(x) == [w \in Wallets |-> x]

(* The constructor leaves all three switches paused.                       *)
EscrowInit ==
    /\ InitPauses
    /\ creationPaused = TRUE /\ joiningPaused = TRUE
    /\ evidenceSigner \in EvidenceSigners /\ accessSigner \in AccessSigners
    /\ nextPactId = 1
    /\ pacts = [p \in PactIds |-> ZeroPact]
    /\ joined = [p \in PactIds |-> {}] /\ claimed = [p \in PactIds |-> {}]
    /\ completionBitmap = perPlayer({})
    /\ completionCount = perPlayer(0) /\ lastMetric = perPlayer(0)
    /\ participantIdentity = perPlayer(NoIdentity)
    /\ identityOwner = [p \in PactIds |-> [i \in Identities |-> NoAddress]]
    /\ usedEventNullifiers = {} /\ completionsAccepted = {}
    /\ usedAccessNonces = {} /\ usedHighFives = {}
    /\ missionIdentityOwner = [i \in Identities |-> NoAddress]
    /\ scoredUtcDay = perWallet({}) /\ missionDayScored = perWallet({})
    /\ verifiedDays = perWallet(0) /\ missionVerifiedDays = perWallet(0)
    /\ lockScore = perWallet(0)
    /\ vault = 0 /\ payout = perPlayer(0)

-----------------------------------------------------------------------------
(* Reads of a Lock.                                                        *)

Exists(p) == pacts[p].creator # NoAddress
terms(p) == pacts[p].terms
startsAt(p) == terms(p).startsAt
endsAt(p) == startsAt(p) + terms(p).durationDays * DayLength
submissionDeadline(p) == endsAt(p) + SubmissionGrace
underfilled(p) == pacts[p].participantCount < terms(p).minParticipants
closed(p) == pacts[p].cancelled \/ pacts[p].finalized
Days(p) == 0 .. terms(p).durationDays - 1
dayStart(p, d) == startsAt(p) + d * DayLength

finisher(p, w) == w \in joined[p] /\ completionCount[p][w] >= terms(p).requiredCompletions
Refunded(p) == pacts[p].cancelled \/ pacts[p].finisherCount = 0
Eligible(p, w) == w \in joined[p] /\ (Refunded(p) \/ finisher(p, w))

-----------------------------------------------------------------------------
(* Admission.                                                              *)

attestationWindowOK(e) ==
    /\ e.expiresAt >= now
    /\ e.issuedAt <= now + MaxClockSkew
    /\ e.issuedAt <= e.expiresAt
    /\ e.issuedAt + MaxAttestationAge >= now
    /\ e.expiresAt <= e.issuedAt + MaxAttestationAge

Bug_accessOK(x, w, action, p, configHash) ==   \* bug: a nonce may be used again
    /\ x.configHash = configHash
    /\ attestationWindowOK(x)
    /\ x.account = w /\ x.action = action /\ x.pactId = p /\ x.signer = accessSigner

accessOK(x, w, action, p, configHash) ==
    /\ x.configHash = configHash
    /\ attestationWindowOK(x)
    /\ x.nonce \notin usedAccessNonces
    /\ x.account = w /\ x.action = action /\ x.pactId = p /\ x.signer = accessSigner

consumeAccess(w, action, p, configHash, accesses) ==
    \E x \in accesses :
        /\ accessOK(x, w, action, p, configHash)
        /\ usedAccessNonces' = usedAccessNonces \cup {x.nonce}

configurationOK(c) == c.startsAt > now /\ c.startsAt <= now + MaxStartDelay

createPact(w, c, accesses) ==
    /\ ~creationPaused
    /\ nextPactId \in PactIds
    /\ configurationOK(c)
    /\ consumeAccess(w, "create", 0, c, accesses)
    /\ pacts' = [pacts EXCEPT ![nextPactId] =
          [ZeroPact EXCEPT !.creator = w, !.terms = c, !.participantCount = 1]]
    /\ joined' = [joined EXCEPT ![nextPactId] = @ \cup {w}]
    /\ nextPactId' = nextPactId + 1
    /\ vault' = vault + c.stake
    /\ UNCHANGED <<now, pauseVars, switchVars, dayVars, usedHighFives, claimed, payout>>

joinOpen(p) ==
    /\ ~closed(p)
    /\ now < startsAt(p)
    /\ pacts[p].participantCount < terms(p).maxParticipants

joinable(p, w) == ~joiningPaused /\ Exists(p) /\ joinOpen(p) /\ w \notin joined[p]

joinPact(p, w, accesses) ==
    /\ joinable(p, w)
    /\ consumeAccess(w, "join", p, terms(p), accesses)
    /\ joined' = [joined EXCEPT ![p] = @ \cup {w}]
    /\ pacts' = [pacts EXCEPT ![p].participantCount = @ + 1]
    /\ vault' = vault + terms(p).stake
    /\ UNCHANGED <<now, pauseVars, switchVars, nextPactId, dayVars, usedHighFives, claimed,
                   payout>>

-----------------------------------------------------------------------------
(* Completions.                                                            *)

(* A day takes completions from its start to the end of the day after it.  *)
Bug_dayOpen(p, d) ==   \* bug: the end of the window is not exclusive
    now >= dayStart(p, d) /\ now <= dayStart(p, d) + DayLength + SubmissionGrace

dayOpen(p, d) ==
    now >= dayStart(p, d) /\ now < dayStart(p, d) + DayLength + SubmissionGrace

inDay(p, d, t) == t >= dayStart(p, d) /\ t < dayStart(p, d) + DayLength

Bug_identityFree(p, w, i) ==   \* bug: whether another wallet plays with it is not asked
    participantIdentity[p][w] \in {NoIdentity, i}

identityFree(p, w, i) ==
    /\ participantIdentity[p][w] \in {NoIdentity, i}
    /\ identityOwner[p][i] \in {NoAddress, w}

bindIdentity(p, w, i) ==
    /\ participantIdentity' = [participantIdentity EXCEPT ![p][w] = i]
    /\ identityOwner' = [identityOwner EXCEPT ![p][i] = w]

Bug_completionOK(p, w, d, e) ==   \* bug: the activity is not looked up
    /\ inDay(p, d, e.occurredAt)
    /\ e.occurredAt <= now + MaxClockSkew
    /\ e.pactId = p /\ e.account = w /\ e.dayIndex = d /\ e.signer = evidenceSigner
    /\ attestationWindowOK(e)
    /\ identityFree(p, w, e.identityHash)
    /\ e.metric >= terms(p).dailyTarget

completionOK(p, w, d, e) ==
    /\ inDay(p, d, e.occurredAt)
    /\ e.occurredAt <= now + MaxClockSkew
    /\ e.eventNullifier \notin usedEventNullifiers
    /\ e.pactId = p /\ e.account = w /\ e.dayIndex = d /\ e.signer = evidenceSigner
    /\ attestationWindowOK(e)
    /\ identityFree(p, w, e.identityHash)
    /\ e.metric >= terms(p).dailyTarget

utcDay(t) == t \div DayLength

Bug_scoreDay(w, day) ==   \* bug: the day is not marked, so every Lock scores it again
    /\ verifiedDays' = [verifiedDays EXCEPT ![w] = @ + 1]
    /\ lockScore' = [lockScore EXCEPT ![w] = @ + LockScorePerDay]
    /\ scoredUtcDay' = [scoredUtcDay EXCEPT ![w] = @ \cup {day}]

scoreDay(w, day) ==
    IF day \in scoredUtcDay[w]
    THEN UNCHANGED <<scoredUtcDay, verifiedDays, lockScore>>
    ELSE /\ scoredUtcDay' = [scoredUtcDay EXCEPT ![w] = @ \cup {day}]
         /\ verifiedDays' = [verifiedDays EXCEPT ![w] = @ + 1]
         /\ lockScore' = [lockScore EXCEPT ![w] = @ + LockScorePerDay]

scoreMissionDay(w, day) ==
    IF day \in missionDayScored[w]
    THEN UNCHANGED <<missionDayScored, missionVerifiedDays>>
    ELSE /\ missionDayScored' = [missionDayScored EXCEPT ![w] = @ \cup {day}]
         /\ missionVerifiedDays' = [missionVerifiedDays EXCEPT ![w] = @ + 1]

(* _recordVerifiedDay: an identity scores for the first wallet it was used *)
(* with, in whatever Lock; for another wallet it may complete, not score.  *)
recordVerifiedDay(w, i, t) ==
    IF missionIdentityOwner[i] \in {NoAddress, w}
    THEN /\ missionIdentityOwner' = [missionIdentityOwner EXCEPT ![i] = w]
         /\ scoreMissionDay(w, utcDay(t))
         /\ scoreDay(w, utcDay(t))
    ELSE UNCHANGED scoreVars

Bug_countCompletion(p, w) ==   \* bug: off by one, one day too many is asked for
    /\ completionCount' = [completionCount EXCEPT ![p][w] = @ + 1]
    /\ pacts' = IF completionCount[p][w] = terms(p).requiredCompletions
                THEN [pacts EXCEPT ![p].finisherCount = @ + 1] ELSE pacts

countCompletion(p, w) ==
    /\ completionCount' = [completionCount EXCEPT ![p][w] = @ + 1]
    /\ pacts' = IF completionCount[p][w] + 1 = terms(p).requiredCompletions
                THEN [pacts EXCEPT ![p].finisherCount = @ + 1] ELSE pacts

(* What is asked before the evidence is looked at.                         *)
completable(p, w, d) ==
    /\ ~completionPaused
    /\ Exists(p)
    /\ ~closed(p)
    /\ ~underfilled(p)
    /\ w \in joined[p]
    /\ completionCount[p][w] < terms(p).requiredCompletions
    /\ d \in Days(p)
    /\ dayOpen(p, d)
    /\ d \notin completionBitmap[p][w]

submitCompletion(p, w, d, completions) ==
    /\ completable(p, w, d)
    /\ \E e \in completions :
          /\ completionOK(p, w, d, e)
          /\ bindIdentity(p, w, e.identityHash)
          /\ lastMetric' = [lastMetric EXCEPT ![p][w] = e.metric]
          /\ usedEventNullifiers' = usedEventNullifiers \cup {e.eventNullifier}
          /\ completionsAccepted' = completionsAccepted \cup
                {[pactId |-> p, account |-> w, dayIndex |-> d, metric |-> e.metric,
                  eventNullifier |-> e.eventNullifier, occurredAt |-> e.occurredAt]}
          /\ recordVerifiedDay(w, e.identityHash, e.occurredAt)
    /\ completionBitmap' = [completionBitmap EXCEPT ![p][w] = @ \cup {d}]
    /\ countCompletion(p, w)
    /\ UNCHANGED <<now, pauseVars, switchVars, nextPactId, joined, usedAccessNonces,
                   usedHighFives, paidVars>>

reactable(p, w, to, d) ==
    /\ Exists(p)
    /\ to # w /\ d \in Days(p)
    /\ w \in joined[p] /\ to \in joined[p]
    /\ d \in completionBitmap[p][to]
    /\ <<p, w, to, d>> \notin usedHighFives

highFive(p, w, to, d) ==
    /\ reactable(p, w, to, d)
    /\ usedHighFives' = usedHighFives \cup {<<p, w, to, d>>}
    /\ UNCHANGED <<now, pauseVars, switchVars, lockVars, dayVars, paidVars>>

-----------------------------------------------------------------------------
(* Settlement.                                                             *)

cancel(p) ==
    /\ ~pacts[p].finalized /\ ~pacts[p].cancelled
    /\ pacts' = [pacts EXCEPT ![p].cancelled = TRUE]
    /\ UNCHANGED <<now, pauseVars, switchVars, nextPactId, joined, usedAccessNonces, dayVars,
                   usedHighFives, paidVars>>

cancellable(p, w) ==
    /\ Exists(p) /\ w = pacts[p].creator
    /\ ~closed(p)
    /\ now < startsAt(p)

cancelPact(p, w) == cancellable(p, w) /\ cancel(p)

cancelPactByOwner(p) == Exists(p) /\ cancel(p)

pauseAffected(p) == completionPauseAffected(startsAt(p), submissionDeadline(p))

refundDue(p) == (now >= startsAt(p) /\ underfilled(p)) \/ pauseAffected(p)

finalizable(p) ==
    /\ ~pacts[p].finalized
    /\ \/ pacts[p].cancelled
       \/ now >= startsAt(p) /\ underfilled(p)
       \/ now >= submissionDeadline(p)

Bug_eligibleClaimants(p, cancelled) ==   \* bug: the Lock nobody finished
    IF cancelled THEN pacts[p].participantCount ELSE pacts[p].finisherCount

eligibleClaimants(p, cancelled) ==
    IF cancelled \/ pacts[p].finisherCount = 0 THEN pacts[p].participantCount
                                               ELSE pacts[p].finisherCount

finalizePact(p) ==
    /\ Exists(p)
    /\ finalizable(p)
    /\ LET cancelled == pacts[p].cancelled \/ refundDue(p)
       IN  pacts' = [pacts EXCEPT
              ![p].cancelled = cancelled,
              ![p].finalized = TRUE,
              ![p].claimsRemaining = eligibleClaimants(p, cancelled),
              ![p].remainingPool = terms(p).stake * pacts[p].participantCount]
    /\ UNCHANGED <<now, pauseVars, switchVars, nextPactId, joined, usedAccessNonces, dayVars,
                   usedHighFives, paidVars>>

Bug_share(p) ==   \* bug: every share is taken of the whole pool
    (terms(p).stake * pacts[p].participantCount) \div pacts[p].claimsRemaining

share(p) == pacts[p].remainingPool \div pacts[p].claimsRemaining

claimable(p, w) ==
    /\ Exists(p) /\ pacts[p].finalized
    /\ w \notin claimed[p]
    /\ Eligible(p, w)

claim(p, w) ==
    /\ claimable(p, w)
    /\ claimed' = [claimed EXCEPT ![p] = @ \cup {w}]
    /\ pacts' = [pacts EXCEPT ![p].remainingPool = @ - share(p),
                              ![p].claimsRemaining = @ - 1]
    /\ vault' = vault - share(p)
    /\ payout' = [payout EXCEPT ![p][w] = @ + share(p)]
    /\ UNCHANGED <<now, pauseVars, switchVars, nextPactId, joined, usedAccessNonces, dayVars,
                   usedHighFives>>

-----------------------------------------------------------------------------
(* The owner, and the chain's clock.                                       *)

otherThanSwitches == <<now, pauseVars, lockVars, dayVars, usedHighFives, paidVars>>

setEvidenceSigner(k) ==
    /\ evidenceSigner' = k
    /\ UNCHANGED <<creationPaused, joiningPaused, accessSigner, otherThanSwitches>>

setAccessSigner(k) ==
    /\ accessSigner' = k
    /\ UNCHANGED <<creationPaused, joiningPaused, evidenceSigner, otherThanSwitches>>

setCreationPaused(paused) ==
    /\ creationPaused' = paused
    /\ UNCHANGED <<joiningPaused, evidenceSigner, accessSigner, otherThanSwitches>>

setJoiningPaused(paused) ==
    /\ joiningPaused' = paused
    /\ UNCHANGED <<creationPaused, evidenceSigner, accessSigner, otherThanSwitches>>

PauseCompletion(paused) ==
    /\ setCompletionPaused(paused)
    /\ UNCHANGED <<switchVars, lockVars, dayVars, usedHighFives, paidVars>>

NextBlock ==
    /\ Tick
    /\ UNCHANGED <<pauseVars, switchVars, lockVars, dayVars, usedHighFives, paidVars>>

OwnerNext ==
    \/ \E k \in EvidenceSigners : setEvidenceSigner(k)
    \/ \E k \in AccessSigners : setAccessSigner(k)
    \/ \E paused \in BOOLEAN :
          setCreationPaused(paused) \/ setJoiningPaused(paused) \/ PauseCompletion(paused)
    \/ \E p \in PactIds : cancelPactByOwner(p)

(* What players may do, with the attestations they hold.                   *)
PlayerNext(accesses, completions) ==
    \E w \in Wallets :
        \/ \E c \in Configurations : createPact(w, c, accesses)
        \/ \E p \in PactIds :
              \/ joinPact(p, w, accesses)
              \/ \E d \in Days(p) : submitCompletion(p, w, d, completions)
              \/ \E to \in Wallets, d \in Days(p) : highFive(p, w, to, d)
              \/ cancelPact(p, w)
              \/ claim(p, w)

EscrowNext(accesses, completions) ==
    \/ PlayerNext(accesses, completions)
    \/ \E p \in PactIds : finalizePact(p)
    \/ OwnerNext
    \/ NextBlock
=============================================================================
