--------------------------- MODULE DuolingoEscrow ---------------------------
(***************************************************************************)
(* contracts/LockInDuolingoEscrow.sol: fixed-stake Locks settled on a      *)
(* cumulative XP delta that the backend attests twice per player, once as  *)
(* a BASELINE with the stake and once as a FINAL.                          *)
(*                                                                         *)
(* One action per external function. A revert leaves the chain as it was,  *)
(* so the conditions of the code's reverts are the guards. Every action    *)
(* that takes evidence is given the set of attestations its caller could   *)
(* present, so that this module can be run against every attestation the   *)
(* signing key could ever produce (Spec below) and, in DuolingoLock,       *)
(* against those the backend really issued.                                *)
(*                                                                         *)
(* The hash of a configuration is the configuration itself: keccak of its  *)
(* fields and the createNonce, which tells two Locks with the same terms   *)
(* apart. A signature is the pair of the account (and Lock) it covers and  *)
(* the key that made it.                                                   *)
(***************************************************************************)
EXTENDS CompletionPauses, Integers, FiniteSets

CONSTANTS
    Wallets, NoAddress,         \* accounts; address(0)
    Identities, NoIdentity,     \* HMAC pseudonyms of Duolingo profiles; bytes32(0)
    Nullifiers,                 \* proof nullifiers
    IdentitiesOf, NullifiersOf, \* those the proofs of a wallet may carry
    Nonces,                     \* createNonce values other than zero
    Signers,                    \* keys evidenceSigner may be set to
    PactIds,                    \* pact ids, 1 .. MaxPacts
    Stakes, Targets,            \* stake and target XP values inside the limits
    MinParticipants, MaxParticipants,
    MinDuration, MaxDuration, MaxStartDelay,
    SubmissionGrace, MaxAttestationAge, MaxClockSkew

ASSUME EscrowConstants ==
    /\ IsFiniteSet(Wallets) /\ NoAddress \notin Wallets
    /\ NoIdentity \notin Identities
    /\ IdentitiesOf \in [Wallets -> SUBSET Identities]
    /\ NullifiersOf \in [Wallets -> SUBSET Nullifiers]
    /\ PactIds \subseteq Nat \ {0} /\ IsFiniteSet(PactIds)
    /\ Stakes \subseteq Nat \ {0} /\ Targets \subseteq Nat \ {0}
    /\ MinParticipants \in Nat \ {0} /\ MaxParticipants \in Nat
    /\ MinDuration \in Nat \ {0} /\ MaxDuration \in Nat /\ MaxStartDelay \in Nat
    /\ SubmissionGrace \in Nat /\ MaxAttestationAge \in Nat /\ MaxClockSkew \in Nat

VARIABLES
    creationPaused, joiningPaused,
    evidenceSigner,
    nextPactId,
    pacts,                \* pact id -> DuoPact, the zero record until created
    joined,               \* pact id -> wallets whose stake is in the Lock
    completed,            \* pact id -> wallets with an accepted final
    participantIdentity,  \* pact id -> wallet -> identity
    identityOwner,        \* pact id -> identity -> wallet
    claimed,              \* pact id -> wallets that have claimed
    usedNullifiers,
    vault,                \* stakeToken.balanceOf(this)
    payout                \* the PayoutClaimed events: pact id -> wallet -> amount

adminVars == <<creationPaused, joiningPaused, evidenceSigner>>
lockVars  == <<nextPactId, pacts, joined, participantIdentity, identityOwner>>
paidVars  == <<claimed, vault, payout>>
vars == <<now, pauseVars, adminVars, lockVars, completed, usedNullifiers, paidVars>>

Times == 0 .. MaxTime

Configurations ==
    [stake : Stakes, targetXp : Targets, durationSeconds : MinDuration .. MaxDuration,
     minParticipants : MinParticipants .. MaxParticipants,
     maxParticipants : MinParticipants .. MaxParticipants,
     startsAt : Times, createNonce : Nonces]

ZeroTerms == [stake |-> 0, targetXp |-> 0, durationSeconds |-> 0, minParticipants |-> 0,
              maxParticipants |-> 0, startsAt |-> 0, createNonce |-> 0]

DuoPact == [creator : Wallets \cup {NoAddress}, terms : Configurations \cup {ZeroTerms},
            participantCount : Nat, finisherCount : Nat, claimsRemaining : Nat,
            remainingPool : Nat, finalized : BOOLEAN, cancelled : BOOLEAN]

ZeroPact == [creator |-> NoAddress, terms |-> ZeroTerms, participantCount |-> 0,
             finisherCount |-> 0, claimsRemaining |-> 0, remainingPool |-> 0,
             finalized |-> FALSE, cancelled |-> FALSE]

Init ==
    /\ InitPauses
    /\ creationPaused = TRUE /\ joiningPaused = TRUE
    /\ evidenceSigner \in Signers
    /\ nextPactId = 1
    /\ pacts = [p \in PactIds |-> ZeroPact]
    /\ joined = [p \in PactIds |-> {}]
    /\ completed = [p \in PactIds |-> {}]
    /\ participantIdentity = [p \in PactIds |-> [w \in Wallets |-> NoIdentity]]
    /\ identityOwner = [p \in PactIds |-> [i \in Identities |-> NoAddress]]
    /\ claimed = [p \in PactIds |-> {}]
    /\ usedNullifiers = {}
    /\ vault = 0
    /\ payout = [p \in PactIds |-> [w \in Wallets |-> 0]]

-----------------------------------------------------------------------------
(* Reads of a Lock.                                                        *)

Exists(p) == pacts[p].creator # NoAddress
terms(p) == pacts[p].terms
startsAt(p) == terms(p).startsAt
endsAt(p) == startsAt(p) + terms(p).durationSeconds
submissionDeadline(p) == endsAt(p) + SubmissionGrace
underfilled(p) == pacts[p].participantCount < terms(p).minParticipants

(* A wallet that may claim once the Lock is finalized: everybody when the  *)
(* Lock is refunded or nobody finished, the finishers otherwise.           *)
Refunded(p) == pacts[p].cancelled \/ pacts[p].finisherCount = 0
Eligible(p, w) == w \in joined[p] /\ (Refunded(p) \/ w \in completed[p])

-----------------------------------------------------------------------------
(* Evidence.                                                               *)

attestationWindowOK(e) ==
    /\ e.expiresAt >= now
    /\ e.issuedAt <= now + MaxClockSkew
    /\ e.issuedAt <= e.expiresAt
    /\ e.issuedAt + MaxAttestationAge >= now
    /\ e.expiresAt <= e.issuedAt + MaxAttestationAge

Bug_baselineOK(w, configHash, b) ==   \* bug: the nullifier is not looked up
    /\ b.configHash = configHash
    /\ attestationWindowOK(b)
    /\ b.account = w /\ b.signer = evidenceSigner

(* _consumeBaseline's checks; the nullifier is marked by the caller.       *)
baselineOK(w, configHash, b) ==
    /\ b.configHash = configHash
    /\ attestationWindowOK(b)
    /\ b.nullifier \notin usedNullifiers
    /\ b.account = w /\ b.signer = evidenceSigner

Bug_identityFree(p, w, i) ==   \* bug: only one of the two maps is checked
    participantIdentity[p][w] \in {NoIdentity, i}

(* _bindIdentity, for a wallet that has no identity in the Lock yet, which *)
(* joining guarantees.                                                     *)
identityFree(p, w, i) ==
    /\ participantIdentity[p][w] \in {NoIdentity, i}
    /\ identityOwner[p][i] \in {NoAddress, w}

bindIdentity(p, w, i) ==
    /\ participantIdentity' = [participantIdentity EXCEPT ![p][w] = i]
    /\ identityOwner' = [identityOwner EXCEPT ![p][i] = w]

finalOK(p, w, f) ==
    /\ f.occurredAt >= startsAt(p) /\ f.occurredAt <= endsAt(p)
    /\ f.occurredAt <= now + MaxClockSkew
    /\ f.nullifier \notin usedNullifiers
    /\ f.targetXp = terms(p).targetXp
    /\ f.earnedXp >= terms(p).targetXp
    /\ f.identityHash = participantIdentity[p][w]
    /\ attestationWindowOK(f)
    /\ f.pactId = p /\ f.account = w /\ f.signer = evidenceSigner

Bug_submissionOpen(p) ==   \* bug: the deadline is not exclusive
    now >= startsAt(p) /\ now <= submissionDeadline(p)

submissionOpen(p) == now >= startsAt(p) /\ now < submissionDeadline(p)

-----------------------------------------------------------------------------
(* Players.                                                                *)

(* _validateConfiguration; the limits on stake, target and duration are    *)
(* those of Configurations.                                                *)
configurationOK(c) ==
    /\ c.minParticipants <= c.maxParticipants
    /\ c.startsAt > now
    /\ c.startsAt <= now + MaxStartDelay

createPact(w, c, baselines) ==
    /\ ~creationPaused
    /\ nextPactId \in PactIds
    /\ configurationOK(c)
    /\ \E b \in baselines :
          /\ baselineOK(w, c, b)
          /\ identityFree(nextPactId, w, b.identityHash)
          /\ usedNullifiers' = usedNullifiers \cup {b.nullifier}
          /\ bindIdentity(nextPactId, w, b.identityHash)
    /\ pacts' = [pacts EXCEPT ![nextPactId] =
          [ZeroPact EXCEPT !.creator = w, !.terms = c, !.participantCount = 1]]
    /\ joined' = [joined EXCEPT ![nextPactId] = @ \cup {w}]
    /\ nextPactId' = nextPactId + 1
    /\ vault' = vault + c.stake
    /\ UNCHANGED <<now, pauseVars, adminVars, completed, claimed, payout>>

Bug_joinOpen(p) ==   \* bug: joining stays open after the start
    /\ ~pacts[p].cancelled /\ ~pacts[p].finalized
    /\ pacts[p].participantCount < terms(p).maxParticipants

Bug_joinOpenWhenClosed(p) ==   \* bug: a cancelled or settled Lock still takes stakes
    /\ now < startsAt(p)
    /\ pacts[p].participantCount < terms(p).maxParticipants

joinOpen(p) ==
    /\ ~pacts[p].cancelled /\ ~pacts[p].finalized
    /\ now < startsAt(p)
    /\ pacts[p].participantCount < terms(p).maxParticipants

joinPact(p, w, baselines) ==
    /\ ~joiningPaused
    /\ Exists(p)
    /\ joinOpen(p)
    /\ w \notin joined[p]
    /\ \E b \in baselines :
          /\ baselineOK(w, terms(p), b)
          /\ identityFree(p, w, b.identityHash)
          /\ usedNullifiers' = usedNullifiers \cup {b.nullifier}
          /\ bindIdentity(p, w, b.identityHash)
    /\ joined' = [joined EXCEPT ![p] = @ \cup {w}]
    /\ pacts' = [pacts EXCEPT ![p].participantCount = @ + 1]
    /\ vault' = vault + terms(p).stake
    /\ UNCHANGED <<now, pauseVars, adminVars, nextPactId, completed, claimed, payout>>

submitFinal(p, w, finals) ==
    /\ ~completionPaused
    /\ Exists(p)
    /\ ~pacts[p].cancelled /\ ~pacts[p].finalized
    /\ ~underfilled(p)
    /\ w \in joined[p] /\ w \notin completed[p]
    /\ submissionOpen(p)
    /\ \E f \in finals :
          /\ finalOK(p, w, f)
          /\ usedNullifiers' = usedNullifiers \cup {f.nullifier}
    /\ completed' = [completed EXCEPT ![p] = @ \cup {w}]
    /\ pacts' = [pacts EXCEPT ![p].finisherCount = @ + 1]
    /\ UNCHANGED <<now, pauseVars, adminVars, nextPactId, joined, participantIdentity,
                   identityOwner, paidVars>>

cancelPact(p, w) ==
    /\ Exists(p) /\ w = pacts[p].creator
    /\ ~pacts[p].finalized /\ ~pacts[p].cancelled
    /\ now < startsAt(p)
    /\ pacts' = [pacts EXCEPT ![p].cancelled = TRUE]
    /\ UNCHANGED <<now, pauseVars, adminVars, nextPactId, joined, completed,
                   participantIdentity, identityOwner, usedNullifiers, paidVars>>

-----------------------------------------------------------------------------
(* Settlement, open to anybody.                                            *)

Bug_refundDue(p) ==   \* bug: pauses during the grace period are forgotten
    \/ now >= startsAt(p) /\ underfilled(p)
    \/ completionPauseAffected(startsAt(p), endsAt(p))

(* Too few players at the start, or a pause that overlapped the submission *)
(* window: the Lock is refunded.                                           *)
refundDue(p) ==
    \/ now >= startsAt(p) /\ underfilled(p)
    \/ completionPauseAffected(startsAt(p), submissionDeadline(p))

Bug_finalizable(p) ==   \* bug: settlement has to wait for the end of a pause
    /\ ~completionPaused
    /\ \/ pacts[p].cancelled
       \/ now >= startsAt(p) /\ underfilled(p)
       \/ now >= submissionDeadline(p)

finalizable(p) ==
    \/ pacts[p].cancelled
    \/ now >= startsAt(p) /\ underfilled(p)
    \/ now >= submissionDeadline(p)

Bug_eligibleClaimants(p, cancelled) ==   \* bug: the Lock nobody finished
    IF cancelled THEN pacts[p].participantCount ELSE pacts[p].finisherCount

eligibleClaimants(p, cancelled) ==
    IF cancelled \/ pacts[p].finisherCount = 0 THEN pacts[p].participantCount
                                               ELSE pacts[p].finisherCount

finalizePact(p) ==
    /\ Exists(p)
    /\ ~pacts[p].finalized
    /\ finalizable(p)
    /\ LET cancelled == pacts[p].cancelled \/ refundDue(p)
       IN  pacts' = [pacts EXCEPT
              ![p].cancelled = cancelled,
              ![p].finalized = TRUE,
              ![p].claimsRemaining = eligibleClaimants(p, cancelled),
              ![p].remainingPool = terms(p).stake * pacts[p].participantCount]
    /\ UNCHANGED <<now, pauseVars, adminVars, nextPactId, joined, completed,
                   participantIdentity, identityOwner, usedNullifiers, paidVars>>

Bug_shareWholePool(p) == pacts[p].remainingPool           \* bug: no division
Bug_shareOfTotal(p) ==                                    \* bug: the pool is not reduced
    (terms(p).stake * pacts[p].participantCount) \div pacts[p].claimsRemaining
Bug_shareFixed(p) ==                                      \* bug: the last claim leaves dust
    (terms(p).stake * pacts[p].participantCount) \div eligibleClaimants(p, pacts[p].cancelled)

share(p) == pacts[p].remainingPool \div pacts[p].claimsRemaining

claim(p, w) ==
    /\ Exists(p)
    /\ pacts[p].finalized
    /\ w \notin claimed[p]
    /\ Eligible(p, w)
    /\ claimed' = [claimed EXCEPT ![p] = @ \cup {w}]
    /\ pacts' = [pacts EXCEPT ![p].remainingPool = @ - share(p),
                              ![p].claimsRemaining = @ - 1]
    /\ vault' = vault - share(p)
    /\ payout' = [payout EXCEPT ![p][w] = @ + share(p)]
    /\ UNCHANGED <<now, pauseVars, adminVars, nextPactId, joined, completed,
                   participantIdentity, identityOwner, usedNullifiers>>

-----------------------------------------------------------------------------
(* The owner.                                                              *)

cancelPactByOwner(p) ==
    /\ Exists(p)
    /\ ~pacts[p].finalized /\ ~pacts[p].cancelled
    /\ pacts' = [pacts EXCEPT ![p].cancelled = TRUE]
    /\ UNCHANGED <<now, pauseVars, adminVars, nextPactId, joined, completed,
                   participantIdentity, identityOwner, usedNullifiers, paidVars>>

setEvidenceSigner(k) ==
    /\ evidenceSigner' = k
    /\ UNCHANGED <<now, pauseVars, creationPaused, joiningPaused, lockVars, completed,
                   usedNullifiers, paidVars>>

setCreationPaused(paused) ==
    /\ creationPaused' = paused
    /\ UNCHANGED <<now, pauseVars, joiningPaused, evidenceSigner, lockVars, completed,
                   usedNullifiers, paidVars>>

setJoiningPaused(paused) ==
    /\ joiningPaused' = paused
    /\ UNCHANGED <<now, pauseVars, creationPaused, evidenceSigner, lockVars, completed,
                   usedNullifiers, paidVars>>

PauseCompletion(paused) ==
    /\ setCompletionPaused(paused)
    /\ UNCHANGED <<adminVars, lockVars, completed, usedNullifiers, paidVars>>

NextBlock ==
    /\ Tick
    /\ UNCHANGED <<pauseVars, adminVars, lockVars, completed, usedNullifiers, paidVars>>

-----------------------------------------------------------------------------
(* The contract on its own, run against every attestation its signing keys *)
(* could make: any identity and nullifier the wallet can prove, any        *)
(* validity window. DuolingoLock narrows this to what the backend signs.   *)

AnyBaseline(w, c) ==
    [account : {w}, configHash : {c}, identityHash : IdentitiesOf[w], nullifier : NullifiersOf[w],
     issuedAt : Times, expiresAt : Times, signer : Signers]

AnyFinal(p, w) ==
    [pactId : {p}, account : {w}, identityHash : IdentitiesOf[w], nullifier : NullifiersOf[w],
     earnedXp : {0} \cup Targets, targetXp : Targets, occurredAt : Times,
     issuedAt : Times, expiresAt : Times, signer : Signers]

PlayerNext ==
    \E w \in Wallets :
        \/ \E c \in Configurations : createPact(w, c, AnyBaseline(w, c))
        \/ \E p \in PactIds :
              \/ joinPact(p, w, AnyBaseline(w, terms(p)))
              \/ submitFinal(p, w, AnyFinal(p, w))
              \/ cancelPact(p, w)
              \/ claim(p, w)

OwnerNext ==
    \/ \E k \in Signers : setEvidenceSigner(k)
    \/ \E paused \in BOOLEAN :
          setCreationPaused(paused) \/ setJoiningPaused(paused) \/ PauseCompletion(paused)
    \/ \E p \in PactIds : cancelPactByOwner(p)

Next == PlayerNext \/ OwnerNext \/ NextBlock \/ \E p \in PactIds : finalizePact(p)

Spec == Init /\ [][Next]_vars

(* Blocks keep coming, and settlement needs nobody in particular: anybody  *)
(* may finalize, and a winner who wants the money keeps trying to claim.   *)
(* Nothing is assumed of the owner, of joiners or of finals.               *)
Fairness ==
    /\ WF_vars(NextBlock)
    /\ \A p \in PactIds : WF_vars(finalizePact(p))
    /\ \A p \in PactIds, w \in Wallets : WF_vars(claim(p, w))

FairSpec == Spec /\ Fairness
=============================================================================
