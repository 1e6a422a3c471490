------------------------ MODULE StravaSettlementProofs ------------------------
(***************************************************************************)
(* What is proved of how a Strava Lock ends: from its deadline on nothing  *)
(* but the owner's cancellation changes the outcome; the pool goes to the  *)
(* winners as module Settlement promises; the operator's reconciliation    *)
(* and the pages agree with the contract. It rests on the types and the    *)
(* accounts of module StravaLockProofs and on the pause ledger's proofs.   *)
(***************************************************************************)
EXTENDS LockViews, StravaLockProofs, SumProofs


(* What a verdict on a Lock is made of, the pauses apart.                  *)
judged(p) == <<terms(p), pacts[p].participantCount, joined[p], completionCount[p]>>

(* The last day of a Lock ends with the Lock.                              *)
LEMMA LastDayEndsWithLock ==
  ASSUME NEW s \in Nat, NEW n \in Nat, NEW d \in 0 .. n - 1, NEW l \in Nat
  PROVE  s + d * l + l <= s + n * l /\ n * l \in Nat /\ d * l \in Nat
<1>1. PICK k \in Nat : n = d + 1 + k
  <2>1. n - d - 1 \in Nat /\ n = d + 1 + (n - d - 1)
    OBVIOUS
  <2> QED BY <2>1
<1>2. (d + 1 + k) * l = d * l + l + k * l
  OBVIOUS
<1>3. k * l \in Nat /\ d * l \in Nat /\ n * l \in Nat
  BY ProductIsNat
<1> QED BY <1>1, <1>2, <1>3

LEMMA WindowsAreProper ==
  ASSUME LockInv, NEW p \in PactIds, Exists(p)
  PROVE  /\ startsAt(p) \in Nat /\ submissionDeadline(p) \in Nat /\ p < nextPactId
         /\ startsAt(p) < submissionDeadline(p)
         /\ \A d \in Days(p) :
               dayStart(p, d) + DayLength + SubmissionGrace <= submissionDeadline(p)
<1>1. p < nextPactId /\ terms(p) \in Configurations
  BY ExistingLocks DEF LockInv, EscrowInv
<1> DEFINE s == terms(p).startsAt
           n == terms(p).durationDays
<1>2. s \in Nat /\ n \in Nat /\ n >= 1 /\ DayLength \in Nat /\ DayLength >= 1
      /\ SubmissionGrace \in Nat
  BY <1>1, StravaConstants DEF Terms
<1>3. startsAt(p) = s /\ submissionDeadline(p) = s + n * DayLength + SubmissionGrace
  BY DEF startsAt, submissionDeadline, endsAt
<1>4. \A d \in 0 .. n - 1 : dayStart(p, d) = s + d * DayLength
  BY DEF dayStart, startsAt
<1>5. Days(p) = 0 .. n - 1
  BY DEF Days
<1> HIDE DEF s, n
<1>6. \A d \in 0 .. n - 1 :
        s + d * DayLength + DayLength <= s + n * DayLength
        /\ n * DayLength \in Nat /\ d * DayLength \in Nat
  BY <1>2, LastDayEndsWithLock
<1>7. 0 \in 0 .. n - 1 /\ 0 * DayLength = 0
  BY <1>2
<1>8. s + 0 * DayLength + DayLength <= s + n * DayLength /\ n * DayLength \in Nat
  BY <1>6, <1>7
<1>9. s < s + n * DayLength + SubmissionGrace
      /\ s + n * DayLength + SubmissionGrace \in Nat
  BY <1>2, <1>7, <1>8
<1>10. ASSUME NEW d \in 0 .. n - 1
       PROVE  dayStart(p, d) + DayLength + SubmissionGrace <= s + n * DayLength + SubmissionGrace
  <2>1. PICK x \in Nat, y \in Nat : x = d * DayLength /\ y = n * DayLength
    BY <1>6
  <2>2. s + x + DayLength <= s + y
    BY <1>6, <2>1
  <2>3. s + x + DayLength + SubmissionGrace <= s + y + SubmissionGrace
    BY <1>2, <2>2
  <2> QED BY <1>4, <2>1, <2>3
<1> QED BY <1>1, <1>2, <1>3, <1>5, <1>9, <1>10

LEMMA RefundFrame ==
  ASSUME LockInv, LockInv', NEW p \in PactIds, Exists(p), judged(p)' = judged(p),
         UNCHANGED <<now, pauseVars>>
  PROVE  refundDue(p)' <=> refundDue(p)
<1>1. PICK s \in Nat, d \in Nat : s = startsAt(p) /\ d = submissionDeadline(p)
  BY WindowsAreProper
<1>2. s = startsAt(p)' /\ d = submissionDeadline(p)' /\ underfilled(p)' = underfilled(p)
  BY <1>1 DEF judged, startsAt, submissionDeadline, endsAt, underfilled, terms
<1>3. completionPauseAffected(s, d)' <=> completionPauseAffected(s, d)
  BY AffectedFrame DEF LockInv
<1> QED BY <1>1, <1>2, <1>3 DEF refundDue, pauseAffected

LEMMA VerdictFrame ==
  ASSUME NEW p \in PactIds, judged(p)' = judged(p), refundDue(p)' <=> refundDue(p),
         pacts'[p].cancelled = pacts[p].cancelled
  PROVE  verdict(p)' = verdict(p)
<1>1. joined'[p] = joined[p] /\ completionCount'[p] = completionCount[p] /\ terms(p)' = terms(p)
  BY DEF judged
<1>2. \A w : finisher(p, w)' <=> finisher(p, w)
  BY <1>1 DEF finisher
<1>3. finishersOf(p)' = finishersOf(p)
  BY <1>2 DEF finishersOf
<1>4. (pacts[p].cancelled \/ refundDue(p))' = (pacts[p].cancelled \/ refundDue(p))
  OBVIOUS
<1> QED BY <1>1, <1>3, <1>4 DEF verdict

(* Neither a route nor Strava reaches the contract.                        *)
LEMMA RoutesLeaveContract ==
  ASSUME Backend \/ Strava PROVE UNCHANGED escrowVars
BY DEF Backend, Strava, AdmitCreate, AdmitJoin, signAccess, Disconnect, LoadPolicy,
       ReadConnection, CheckIn, EndRequest, RecordActivity, Connect, RotateTokens

(* A day of a Lock whose deadline has passed takes no more runs.           *)
LEMMA NoDayAfterDeadline ==
  ASSUME LockInv, NEW p \in PactIds, Exists(p), now >= submissionDeadline(p), NEW d \in Days(p)
  PROVE  ~dayOpen(p, d)
<1>1. dayStart(p, d) + DayLength + SubmissionGrace <= submissionDeadline(p)
      /\ submissionDeadline(p) \in Nat
  BY WindowsAreProper
<1>2. now \in Nat
  BY TimesAreNumbers DEF LockInv, EscrowInv
<1>3. dayStart(p, d) + DayLength + SubmissionGrace \in Int
  <2>1. terms(p) \in Configurations
    BY ExistingLocks DEF LockInv, EscrowInv
  <2>2. terms(p).startsAt \in Nat /\ DayLength \in Nat /\ SubmissionGrace \in Nat
        /\ terms(p).durationDays \in Nat
    BY <2>1, StravaConstants DEF Terms
  <2>3. d \in Int
    BY <2>2 DEF Days
  <2>4. d * DayLength \in Int
    BY <2>2, <2>3
  <2> QED BY <2>2, <2>4 DEF dayStart, startsAt
<1> QED BY <1>1, <1>2, <1>3 DEF dayOpen

LEMMA ContractKeepsOutcome ==
  ASSUME LockInv, LockInv', EscrowNext(accesses, completions) \/ UNCHANGED escrowVars,
         NEW p \in PactIds, Exists(p), now >= submissionDeadline(p), ~ownerCancels(p)
  PROVE  verdict(p)' = verdict(p)
<1>0. /\ pacts \in [PactIds -> Pact] /\ pacts[p] \in Pact
      /\ joined \in [PactIds -> SUBSET Wallets]
      /\ completionCount \in [PactIds -> [Wallets -> Nat]]
      /\ p \in Nat /\ nextPactId \in Nat /\ now \in Nat
  <2>1. EscrowTypeOK /\ p \in Nat
    BY StravaConstants DEF LockInv, EscrowInv
  <2>2. now \in Nat
    BY <2>1, TimesAreNumbers
  <2> QED BY <2>1, <2>2 DEF EscrowTypeOK
<1>1. PICK s \in Nat, d \in Nat : /\ s = startsAt(p) /\ d = submissionDeadline(p)
                                  /\ s < d /\ now >= d /\ p < nextPactId
  BY WindowsAreProper
(* A step that leaves clock, ledger and what is judged as they are.        *)
<1>2. ASSUME UNCHANGED <<now, pauseVars>>, judged(p)' = judged(p),
             pacts'[p].cancelled = pacts[p].cancelled
      PROVE  verdict(p)' = verdict(p)
  BY <1>2, RefundFrame, VerdictFrame
<1>3. ASSUME NEW w \in Wallets, NEW c \in Configurations, createPact(w, c, accesses)
      PROVE  verdict(p)' = verdict(p)
  <2>1. UNCHANGED <<now, pauseVars, completionCount>>
    BY <1>3 DEF createPact, dayVars
  <2>2. pacts'[p] = pacts[p] /\ joined'[p] = joined[p]
    BY <1>0, <1>1, <1>3 DEF createPact
  <2> QED BY <1>2, <2>1, <2>2 DEF judged, terms
<1>4. ASSUME NEW w \in Wallets, NEW q \in PactIds, joinPact(q, w, accesses)
      PROVE  verdict(p)' = verdict(p)
  <2>1. UNCHANGED <<now, pauseVars, completionCount>>
    BY <1>4 DEF joinPact, dayVars
  <2>2. q # p
    BY <1>0, <1>1, <1>4 DEF joinPact, joinable, joinOpen
  <2>3. pacts'[p] = pacts[p] /\ joined'[p] = joined[p]
    BY <1>0, <1>4, <2>2 DEF joinPact
  <2> QED BY <1>2, <2>1, <2>3 DEF judged, terms
<1>5. ASSUME NEW w \in Wallets, NEW q \in PactIds, NEW k \in Days(q),
             submitCompletion(q, w, k, completions)
      PROVE  verdict(p)' = verdict(p)
  <2>1. UNCHANGED <<now, pauseVars, joined>>
    BY <1>5 DEF submitCompletion, lockVars
  <2>2. countCompletion(q, w) /\ dayOpen(q, k)
    BY <1>5 DEF submitCompletion, completable
  <2>3. q # p
    BY <2>2, NoDayAfterDeadline
  <2>4. pacts'[p] = pacts[p] /\ completionCount'[p] = completionCount[p]
    BY <1>0, <2>2, <2>3 DEF countCompletion
  <2> QED BY <1>2, <2>1, <2>4 DEF judged, terms
<1>6. ASSUME NEW w \in Wallets, NEW q \in PactIds, cancelPact(q, w)
      PROVE  verdict(p)' = verdict(p)
  <2>1. UNCHANGED <<now, pauseVars, joined, completionCount>>
    BY <1>6 DEF cancelPact, cancel, dayVars
  <2>2. q # p
    BY <1>0, <1>1, <1>6 DEF cancelPact, cancellable
  <2>3. pacts'[p] = pacts[p]
    BY <1>0, <1>6, <2>2 DEF cancelPact, cancel
  <2> QED BY <1>2, <2>1, <2>3 DEF judged, terms
<1>7. ASSUME NEW q \in PactIds, cancelPactByOwner(q) PROVE verdict(p)' = verdict(p)
  <2>1. UNCHANGED <<now, pauseVars, joined, completionCount>>
    BY <1>7 DEF cancelPactByOwner, cancel, dayVars
  <2>2. q # p
    BY <1>0, <1>7 DEF cancelPactByOwner, cancel, ownerCancels, Pact
  <2>3. pacts'[p] = pacts[p]
    BY <1>0, <1>7, <2>2 DEF cancelPactByOwner, cancel
  <2> QED BY <1>2, <2>1, <2>3 DEF judged, terms
<1>8. ASSUME NEW w \in Wallets, NEW q \in PactIds, claim(q, w)
      PROVE  verdict(p)' = verdict(p)
  <2>1. UNCHANGED <<now, pauseVars, joined, completionCount>>
    BY <1>8 DEF claim, dayVars
  <2>2. /\ pacts'[p].cancelled = pacts[p].cancelled /\ pacts'[p].terms = pacts[p].terms
        /\ pacts'[p].participantCount = pacts[p].participantCount
    BY <1>0, <1>8 DEF claim, Pact
  <2> QED BY <1>2, <2>1, <2>2 DEF judged, terms
<1>9. ASSUME NEW q \in PactIds, finalizePact(q) PROVE verdict(p)' = verdict(p)
  <2>1. UNCHANGED <<now, pauseVars, joined, completionCount>>
    BY <1>9 DEF finalizePact, dayVars
  <2>2. PICK b, m, n : /\ b <=> (pacts[q].cancelled \/ refundDue(q))
                       /\ pacts' = [pacts EXCEPT ![q].cancelled = b, ![q].finalized = TRUE,
                                        ![q].claimsRemaining = m, ![q].remainingPool = n]
    BY <1>9 DEF finalizePact
  <2>3. CASE q # p
    <3>1. pacts'[p] = pacts[p]
      BY <1>0, <2>2, <2>3
    <3> QED BY <1>2, <2>1, <3>1 DEF judged, terms
  <2>4. CASE q = p
    <3>1. /\ pacts'[p].cancelled = b /\ pacts'[p].terms = pacts[p].terms
          /\ pacts'[p].participantCount = pacts[p].participantCount
      BY <1>0, <2>2, <2>4 DEF Pact
    <3>2. judged(p)' = judged(p)
      BY <2>1, <3>1 DEF judged, terms
    <3>3. refundDue(p)' <=> refundDue(p)
      BY <2>1, <3>2, RefundFrame
    <3>4. (pacts[p].cancelled \/ refundDue(p))' = (pacts[p].cancelled \/ refundDue(p))
      BY <2>2, <2>4, <3>1, <3>3
    <3>5. \A w : finisher(p, w)' <=> finisher(p, w)
      BY <2>1, <3>1 DEF finisher, terms
    <3>6. finishersOf(p)' = finishersOf(p)
      BY <3>5 DEF finishersOf
    <3> QED BY <2>1, <3>4, <3>6 DEF verdict
  <2> QED BY <2>3, <2>4
<1>10. CASE \/ UNCHANGED escrowVars
            \/ \E k \in EvidenceSigners : setEvidenceSigner(k)
            \/ \E k \in AccessSigners : setAccessSigner(k)
            \/ \E paused \in BOOLEAN : setCreationPaused(paused) \/ setJoiningPaused(paused)
            \/ \E q \in PactIds, w \in Wallets, to \in Wallets :
                  \E k \in Days(q) : highFive(q, w, to, k)
  <2>1. UNCHANGED <<now, pauseVars, pacts, joined, completionCount>>
    BY <1>10 DEF escrowVars, setEvidenceSigner, setAccessSigner, setCreationPaused,
                 setJoiningPaused, otherThanSwitches, highFive, lockVars, dayVars
  <2> QED BY <1>2, <2>1 DEF judged, terms
<1>11. CASE NextBlock \/ \E paused \in BOOLEAN : PauseCompletion(paused)
  <2>1. UNCHANGED <<pacts, joined, completionCount>>
    BY <1>11 DEF NextBlock, PauseCompletion, lockVars, dayVars
  <2>2. judged(p)' = judged(p) /\ pacts'[p].cancelled = pacts[p].cancelled
    BY <2>1 DEF judged, terms
  <2>3. /\ s = startsAt(p)' /\ d = submissionDeadline(p)' /\ underfilled(p)' = underfilled(p)
    BY <1>1, <2>1 DEF startsAt, submissionDeadline, endsAt, underfilled, terms
  <2>4. now >= s /\ now' >= s
    BY <1>0, <1>1, <1>11 DEF NextBlock, Tick, PauseCompletion, setCompletionPaused
  <2>5. completionPauseAffected(s, d)' <=> completionPauseAffected(s, d)
    <3>1. CASE NextBlock
      BY <3>1, AffectedFrame DEF LockInv, NextBlock
    <3>2. CASE \E paused \in BOOLEAN : PauseCompletion(paused)
      BY <1>1, <3>2, SwitchCannotReopenWindow DEF LockInv, PauseCompletion
    <3> QED BY <1>11, <3>1, <3>2
  <2>6. refundDue(p)' <=> refundDue(p)
    BY <1>1, <2>3, <2>4, <2>5 DEF refundDue, pauseAffected
  <2> QED BY <2>2, <2>6, VerdictFrame
<1>12. CASE PlayerNext(accesses, completions)
  BY <1>3, <1>4, <1>5, <1>6, <1>8, <1>10, <1>12 DEF PlayerNext
<1> QED BY <1>7, <1>9, <1>10, <1>11, <1>12 DEF EscrowNext, OwnerNext

(* No run, reaction, claim, pause, upload or block that comes after the    *)
(* deadline of a Lock changes who gets what of it, however late somebody   *)
(* settles it; only the owner's cancellation does.                         *)
THEOREM OutcomeIsDecidedAtDeadline == LockSpec => OutcomeFrozenAtDeadline
<1>1. ASSUME LockInv, [LockNext]_lockSystemVars, NEW p \in PactIds,
             Exists(p), now >= submissionDeadline(p), ~ownerCancels(p)
      PROVE  verdict(p)' = verdict(p)
  <2>1. LockInv'
    BY <1>1, LockInvIsInductive
  <2>2. EscrowNext(accesses, completions) \/ UNCHANGED escrowVars
    BY <1>1, RoutesLeaveContract DEF LockNext, Contract, lockSystemVars
  <2> QED BY <1>1, <2>1, <2>2, ContractKeepsOutcome
<1>2. LockInv /\ [LockNext]_lockSystemVars =>
        [\A p \in PactIds :
            Exists(p) /\ now >= submissionDeadline(p) /\ ~ownerCancels(p)
                => verdict(p)' = verdict(p)]_lockSystemVars
  BY <1>1
<1> QED BY <1>2, LockInvIsInvariant, PTL DEF LockSpec, OutcomeFrozenAtDeadline

-----------------------------------------------------------------------------
(* The steps that matter to the stakes of a Lock; every other step of the  *)
(* system leaves all of this as it is, and the clock never goes back.      *)

stakeVars == <<lockVars, completionCount, paidVars>>

StakeStep ==
    \/ \E w \in Wallets, c \in Configurations : createPact(w, c, accesses)
    \/ \E w \in Wallets, p \in PactIds : joinPact(p, w, accesses) \/ claim(p, w)
    \/ \E w \in Wallets, p \in PactIds, d \in Int :
          d \in Days(p) /\ submitCompletion(p, w, d, completions)
    \/ \E p \in PactIds : finalizePact(p) \/ (Exists(p) /\ cancel(p))

LEMMA StakesChangeBySteps ==
  ASSUME [LockNext]_lockSystemVars
  PROVE  (StakeStep /\ now' = now) \/ (UNCHANGED stakeVars /\ (now' = now \/ now' = now + 1))
<1>1. CASE UNCHANGED escrowVars
  BY <1>1 DEF escrowVars, stakeVars, dayVars
<1>2. CASE Backend \/ Strava
  BY <1>1, <1>2, RoutesLeaveContract
<1>3. CASE PlayerNext(accesses, completions)
  <2>1. PICK w \in Wallets :
          \/ \E c \in Configurations : createPact(w, c, accesses)
          \/ \E p \in PactIds :
                \/ joinPact(p, w, accesses)
                \/ \E d \in Days(p) : submitCompletion(p, w, d, completions)
                \/ \E to \in Wallets, d \in Days(p) : highFive(p, w, to, d)
                \/ cancelPact(p, w)
                \/ claim(p, w)
    BY <1>3 DEF PlayerNext
  <2>2. ASSUME NEW c \in Configurations, createPact(w, c, accesses) PROVE StakeStep /\ now' = now
    BY <2>2 DEF StakeStep, createPact
  <2>3. ASSUME NEW p \in PactIds, joinPact(p, w, accesses) \/ claim(p, w)
        PROVE  StakeStep /\ now' = now
    <3>1. now' = now
      BY <2>3 DEF joinPact, claim
    <3> QED BY <2>3, <3>1 DEF StakeStep
  <2>4. ASSUME NEW p \in PactIds, NEW d \in Days(p), submitCompletion(p, w, d, completions)
        PROVE  StakeStep /\ now' = now
    <3>1. now' = now
      BY <2>4 DEF submitCompletion
    <3>2. d \in Int
      BY DEF Days
    <3> QED BY <2>4, <3>1, <3>2 DEF StakeStep
  <2>5. ASSUME NEW p \in PactIds, NEW to \in Wallets, NEW d \in Days(p), highFive(p, w, to, d)
        PROVE  UNCHANGED stakeVars /\ now' = now
    BY <2>5 DEF highFive, stakeVars, dayVars
  <2>6. ASSUME NEW p \in PactIds, cancelPact(p, w) PROVE StakeStep /\ now' = now
    <3>1. now' = now /\ Exists(p) /\ cancel(p)
      BY <2>6 DEF cancelPact, cancellable, cancel
    <3> QED BY <3>1 DEF StakeStep
  <2> QED BY <2>1, <2>2, <2>3, <2>4, <2>5, <2>6
<1>4. ASSUME NEW p \in PactIds, finalizePact(p) \/ cancelPactByOwner(p)
      PROVE  StakeStep /\ now' = now
  <2>1. now' = now
    BY <1>4 DEF finalizePact, cancelPactByOwner, cancel
  <2> QED BY <1>4, <2>1 DEF StakeStep, cancelPactByOwner
<1>5. CASE \/ \E k \in EvidenceSigners : setEvidenceSigner(k)
           \/ \E k \in AccessSigners : setAccessSigner(k)
           \/ \E paused \in BOOLEAN :
                 setCreationPaused(paused) \/ setJoiningPaused(paused) \/ PauseCompletion(paused)
           \/ NextBlock
  BY <1>5 DEF setEvidenceSigner, setAccessSigner, setCreationPaused, setJoiningPaused, Tick,
              PauseCompletion, setCompletionPaused, NextBlock, otherThanSwitches, stakeVars,
              dayVars
<1> QED BY <1>1, <1>2, <1>3, <1>4, <1>5 DEF LockNext, Contract, EscrowNext, OwnerNext,
        lockSystemVars

(* Who joins, by whom a stake is put down: createPact or joinPact.         *)
LEMMA JoinedChanges ==
  ASSUME LockInv, StakeStep
  PROVE  \/ \E p \in PactIds, w \in Wallets : \E i :
               /\ w \notin joined[p] /\ joined' = [joined EXCEPT ![p] = @ \cup {w}]
               /\ i \notin usedAccessNonces /\ usedAccessNonces' = usedAccessNonces \cup {i}
         \/ UNCHANGED <<joined, usedAccessNonces>>
<1>1. ASSUME NEW w \in Wallets, NEW c \in Configurations, createPact(w, c, accesses)
      PROVE  \E p \in PactIds : \E i :
               /\ w \notin joined[p] /\ joined' = [joined EXCEPT ![p] = @ \cup {w}]
               /\ i \notin usedAccessNonces /\ usedAccessNonces' = usedAccessNonces \cup {i}
  <2>1. PICK n \in PactIds : n = nextPactId
    BY <1>1 DEF createPact
  <2>2. w \notin joined[n]
    BY <2>1, StravaConstants DEF LockInv, EscrowInv, Accounts, Untouched
  <2>3. PICK i : i \notin usedAccessNonces /\ usedAccessNonces' = usedAccessNonces \cup {i}
    BY <1>1 DEF createPact, consumeAccess, accessOK
  <2> QED BY <1>1, <2>1, <2>2, <2>3 DEF createPact
<1>2. ASSUME NEW w \in Wallets, NEW p \in PactIds, joinPact(p, w, accesses)
      PROVE  \E i :
               /\ w \notin joined[p] /\ joined' = [joined EXCEPT ![p] = @ \cup {w}]
               /\ i \notin usedAccessNonces /\ usedAccessNonces' = usedAccessNonces \cup {i}
  <2>1. PICK i : i \notin usedAccessNonces /\ usedAccessNonces' = usedAccessNonces \cup {i}
    BY <1>2 DEF joinPact, consumeAccess, accessOK
  <2> QED BY <1>2, <2>1 DEF joinPact, joinable
<1>3. ASSUME NEW w \in Wallets, NEW p \in PactIds, NEW d,
             \/ claim(p, w) \/ submitCompletion(p, w, d, completions)
             \/ finalizePact(p) \/ cancel(p)
      PROVE  UNCHANGED <<joined, usedAccessNonces>>
  BY <1>3 DEF claim, submitCompletion, finalizePact, cancel
<1>4. CASE \E p \in PactIds : finalizePact(p) \/ cancel(p)
  BY <1>4 DEF finalizePact, cancel
<1> QED BY <1>1, <1>2, <1>3, <1>4 DEF StakeStep

-----------------------------------------------------------------------------
(* Admission: an access nonce is spent with every stake put down, and      *)
(* never twice.                                                            *)

Stakes(p) == Cardinality(joined[p])

LEMMA StakesAreNats == EscrowTypeOK => \A p \in PactIds : Stakes(p) \in Nat
<1> SUFFICES ASSUME EscrowTypeOK, NEW p \in PactIds PROVE Stakes(p) \in Nat
  OBVIOUS
<1>1. joined[p] \in SUBSET Wallets
  BY DEF EscrowTypeOK
<1> QED BY <1>1, WalletSetsFinite DEF Stakes

LEMMA StakesAreNatsNext == (EscrowTypeOK => \A p \in PactIds : Stakes(p) \in Nat)'
BY StakesAreNats, PTL

LEMMA StakesAreASum ==
  \A v : EscrowTypeOK /\ v = [p \in PactIds |-> Stakes(p)] =>
            (OneAdmissionOneStake <=> Cardinality(usedAccessNonces) = SumOf(v, PactIds))
<1> SUFFICES ASSUME EscrowTypeOK, NEW v, v = [p \in PactIds |-> Stakes(p)]
             PROVE  MapThenSumSet(Stakes, PactIds) = SumOf(v, PactIds)
  BY DEF OneAdmissionOneStake, Stakes
<1> DEFINE table(g) ==
             g = [s \in SUBSET PactIds |->
                    IF s = {} THEN 0
                    ELSE Stakes(CHOOSE x \in s : TRUE) + g[s \ {CHOOSE x \in s : TRUE}]]
<1>1. IsFiniteSet(PactIds) /\ \A x \in PactIds : v[x] = Stakes(x) /\ v[x] \in Int
  BY StakesAreNats, StravaConstants
<1>2. PICK t : IsAdditive(t, v, PactIds)
  BY <1>1, AdditiveTableExists
<1>3. \A g : table(g) <=> IsSumTable(g, v, PactIds)
  <2>1. \A s \in SUBSET PactIds :
           s # {} => v[CHOOSE x \in s : TRUE] = Stakes(CHOOSE x \in s : TRUE)
    BY <1>1
  <2> HIDE DEF Stakes
  <2> QED BY <2>1 DEF IsSumTable
<1>4. table(t)
  BY <1>2, <1>3, AdditiveIsTable
<1>5. table(CHOOSE g : table(g))
  <2> HIDE DEF table
  <2> QED BY <1>4
<1>6. (CHOOSE g : table(g)) = t
  <2> HIDE DEF table
  <2> QED BY <1>1, <1>2, <1>3, <1>5, TableIsUnique
<1>7. MapThenSumSet(Stakes, PactIds) = (CHOOSE g : table(g))[PactIds]
  BY DEF MapThenSumSet, MapThenFoldSet
<1>8. SumOf(v, PactIds) = t[PactIds]
  BY <1>1, <1>2, SumOfTable
<1> QED BY <1>6, <1>7, <1>8

LEMMA StakesAreASumNext ==
  (\A v : EscrowTypeOK /\ v = [p \in PactIds |-> Stakes(p)] =>
             (OneAdmissionOneStake <=> Cardinality(usedAccessNonces) = SumOf(v, PactIds)))'
BY StakesAreASum, PTL

NoncesSpent == IsFiniteSet(usedAccessNonces) /\ OneAdmissionOneStake

LEMMA NoncesSpentIsInductive ==
  ASSUME LockInv, NoncesSpent, [LockNext]_lockSystemVars
  PROVE  NoncesSpent'
<1>0. /\ EscrowTypeOK /\ EscrowTypeOK' /\ joined \in [PactIds -> SUBSET Wallets]
      /\ IsFiniteSet(PactIds)
  BY LockInvIsInductive, StravaConstants DEF LockInv, EscrowInv, EscrowTypeOK
<1>1. ASSUME NEW p \in PactIds, NEW w \in Wallets, w \notin joined[p],
             joined' = [joined EXCEPT ![p] = @ \cup {w}],
             NEW i, i \notin usedAccessNonces, usedAccessNonces' = usedAccessNonces \cup {i}
      PROVE  NoncesSpent'
  <2>1. PICK v : v = [q \in PactIds |-> Stakes(q)]
    OBVIOUS
  <2>2. PICK u : u = [q \in PactIds |-> Stakes(q)']
    OBVIOUS
  <2>3. \A q \in PactIds : v[q] = Stakes(q) /\ u[q] = Stakes(q)' /\ v[q] \in Int /\ u[q] \in Int
    BY <1>0, <2>1, <2>2, StakesAreNats, StakesAreNatsNext
  <2>4. \A q \in PactIds : q # p => Stakes(q)' = Stakes(q)
    BY <1>0, <1>1 DEF Stakes
  <2>5. Stakes(p)' = Stakes(p) + 1
    <3>1. joined'[p] = joined[p] \cup {w} /\ joined[p] \in SUBSET Wallets
      BY <1>0, <1>1
    <3> QED BY <1>1, <3>1, WalletSetsFinite, FS_AddElement DEF Stakes
  <2>6. \A q \in PactIds : v[q] \in Int /\ u[q] \in Int /\ (q # p => u[q] = v[q])
    BY <2>3, <2>4
  <2>7. SumOf(u, PactIds) = SumOf(v, PactIds) + u[p] - v[p]
    BY <1>0, <2>6, SumOfChange
  <2>8. Cardinality(usedAccessNonces) = SumOf(v, PactIds)
    BY <1>0, <2>1, StakesAreASum DEF NoncesSpent
  <2>9. OneAdmissionOneStake' <=> Cardinality(usedAccessNonces') = SumOf(u, PactIds)
    BY <1>0, <2>2, StakesAreASumNext
  <2>10. /\ IsFiniteSet(usedAccessNonces')
         /\ Cardinality(usedAccessNonces') = Cardinality(usedAccessNonces) + 1
         /\ Cardinality(usedAccessNonces) \in Nat
    BY <1>1, FS_AddElement, FS_CardinalityType DEF NoncesSpent
  <2>11. OneAdmissionOneStake'
    BY <2>3, <2>5, <2>7, <2>8, <2>9, <2>10
  <2> QED BY <2>10, <2>11 DEF NoncesSpent
<1>2. CASE UNCHANGED <<joined, usedAccessNonces>>
  BY <1>2 DEF NoncesSpent, OneAdmissionOneStake, MapThenSumSet, MapThenFoldSet
<1>3. UNCHANGED stakeVars => UNCHANGED <<joined, usedAccessNonces>>
  BY DEF stakeVars, lockVars
<1> QED BY <1>1, <1>2, <1>3, StakesChangeBySteps, JoinedChanges

(* One admission, one stake: whatever the players do with the attestations *)
(* the admission route signs, and although a create attestation names no   *)
(* Lock, no stake is taken on an attestation that was used before.         *)
THEOREM AdmissionsCountOnce == LockSpec => []OneAdmissionOneStake
<1>1. LockInit => NoncesSpent
  <2> SUFFICES ASSUME LockInit PROVE NoncesSpent
    OBVIOUS
  <2>1. EscrowTypeOK /\ IsFiniteSet(PactIds)
    BY LockInitHasInv, StravaConstants DEF LockInv, EscrowInv
  <2>2. usedAccessNonces = {} /\ \A p \in PactIds : Stakes(p) = 0
    BY FS_EmptySet DEF LockInit, EscrowInit, Stakes
  <2>3. PICK v : v = [p \in PactIds |-> Stakes(p)]
    OBVIOUS
  <2>4. SumOf(v, PactIds) = 0
    BY <2>1, <2>2, <2>3, SumOfZeros
  <2>5. IsFiniteSet({}) /\ Cardinality({}) = 0
    BY FS_EmptySet
  <2> QED BY <2>1, <2>2, <2>3, <2>4, <2>5, StakesAreASum DEF NoncesSpent
<1>2. LockInv /\ NoncesSpent /\ [LockNext]_lockSystemVars => NoncesSpent'
  BY NoncesSpentIsInductive
<1>3. NoncesSpent => OneAdmissionOneStake
  BY DEF NoncesSpent
<1> QED BY <1>1, <1>2, <1>3, LockInvIsInvariant, PTL DEF LockSpec

-----------------------------------------------------------------------------
(* What the contract owes, over all its Locks together.                    *)

ids == 1 .. nextPactId - 1

LiabilityFrom(r) == IF r.finalized THEN r.remainingPool ELSE r.terms.stake * r.participantCount

LEMMA LiabilityOfPact ==
  ASSUME NEW p
  PROVE  liabilityFor(p) = LiabilityFrom(pacts[p]) /\ liabilityFor(p)' = LiabilityFrom(pacts'[p])
BY DEF liabilityFor, LiabilityFrom, terms

LEMMA LiabilitiesAreInts == EscrowTypeOK => \A p \in PactIds : liabilityFor(p) \in Int
<1> SUFFICES ASSUME EscrowTypeOK, NEW p \in PactIds PROVE liabilityFor(p) \in Int
  OBVIOUS
<1>1. pacts[p] \in Pact
  BY DEF EscrowTypeOK
<1>2. /\ pacts[p].remainingPool \in Nat /\ pacts[p].participantCount \in Nat
      /\ terms(p).stake \in Nat
  BY <1>1, TermsAreNumbers DEF Pact, terms
<1>3. terms(p).stake * pacts[p].participantCount \in Nat
  BY <1>2, ProductIsNat
<1> QED BY <1>2, <1>3 DEF liabilityFor

LEMMA LiabilitiesAreIntsNext == (EscrowTypeOK => \A p \in PactIds : liabilityFor(p) \in Int)'
BY LiabilitiesAreInts, PTL

LEMMA LiabilitiesAreASum ==
  \A v : EscrowTypeOK /\ ids \subseteq PactIds /\ v = [p \in PactIds |-> liabilityFor(p)] =>
            MapThenSumSet(liabilityFor, ids) = SumOf(v, ids)
<1> SUFFICES ASSUME EscrowTypeOK, ids \subseteq PactIds,
                    NEW v, v = [p \in PactIds |-> liabilityFor(p)]
             PROVE  MapThenSumSet(liabilityFor, ids) = SumOf(v, ids)
  OBVIOUS
<1> DEFINE table(g) ==
             g = [s \in SUBSET ids |->
                    IF s = {} THEN 0
                    ELSE liabilityFor(CHOOSE x \in s : TRUE) + g[s \ {CHOOSE x \in s : TRUE}]]
<1>1. IsFiniteSet(ids) /\ \A x \in ids : v[x] = liabilityFor(x) /\ v[x] \in Int
  <2>1. IsFiniteSet(PactIds)
    BY StravaConstants
  <2> QED BY <2>1, LiabilitiesAreInts, FS_Subset
<1> HIDE DEF ids
<1>2. PICK t : IsAdditive(t, v, ids)
  BY <1>1, AdditiveTableExists
<1>3. \A g : table(g) <=> IsSumTable(g, v, ids)
  <2>1. \A s \in SUBSET ids :
           s # {} => v[CHOOSE x \in s : TRUE] = liabilityFor(CHOOSE x \in s : TRUE)
    BY <1>1
  <2> HIDE DEF liabilityFor
  <2> QED BY <2>1 DEF IsSumTable
<1>4. table(t)
  BY <1>2, <1>3, AdditiveIsTable
<1>5. table(CHOOSE g : table(g))
  <2> HIDE DEF table
  <2> QED BY <1>4
<1>6. (CHOOSE g : table(g)) = t
  <2> HIDE DEF table
  <2> QED BY <1>1, <1>2, <1>3, <1>5, TableIsUnique
<1>7. MapThenSumSet(liabilityFor, ids) = (CHOOSE g : table(g))[ids]
  BY DEF MapThenSumSet, MapThenFoldSet
<1>8. SumOf(v, ids) = t[ids]
  BY <1>1, <1>2, SumOfTable
<1> QED BY <1>6, <1>7, <1>8

(* The ids are contiguous and the vault holds what the Locks owe.          *)
Balanced == ids \subseteq PactIds /\ vault = MapThenSumSet(liabilityFor, ids)

LEMMA BalancedIsASum ==
  \A v : EscrowTypeOK /\ v = [p \in PactIds |-> liabilityFor(p)] =>
            (Balanced <=> ids \subseteq PactIds /\ vault = SumOf(v, ids))
BY LiabilitiesAreASum DEF Balanced

LEMMA BalancedIsASumNext ==
  (\A v : EscrowTypeOK /\ v = [p \in PactIds |-> liabilityFor(p)] =>
             (Balanced <=> ids \subseteq PactIds /\ vault = SumOf(v, ids)))'
BY BalancedIsASum, PTL

(* A step on one Lock that exists, which moves into the vault what it adds *)
(* to the debt.                                                            *)
LEMMA BalancedStep ==
  ASSUME EscrowTypeOK, EscrowTypeOK', Balanced, NEW p \in ids, nextPactId' = nextPactId,
         \A q \in PactIds : q # p => pacts'[q] = pacts[q],
         vault' = vault + LiabilityFrom(pacts'[p]) - LiabilityFrom(pacts[p])
  PROVE  Balanced'
<1>1. PICK v : v = [q \in PactIds |-> liabilityFor(q)]
  OBVIOUS
<1>2. PICK u : u = [q \in PactIds |-> liabilityFor(q)']
  OBVIOUS
<1>3. \A q \in PactIds :
        /\ v[q] = LiabilityFrom(pacts[q]) /\ u[q] = LiabilityFrom(pacts'[q])
        /\ v[q] \in Int /\ u[q] \in Int
  BY <1>1, <1>2, LiabilityOfPact, LiabilitiesAreInts, LiabilitiesAreIntsNext
<1>4. PICK I : I = ids
  OBVIOUS
<1>5. ids' = I /\ I \subseteq PactIds /\ p \in I /\ vault = SumOf(v, I)
  BY <1>1, <1>4, BalancedIsASum DEF Balanced, ids
<1>6. IsFiniteSet(I)
  <2>1. IsFiniteSet(PactIds)
    BY StravaConstants
  <2> QED BY <1>5, <2>1, FS_Subset
<1>7. \A q \in I : v[q] \in Int /\ u[q] \in Int /\ (q # p => u[q] = v[q])
  BY <1>3, <1>5
<1>8. SumOf(u, I) = SumOf(v, I) + u[p] - v[p]
  <2>1. p \in I
    BY <1>5
  <2> QED BY <1>6, <1>7, <2>1, SumOfChange
<1>9. vault' = SumOf(u, I)
  BY <1>3, <1>5, <1>8
<1>10. Balanced' <=> ids' \subseteq PactIds /\ vault' = SumOf(u, ids')
  BY <1>2, BalancedIsASumNext
<1> QED BY <1>5, <1>9, <1>10

LEMMA CreateKeepsBalance ==
  ASSUME LockInv, EscrowTypeOK', Balanced, NEW w \in Wallets, NEW c \in Configurations,
         createPact(w, c, accesses)
  PROVE  Balanced'
<1>0. EscrowTypeOK /\ Accounts /\ pacts \in [PactIds -> Pact]
  BY DEF LockInv, EscrowInv, EscrowTypeOK
<1>1. PICK n \in PactIds : n = nextPactId /\ n \in Nat
  BY StravaConstants DEF createPact
<1>2. PICK v : v = [q \in PactIds |-> liabilityFor(q)]
  OBVIOUS
<1>3. PICK u : u = [q \in PactIds |-> liabilityFor(q)']
  OBVIOUS
<1>4. PICK I, J : I = ids /\ J = ids'
  OBVIOUS
<1>5. /\ pacts' = [pacts EXCEPT ![n] =
                     [ZeroPact EXCEPT !.creator = w, !.terms = c, !.participantCount = 1]]
      /\ vault' = vault + c.stake /\ nextPactId' = n + 1
  BY <1>1 DEF createPact
<1>6. c.stake \in Nat
  BY TermsAreNumbers
<1>7. J \subseteq PactIds /\ n \in J /\ J \ {n} = I /\ vault = SumOf(v, I) /\ n \notin I
  <2>1. I = 1 .. n - 1 /\ J = 1 .. n /\ n >= 1
    BY <1>1, <1>4, <1>5, StravaConstants DEF ids
  <2>2. J = I \cup {n} /\ n \notin I /\ n \in J
    BY <1>1, <2>1
  <2>3. I \subseteq PactIds /\ vault = SumOf(v, I)
    BY <1>0, <1>2, <1>4, BalancedIsASum
  <2> QED BY <2>2, <2>3
<1>8. \A q \in PactIds :
        /\ v[q] = LiabilityFrom(pacts[q]) /\ u[q] = LiabilityFrom(pacts'[q])
        /\ v[q] \in Int /\ u[q] \in Int
  BY <1>0, <1>2, <1>3, LiabilityOfPact, LiabilitiesAreInts, LiabilitiesAreIntsNext
<1>9. \A q \in I : v[q] \in Int /\ u[q] = v[q]
  BY <1>0, <1>5, <1>7, <1>8
<1>10. u[n] = c.stake
  <2>1. pacts'[n] = [ZeroPact EXCEPT !.creator = w, !.terms = c, !.participantCount = 1]
    BY <1>0, <1>5
  <2>2. LiabilityFrom(pacts'[n]) = c.stake
    BY <1>6, <2>1 DEF LiabilityFrom, ZeroPact
  <2> QED BY <1>1, <1>8, <2>2
<1>11. IsFiniteSet(I) /\ IsFiniteSet(J)
  <2>1. IsFiniteSet(PactIds)
    BY StravaConstants
  <2> QED BY <1>7, <2>1, FS_Subset
<1>12. SumOf(u, J) = u[n] + SumOf(u, I)
  <2>1. \A q \in J : u[q] \in Int
    BY <1>7, <1>8
  <2>2. SumOf(u, J) = u[n] + SumOf(u, J \ {n})
    BY <1>7, <1>11, <2>1, SumSplit
  <2> QED BY <1>7, <2>2
<1>13. SumOf(u, I) = SumOf(v, I) /\ SumOf(v, I) \in Int
  BY <1>9, <1>11, SumAgrees, SumIsInt
<1>14. vault' = SumOf(u, J)
  BY <1>5, <1>6, <1>7, <1>10, <1>12, <1>13
<1>15. Balanced' <=> ids' \subseteq PactIds /\ vault' = SumOf(u, ids')
  BY <1>3, BalancedIsASumNext
<1> QED BY <1>4, <1>7, <1>14, <1>15

LEMMA BalancedIsInductive ==
  ASSUME LockInv, Balanced, [LockNext]_lockSystemVars
  PROVE  Balanced'
<1>0. /\ EscrowTypeOK /\ EscrowTypeOK' /\ Accounts /\ vault \in Int
      /\ pacts \in [PactIds -> Pact] /\ \A q \in PactIds : pacts[q] \in Pact
  BY LockInvIsInductive DEF LockInv, EscrowInv, EscrowTypeOK
<1>1. ASSUME NEW p \in PactIds, Exists(p) PROVE p \in ids
  <2>1. p \in Nat \ {0} /\ nextPactId \in Nat /\ p < nextPactId
    BY <1>0, <1>1, ExistingLocks, StravaConstants DEF EscrowTypeOK
  <2> QED BY <2>1 DEF ids
<1>2. ASSUME NEW w \in Wallets, NEW c \in Configurations, createPact(w, c, accesses)
      PROVE  Balanced'
  BY <1>0, <1>2, CreateKeepsBalance
<1>3. ASSUME NEW w \in Wallets, NEW p \in PactIds, joinPact(p, w, accesses)
      PROVE  Balanced'
  <2>1. /\ pacts' = [pacts EXCEPT ![p].participantCount = @ + 1] /\ ~pacts[p].finalized
        /\ vault' = vault + pacts[p].terms.stake /\ nextPactId' = nextPactId /\ Exists(p)
    BY <1>3 DEF joinPact, joinable, joinOpen, closed, terms
  <2>2. PICK s \in Nat, m \in Nat : s = pacts[p].terms.stake /\ m = pacts[p].participantCount
    BY <1>0, TermsAreNumbers DEF Pact
  <2>3. /\ pacts'[p].terms = pacts[p].terms /\ pacts'[p].participantCount = m + 1
        /\ pacts'[p].finalized = pacts[p].finalized
    BY <1>0, <2>1, <2>2 DEF Pact
  <2>4. LiabilityFrom(pacts[p]) = s * m /\ LiabilityFrom(pacts'[p]) = s * (m + 1)
    BY <2>1, <2>2, <2>3 DEF LiabilityFrom
  <2>5. s * (m + 1) = s * m + s /\ s * m \in Nat
    BY ProductIsNat
  <2>6. vault' = vault + LiabilityFrom(pacts'[p]) - LiabilityFrom(pacts[p])
    BY <1>0, <2>1, <2>2, <2>4, <2>5
  <2>7. \A q \in PactIds : q # p => pacts'[q] = pacts[q]
    BY <1>0, <2>1
  <2> QED BY <1>0, <1>1, <2>1, <2>6, <2>7, BalancedStep
<1>4. ASSUME NEW p \in PactIds,
             \/ cancel(p) /\ Exists(p)
             \/ \E w \in Wallets, d \in Int : submitCompletion(p, w, d, completions)
      PROVE  Balanced'
  <2>1. /\ vault' = vault /\ \A q \in PactIds : q # p => pacts'[q] = pacts[q]
        /\ nextPactId' = nextPactId /\ Exists(p)
    BY <1>0, <1>4 DEF cancel, submitCompletion, completable, countCompletion, paidVars
  <2>2. LiabilityFrom(pacts'[p]) = LiabilityFrom(pacts[p])
    BY <1>0, <1>4 DEF cancel, submitCompletion, countCompletion, LiabilityFrom, Pact
  <2>3. LiabilityFrom(pacts[p]) \in Int
    BY <1>0, LiabilitiesAreInts, LiabilityOfPact
  <2> QED BY <1>0, <1>1, <2>1, <2>2, <2>3, BalancedStep
<1>5. ASSUME NEW p \in PactIds, finalizePact(p)
      PROVE  Balanced'
  <2>1. PICK b, k, n : /\ pacts' = [pacts EXCEPT ![p].cancelled = b, ![p].finalized = TRUE,
                                        ![p].claimsRemaining = k, ![p].remainingPool = n]
                       /\ n = terms(p).stake * pacts[p].participantCount
    BY <1>5 DEF finalizePact
  <2>2. vault' = vault /\ ~pacts[p].finalized /\ nextPactId' = nextPactId /\ Exists(p)
    BY <1>5 DEF finalizePact, finalizable, paidVars
  <2>3. pacts'[p].finalized = TRUE /\ pacts'[p].remainingPool = n
    BY <1>0, <2>1 DEF Pact
  <2>4. LiabilityFrom(pacts'[p]) = n /\ LiabilityFrom(pacts[p]) = n
    BY <2>1, <2>2, <2>3 DEF LiabilityFrom, terms
  <2>5. n \in Int
    BY <1>0, <2>4, LiabilitiesAreInts, LiabilityOfPact
  <2>6. \A q \in PactIds : q # p => pacts'[q] = pacts[q]
    BY <1>0, <2>1
  <2>7. vault' = vault + LiabilityFrom(pacts'[p]) - LiabilityFrom(pacts[p])
    BY <1>0, <2>2, <2>4, <2>5
  <2> QED BY <1>0, <1>1, <2>2, <2>6, <2>7, BalancedStep
<1>6. ASSUME NEW w \in Wallets, NEW p \in PactIds, claim(p, w)
      PROVE  Balanced'
  <2>1. PICK s : s = share(p) /\
          pacts' = [pacts EXCEPT ![p].remainingPool = @ - s, ![p].claimsRemaining = @ - 1]
          /\ vault' = vault - s /\ pacts[p].finalized /\ nextPactId' = nextPactId /\ Exists(p)
    BY <1>6 DEF claim, claimable
  <2>2. pacts[p].remainingPool \in Nat
    BY <1>0 DEF Pact
  <2>3. s \in Nat
    <3>1. w \in unpaid(p) /\ unpaid(p) \in SUBSET Wallets
      BY <1>6 DEF claim, claimable, unpaid, winners
    <3>2. Cardinality(unpaid(p)) # 0
      BY <3>1, WalletSetsFinite, FS_EmptySet
    <3>3. pacts[p].claimsRemaining \in Nat /\ pacts[p].claimsRemaining >= 1
      BY <1>0, <2>1, <3>1, <3>2, WalletSetsFinite DEF Accounts, AccountsOf
    <3> QED BY <2>1, <2>2, <3>3, DivBounds DEF share
  <2>4. /\ pacts'[p].finalized = pacts[p].finalized
        /\ pacts'[p].remainingPool = pacts[p].remainingPool - s
    BY <1>0, <2>1 DEF Pact
  <2>5. /\ LiabilityFrom(pacts[p]) = pacts[p].remainingPool
        /\ LiabilityFrom(pacts'[p]) = pacts[p].remainingPool - s
    BY <2>1, <2>4 DEF LiabilityFrom
  <2>6. vault' = vault + LiabilityFrom(pacts'[p]) - LiabilityFrom(pacts[p])
    BY <1>0, <2>1, <2>2, <2>3, <2>5
  <2>7. \A q \in PactIds : q # p => pacts'[q] = pacts[q]
    BY <1>0, <2>1
  <2> QED BY <1>0, <1>1, <2>1, <2>6, <2>7, BalancedStep
<1>7. CASE UNCHANGED stakeVars
  BY <1>7 DEF stakeVars, lockVars, paidVars, Balanced, ids, liabilityFor, terms, MapThenSumSet,
              MapThenFoldSet
<1> QED BY <1>2, <1>3, <1>4, <1>5, <1>6, <1>7, StakesChangeBySteps DEF StakeStep

-----------------------------------------------------------------------------
(* Money. The inductive invariant of the claims: of a pool of q * n + e    *)
(* units for n winners, with e < n, what is left for the k that have not   *)
(* claimed yet is between q and q + 1 units each, and exactly q if e is 0. *)

pool(p) == terms(p).stake * pacts[p].participantCount
quota(p) == pool(p) \div Cardinality(winners(p))
exact(p) == pool(p) = Cardinality(winners(p)) * quota(p)

PaidOut(p) == SumOf(payout[p], Wallets)

PoolSplit(p) ==
    /\ winners(p) # {} /\ claimed[p] \subseteq winners(p)
    /\ pacts[p].remainingPool + PaidOut(p) = pool(p)
    /\ pacts[p].claimsRemaining * quota(p) <= pacts[p].remainingPool
    /\ pacts[p].remainingPool <=
          pacts[p].claimsRemaining * quota(p) + pacts[p].claimsRemaining
    /\ exact(p) => pacts[p].remainingPool = pacts[p].claimsRemaining * quota(p)
    /\ \A w \in claimed[p] :
          /\ payout[p][w] \in {quota(p), quota(p) + 1}
          /\ exact(p) => payout[p][w] = quota(p)

MoneyOf(p) ==
    /\ Exists(p) => pacts[p].creator \in joined[p]
    /\ \A w \in Wallets \ claimed[p] : payout[p][w] = 0
    /\ IF pacts[p].finalized THEN PoolSplit(p) ELSE pacts[p].remainingPool = 0

Money == \A p \in PactIds : MoneyOf(p)

moneyOf(p) == <<pacts[p], joined[p], completionCount[p], claimed[p], payout[p]>>

LEMMA PaidOutNext ==
  ASSUME NEW p \in PactIds PROVE PaidOut(p)' = SumOf(payout'[p], Wallets)
BY DEF PaidOut, SumOf, MapThenSumSet, MapThenFoldSet

(* Who wins depends on these alone.                                        *)
LEMMA WinnersFrame ==
  ASSUME NEW p \in PactIds, joined'[p] = joined[p], completionCount'[p] = completionCount[p],
         pacts'[p].terms = pacts[p].terms, pacts'[p].cancelled = pacts[p].cancelled,
         pacts'[p].finisherCount = pacts[p].finisherCount
  PROVE  winners(p)' = winners(p) /\ finishersOf(p)' = finishersOf(p)
<1>1. \A w : finisher(p, w)' <=> finisher(p, w)
  BY DEF finisher, terms
<1>2. \A w : Eligible(p, w)' <=> Eligible(p, w)
  BY <1>1 DEF Eligible, Refunded
<1> QED BY <1>1, <1>2 DEF winners, finishersOf

(* A Lock that a step does not touch keeps its money in order.             *)
LEMMA OtherLocksKeepMoney ==
  ASSUME NEW p \in PactIds, MoneyOf(p), moneyOf(p)' = moneyOf(p)
  PROVE  MoneyOf(p)'
<1>1. /\ pacts'[p] = pacts[p] /\ joined'[p] = joined[p] /\ claimed'[p] = claimed[p]
      /\ completionCount'[p] = completionCount[p] /\ payout'[p] = payout[p]
  BY DEF moneyOf
<1>2. winners(p)' = winners(p) /\ pool(p)' = pool(p) /\ Exists(p)' = Exists(p)
  BY <1>1, WinnersFrame DEF pool, terms, Exists
<1>3. PaidOut(p)' = PaidOut(p)
  BY <1>1, PaidOutNext DEF PaidOut
<1>4. PoolSplit(p)' <=> PoolSplit(p)
  BY <1>1, <1>2, <1>3 DEF PoolSplit, quota, exact
<1> QED BY <1>1, <1>2, <1>4 DEF MoneyOf

(* As long as a Lock is open nothing has been paid.                        *)
LEMMA OpenLockKeepsMoney ==
  ASSUME NEW p \in PactIds, MoneyOf(p), ~pacts'[p].finalized, pacts'[p].remainingPool = 0,
         claimed'[p] = claimed[p], payout'[p] = payout[p], pacts'[p].creator \in joined'[p]
  PROVE  MoneyOf(p)'
BY DEF MoneyOf

LEMMA SomeWallets ==
  ASSUME NEW S \in SUBSET Wallets, S # {}
  PROVE  Cardinality(S) \in Nat /\ Cardinality(S) >= 1
<1>1. IsFiniteSet(S) /\ Cardinality(S) \in Nat
  BY WalletSetsFinite
<1>2. Cardinality(S) # 0
  BY <1>1, FS_EmptySet
<1> QED BY <1>1, <1>2

(* Dividing a pool.                                                        *)
LEMMA QuotientBounds ==
  ASSUME NEW m \in Nat, NEW n \in Nat, n >= 1
  PROVE  m \div n \in Nat /\ n * (m \div n) <= m /\ m <= n * (m \div n) + n
OBVIOUS

LEMMA PoolIsNat ==
  ASSUME EscrowTypeOK, NEW p \in PactIds
  PROVE  pool(p) \in Nat /\ terms(p).stake \in Nat /\ pacts[p].participantCount \in Nat
<1>1. pacts[p] \in Pact
  BY DEF EscrowTypeOK
<1>2. pacts[p].participantCount \in Nat /\ terms(p) \in Configurations \cup {ZeroTerms}
  BY <1>1 DEF Pact, terms
<1>3. terms(p).stake \in Nat
  BY <1>2, TermsAreNumbers
<1> QED BY <1>2, <1>3, ProductIsNat DEF pool

(* Settlement: the whole pool is there, for winners of whom none is paid.  *)
LEMMA FinalizeKeepsMoney ==
  ASSUME LockInv, EscrowInv', NEW p \in PactIds, MoneyOf(p), finalizePact(p)
  PROVE  MoneyOf(p)'
<1>1. EscrowTypeOK /\ Accounts /\ EscrowTypeOK' /\ AccountsOf(p) /\ AccountsOf(p)'
  BY DEF LockInv, EscrowInv, Accounts
<1>2. PICK c \in BOOLEAN, m \in Nat :
        /\ m = pool(p)
        /\ pacts' = [pacts EXCEPT
              ![p].cancelled = c, ![p].finalized = TRUE,
              ![p].claimsRemaining = eligibleClaimants(p, c), ![p].remainingPool = m]
  <2>1. (pacts[p].cancelled \/ refundDue(p)) \in BOOLEAN
    OBVIOUS
  <2> QED BY <1>1, <2>1, PoolIsNat DEF finalizePact, pool
<1>3. /\ pacts'[p].finalized = TRUE /\ pacts'[p].remainingPool = m /\ pacts'[p].terms = pacts[p].terms
      /\ pacts'[p].participantCount = pacts[p].participantCount
      /\ pacts'[p].finisherCount = pacts[p].finisherCount
      /\ pacts'[p].creator = pacts[p].creator
  BY <1>1, <1>2 DEF EscrowTypeOK, Pact
<1>4. /\ joined' = joined /\ completionCount' = completionCount /\ claimed' = claimed
      /\ payout' = payout /\ ~pacts[p].finalized /\ Exists(p)
  BY DEF finalizePact, finalizable, paidVars, dayVars
<1>5. /\ claimed'[p] = {} /\ pacts'[p].creator \in joined'[p]
      /\ \A w \in Wallets : payout'[p][w] = 0
  BY <1>1, <1>3, <1>4 DEF AccountsOf, MoneyOf
<1>6. winners(p)' # {}
  <2>1. joined[p] \subseteq Wallets /\ finishersOf(p) \subseteq joined[p]
    BY <1>1 DEF EscrowTypeOK, finishersOf, finisher
  <2>2. CASE Refunded(p)'
    BY <1>4, <1>5, <2>1, <2>2 DEF winners, Eligible
  <2>3. CASE ~Refunded(p)'
    <3>1. pacts'[p].finisherCount # 0
      BY <1>3, <2>3 DEF Refunded
    <3>2. Cardinality(finishersOf(p)') # 0
      BY <1>1, <3>1 DEF AccountsOf
    <3>3. finishersOf(p)' # {}
      BY <3>2, FS_EmptySet
    <3>4. \A w \in Wallets : finisher(p, w)' => Eligible(p, w)'
      BY DEF Eligible, finisher
    <3> QED BY <3>3, <3>4 DEF winners, finishersOf
  <2> QED BY <2>2, <2>3
<1>7. pool(p)' = m /\ m \in Nat
  BY <1>1, <1>2, <1>3, PoolIsNat DEF pool, terms
<1>8. PaidOut(p)' = 0
  <2>1. SumOf(payout'[p], Wallets) = 0
    BY <1>5, StravaConstants, SumOfZeros
  <2> QED BY <2>1, PaidOutNext
<1>9. PICK n \in Nat : n = Cardinality(winners(p))' /\ n >= 1 /\ pacts'[p].claimsRemaining = n
  <2>1. winners(p)' \in SUBSET Wallets
    BY DEF winners
  <2>2. PICK W \in SUBSET Wallets : W = winners(p)'
    BY <2>1
  <2>3. Cardinality(W) >= 1 /\ Cardinality(W) \in Nat
    BY <1>6, <2>2, SomeWallets
  <2>4. unpaid(p)' = winners(p)'
    BY <1>5 DEF unpaid
  <2>5. pacts'[p].claimsRemaining = Cardinality(unpaid(p))'
    BY <1>1, <1>3 DEF AccountsOf
  <2> QED BY <2>2, <2>3, <2>4, <2>5
<1>10. quota(p)' = m \div n
  BY <1>7, <1>9 DEF quota
<1>11. /\ m \div n \in Nat /\ n * (m \div n) <= m /\ m <= n * (m \div n) + n
  BY <1>7, <1>9, QuotientBounds
<1>12. exact(p)' <=> m = n * (m \div n)
  BY <1>7, <1>9, <1>10 DEF exact
<1>13. PoolSplit(p)'
  BY <1>3, <1>5, <1>6, <1>7, <1>8, <1>9, <1>10, <1>11, <1>12 DEF PoolSplit
<1> QED BY <1>3, <1>5, <1>13 DEF MoneyOf

(* A claim: its share is in the promised range and leaves every other      *)
(* winner's share in it.                                                   *)
LEMMA ClaimKeepsMoney ==
  ASSUME LockInv, NEW p \in PactIds, NEW w \in Wallets, MoneyOf(p), claim(p, w)
  PROVE  MoneyOf(p)'
<1>1. EscrowTypeOK /\ Accounts /\ AccountsOf(p)
  BY DEF LockInv, EscrowInv, Accounts
<1>2. /\ pacts' = [pacts EXCEPT ![p].remainingPool = @ - share(p), ![p].claimsRemaining = @ - 1]
      /\ claimed' = [claimed EXCEPT ![p] = @ \cup {w}]
      /\ payout' = [payout EXCEPT ![p][w] = @ + share(p)]
      /\ pacts[p].finalized /\ w \notin claimed[p] /\ Eligible(p, w) /\ Exists(p)
      /\ joined' = joined /\ completionCount' = completionCount
  BY DEF claim, claimable, dayVars
<1>3. /\ pacts[p] \in Pact /\ PoolSplit(p) /\ pacts[p].creator \in joined[p] /\ payout[p][w] = 0
      /\ payout[p] \in [Wallets -> Nat] /\ claimed[p] \in SUBSET Wallets
  BY <1>1, <1>2 DEF MoneyOf, EscrowTypeOK
<1>4. w \in unpaid(p) /\ pacts[p].claimsRemaining = Cardinality(unpaid(p)) /\ w \in winners(p)
  BY <1>1, <1>2 DEF AccountsOf, unpaid, winners
<1>5. PICK r \in Nat, k \in Nat : /\ r = pacts[p].remainingPool /\ k = pacts[p].claimsRemaining
                                  /\ k >= 1
  <2>1. unpaid(p) \in SUBSET Wallets
    BY DEF unpaid, winners
  <2> QED BY <1>3, <1>4, <2>1, SomeWallets DEF Pact
<1>6. PICK n \in Nat, m \in Nat : n = Cardinality(winners(p)) /\ n >= 1 /\ m = pool(p)
  <2>1. winners(p) \in SUBSET Wallets
    BY DEF winners
  <2> QED BY <1>1, <1>4, <2>1, SomeWallets, PoolIsNat
<1>7. PICK q \in Nat : q = m \div n /\ q = quota(p)
  BY <1>6, QuotientBounds DEF quota
<1>8. /\ k * q <= r /\ r <= k * q + k /\ (exact(p) => r = k * q)
  BY <1>3, <1>5, <1>7 DEF PoolSplit
<1>9. PICK s \in Nat : s = share(p) /\ s = r \div k
  BY <1>5, DivBounds DEF share
(* With k claims to come and between q and q + 1 units for each, the next  *)
(* one gets q or q + 1 and leaves between q and q + 1 for each other one.  *)
<1>10. /\ s \in {q, q + 1} /\ (k - 1) * q <= r - s /\ r - s <= (k - 1) * q + (k - 1)
       /\ exact(p) => s = q /\ r - s = (k - 1) * q
  <2>1. /\ s \in {q, q + 1} /\ (k - 1) * q <= r - s /\ r - s <= (k - 1) * q + (k - 1)
        /\ r = k * q => s = q /\ r - s = (k - 1) * q
    <3>1. k * q <= r /\ r <= k * q + k /\ k >= 1 /\ s = r \div k
      BY <1>5, <1>8, <1>9
    <3> QED BY <3>1
  <2> QED BY <1>8, <2>1, Zenon
<1>11. /\ pacts'[p].remainingPool = r - s /\ pacts'[p].claimsRemaining = k - 1
       /\ pacts'[p].finalized = pacts[p].finalized /\ pacts'[p].cancelled = pacts[p].cancelled
       /\ pacts'[p].finisherCount = pacts[p].finisherCount /\ pacts'[p].terms = pacts[p].terms
       /\ pacts'[p].participantCount = pacts[p].participantCount
       /\ pacts'[p].creator = pacts[p].creator
       /\ claimed'[p] = claimed[p] \cup {w}
       /\ payout'[p] = [payout[p] EXCEPT ![w] = s]
  <2>1. payout[p][w] + s = s
    BY <1>3
  <2> HIDE DEF share
  <2> QED BY <1>1, <1>2, <1>3, <1>5, <1>9, <2>1 DEF EscrowTypeOK, Pact
<1>12. winners(p)' = winners(p) /\ pool(p)' = m
  BY <1>2, <1>6, <1>11, WinnersFrame DEF pool, terms
<1>13. quota(p)' = q /\ (exact(p)' <=> exact(p))
  BY <1>6, <1>7, <1>12 DEF quota, exact
<1>14. PaidOut(p)' = PaidOut(p) + s /\ PaidOut(p) \in Int
  <2>1. \A x \in Wallets : /\ payout[p][x] \in Int /\ payout'[p][x] \in Int
                           /\ x # w => payout'[p][x] = payout[p][x]
    BY <1>3, <1>9, <1>11
  <2>2. SumOf(payout'[p], Wallets) = SumOf(payout[p], Wallets) + payout'[p][w] - payout[p][w]
    BY <2>1, StravaConstants, SumOfChange
  <2>3. SumOf(payout[p], Wallets) \in Int
    BY <2>1, StravaConstants, SumIsInt
  <2>4. payout'[p][w] = s /\ payout[p][w] = 0
    BY <1>3, <1>11
  <2> QED BY <2>2, <2>3, <2>4, PaidOutNext DEF PaidOut
<1>15. (r - s) + PaidOut(p)' = m
  <2>1. r + PaidOut(p) = m
    BY <1>3, <1>5, <1>6 DEF PoolSplit
  <2> QED BY <1>14, <2>1
<1>16. ASSUME NEW v \in claimed'[p]
       PROVE  payout'[p][v] \in {q, q + 1} /\ (exact(p) => payout'[p][v] = q)
  <2>1. CASE v = w
    BY <1>3, <1>10, <1>11, <2>1
  <2>2. CASE v # w
    <3>1. v \in claimed[p] /\ payout'[p][v] = payout[p][v]
      BY <1>3, <1>11, <2>2
    <3> QED BY <1>3, <1>7, <3>1 DEF PoolSplit
  <2> QED BY <2>1, <2>2
<1>17. winners(p)' # {} /\ claimed'[p] \subseteq winners(p)'
  BY <1>3, <1>4, <1>11, <1>12 DEF PoolSplit
<1>18. PoolSplit(p)'
  BY <1>10, <1>11, <1>12, <1>13, <1>15, <1>16, <1>17 DEF PoolSplit
<1>19. \A v \in Wallets \ claimed'[p] : payout'[p][v] = 0
  BY <1>3, <1>11 DEF MoneyOf
<1> QED BY <1>2, <1>3, <1>11, <1>18, <1>19 DEF MoneyOf

LEMMA MoneyIsInductive ==
  ASSUME LockInv, Money, [LockNext]_lockSystemVars
  PROVE  Money'
<1> SUFFICES ASSUME NEW p \in PactIds PROVE MoneyOf(p)'
  BY DEF Money
<1>0. /\ LockInv' /\ MoneyOf(p) /\ EscrowTypeOK /\ Accounts
      /\ pacts \in [PactIds -> Pact] /\ pacts[p] \in Pact
      /\ joined \in [PactIds -> SUBSET Wallets] /\ claimed \in [PactIds -> SUBSET Wallets]
      /\ completionCount \in [PactIds -> [Wallets -> Nat]]
      /\ payout \in [PactIds -> [Wallets -> Nat]]
  BY LockInvIsInductive DEF Money, LockInv, EscrowInv, EscrowTypeOK
<1>1. ASSUME NEW w \in Wallets, NEW c \in Configurations, createPact(w, c, accesses)
      PROVE  MoneyOf(p)'
  <2>1. /\ pacts' = [pacts EXCEPT ![nextPactId] =
                       [ZeroPact EXCEPT !.creator = w, !.terms = c, !.participantCount = 1]]
        /\ joined' = [joined EXCEPT ![nextPactId] = @ \cup {w}]
        /\ UNCHANGED <<completionCount, claimed, payout>>
    BY <1>1 DEF createPact, dayVars
  <2>2. CASE p = nextPactId
    BY <1>0, <2>1, <2>2, OpenLockKeepsMoney DEF ZeroPact
  <2>3. CASE p # nextPactId
    BY <1>0, <2>1, <2>3, OtherLocksKeepMoney DEF moneyOf
  <2> QED BY <2>2, <2>3
<1>2. ASSUME NEW w \in Wallets, NEW q \in PactIds, joinPact(q, w, accesses)
      PROVE  MoneyOf(p)'
  <2>1. /\ pacts' = [pacts EXCEPT ![q].participantCount = @ + 1] /\ ~pacts[q].finalized
        /\ joined' = [joined EXCEPT ![q] = @ \cup {w}] /\ Exists(q)
        /\ UNCHANGED <<completionCount, claimed, payout>>
    BY <1>2 DEF joinPact, joinable, joinOpen, closed, dayVars
  <2>2. CASE p = q
    <3>1. /\ pacts'[p].creator = pacts[p].creator /\ ~pacts'[p].finalized
          /\ pacts'[p].remainingPool = pacts[p].remainingPool
      BY <1>0, <2>1, <2>2 DEF Pact
    <3>2. pacts[p].creator \in joined'[p] /\ pacts[p].remainingPool = 0
      BY <1>0, <2>1, <2>2 DEF MoneyOf
    <3> QED BY <1>0, <2>1, <3>1, <3>2, OpenLockKeepsMoney
  <2>3. CASE p # q
    BY <1>0, <2>1, <2>3, OtherLocksKeepMoney DEF moneyOf
  <2> QED BY <2>2, <2>3
<1>3. ASSUME NEW w \in Wallets, NEW q \in PactIds, NEW d, submitCompletion(q, w, d, completions)
      PROVE  MoneyOf(p)'
  <2>1. /\ pacts' = [pacts EXCEPT ![q].finisherCount = @ + 1] \/ pacts' = pacts
        /\ completionCount' = [completionCount EXCEPT ![q][w] = @ + 1]
        /\ ~pacts[q].finalized /\ Exists(q)
        /\ UNCHANGED <<joined, claimed, payout>>
    BY <1>3 DEF submitCompletion, completable, closed, countCompletion, paidVars
  <2>2. CASE p = q
    <3>1. /\ pacts'[p].creator = pacts[p].creator /\ ~pacts'[p].finalized
          /\ pacts'[p].remainingPool = pacts[p].remainingPool
      BY <1>0, <2>1, <2>2 DEF Pact
    <3>2. pacts[p].creator \in joined'[p] /\ pacts[p].remainingPool = 0
      BY <1>0, <2>1, <2>2 DEF MoneyOf
    <3> QED BY <1>0, <2>1, <3>1, <3>2, OpenLockKeepsMoney
  <2>3. CASE p # q
    BY <1>0, <2>1, <2>3, OtherLocksKeepMoney DEF moneyOf
  <2> QED BY <2>2, <2>3
<1>4. ASSUME NEW q \in PactIds, Exists(q), cancel(q)
      PROVE  MoneyOf(p)'
  <2>1. /\ pacts' = [pacts EXCEPT ![q].cancelled = TRUE] /\ ~pacts[q].finalized
        /\ UNCHANGED <<joined, completionCount, claimed, payout>>
    BY <1>4 DEF cancel, paidVars, dayVars
  <2>2. CASE p = q
    <3>1. /\ pacts'[p].creator = pacts[p].creator /\ ~pacts'[p].finalized
          /\ pacts'[p].remainingPool = pacts[p].remainingPool
      BY <1>0, <2>1, <2>2 DEF Pact
    <3>2. pacts[p].creator \in joined'[p] /\ pacts[p].remainingPool = 0
      BY <1>0, <1>4, <2>1, <2>2 DEF MoneyOf
    <3> QED BY <1>0, <2>1, <3>1, <3>2, OpenLockKeepsMoney
  <2>3. CASE p # q
    BY <1>0, <2>1, <2>3, OtherLocksKeepMoney DEF moneyOf
  <2> QED BY <2>2, <2>3
<1>5. ASSUME NEW q \in PactIds, finalizePact(q) PROVE MoneyOf(p)'
  <2>1. CASE p = q
    BY <1>0, <1>5, <2>1, FinalizeKeepsMoney DEF LockInv
  <2>2. CASE p # q
    <3>1. pacts'[p] = pacts[p] /\ UNCHANGED <<joined, completionCount, claimed, payout>>
      BY <1>0, <1>5, <2>2 DEF finalizePact, paidVars, dayVars
    <3> QED BY <1>0, <3>1, OtherLocksKeepMoney DEF moneyOf
  <2> QED BY <2>1, <2>2
<1>6. ASSUME NEW w \in Wallets, NEW q \in PactIds, claim(q, w) PROVE MoneyOf(p)'
  <2>1. CASE p = q
    BY <1>0, <1>6, <2>1, ClaimKeepsMoney
  <2>2. CASE p # q
    <3>1. /\ pacts'[p] = pacts[p] /\ claimed'[p] = claimed[p] /\ payout'[p] = payout[p]
          /\ UNCHANGED <<joined, completionCount>>
      BY <1>0, <1>6, <2>2 DEF claim, dayVars
    <3> QED BY <1>0, <3>1, OtherLocksKeepMoney DEF moneyOf
  <2> QED BY <2>1, <2>2
<1>7. CASE UNCHANGED stakeVars
  BY <1>0, <1>7, OtherLocksKeepMoney DEF moneyOf, stakeVars, lockVars, paidVars
<1> QED BY <1>1, <1>2, <1>3, <1>4, <1>5, <1>6, <1>7, StakesChangeBySteps DEF StakeStep

LEMMA MoneyIsInvariant == LockSpec => []Money
<1>1. LockInit => Money
  BY DEF LockInit, EscrowInit, Money, MoneyOf, Exists, ZeroPact, perPlayer
<1>2. LockInv /\ Money /\ [LockNext]_lockSystemVars => Money'
  BY MoneyIsInductive
<1> QED BY <1>1, <1>2, LockInvIsInvariant, PTL DEF LockSpec

-----------------------------------------------------------------------------
(* The operator's reconciliation.                                          *)

(* A Lock is open from its creation, and full at most.                     *)
RoomOf(p) ==
    p < nextPactId => /\ Exists(p)
                      /\ pacts[p].participantCount <= terms(p).maxParticipants

Room == \A p \in PactIds : RoomOf(p)

LEMMA RoomIsInductive ==
  ASSUME LockInv, Room, [LockNext]_lockSystemVars
  PROVE  Room'
<1> SUFFICES ASSUME NEW p \in PactIds PROVE RoomOf(p)'
  BY DEF Room
<1>0. /\ EscrowTypeOK /\ RoomOf(p) /\ pacts \in [PactIds -> Pact] /\ pacts[p] \in Pact
      /\ p \in Nat /\ nextPactId \in Nat /\ NoAddress \notin Wallets
  BY StravaConstants DEF Room, LockInv, EscrowInv, EscrowTypeOK
<1>1. ASSUME nextPactId' = nextPactId, pacts'[p].creator = pacts[p].creator,
             pacts'[p].terms = pacts[p].terms,
             pacts'[p].participantCount = pacts[p].participantCount
      PROVE  RoomOf(p)'
  BY <1>0, <1>1 DEF RoomOf, Exists, terms
<1>2. ASSUME NEW w \in Wallets, NEW c \in Configurations, createPact(w, c, accesses)
      PROVE  RoomOf(p)'
  <2>1. /\ pacts' = [pacts EXCEPT ![nextPactId] =
                       [ZeroPact EXCEPT !.creator = w, !.terms = c, !.participantCount = 1]]
        /\ nextPactId' = nextPactId + 1
    BY <1>2 DEF createPact
  <2>2. CASE p = nextPactId
    <3>1. /\ pacts'[p].creator = w /\ pacts'[p].terms = c /\ pacts'[p].participantCount = 1
      BY <1>0, <2>1, <2>2 DEF ZeroPact
    <3>2. c.maxParticipants >= 1
      <4>1. c.minParticipants \in Nat \ {0} /\ c.maxParticipants \in Nat
            /\ c.minParticipants <= c.maxParticipants
        BY StravaConstants DEF Terms
      <4> QED BY <4>1
    <3>3. c.maxParticipants \in Nat
      BY StravaConstants DEF Terms
    <3> QED BY <1>0, <3>1, <3>2, <3>3 DEF RoomOf, Exists, terms
  <2>3. CASE p # nextPactId
    <3>1. pacts'[p] = pacts[p] /\ (p < nextPactId' => p < nextPactId)
      BY <1>0, <2>1, <2>3
    <3> QED BY <1>0, <3>1 DEF RoomOf, Exists, terms
  <2> QED BY <2>2, <2>3
<1>3. ASSUME NEW w \in Wallets, NEW q \in PactIds, joinPact(q, w, accesses)
      PROVE  RoomOf(p)'
  <2>1. /\ pacts' = [pacts EXCEPT ![q].participantCount = @ + 1] /\ nextPactId' = nextPactId
        /\ pacts[q].participantCount < terms(q).maxParticipants
        /\ terms(q) \in Configurations
    BY <1>0, <1>3, ExistingLocks DEF joinPact, joinable, joinOpen, LockInv, EscrowInv
  <2>2. CASE p = q
    <3>1. /\ pacts'[p].creator = pacts[p].creator /\ pacts'[p].terms = pacts[p].terms
          /\ pacts'[p].participantCount = pacts[p].participantCount + 1
          /\ pacts[p].participantCount \in Nat
      BY <1>0, <2>1, <2>2 DEF Pact
    <3>2. terms(p).maxParticipants \in Nat
      BY <2>1, <2>2, StravaConstants DEF Terms
    <3> QED BY <1>0, <2>1, <2>2, <3>1, <3>2 DEF RoomOf, Exists, terms
  <2>3. CASE p # q
    BY <1>0, <1>1, <2>1, <2>3
  <2> QED BY <2>2, <2>3
<1>4. ASSUME NEW q \in PactIds, NEW w, NEW d,
             \/ cancel(q) \/ claim(q, w) \/ submitCompletion(q, w, d, completions)
      PROVE  RoomOf(p)'
  <2>1. nextPactId' = nextPactId
    BY <1>4 DEF cancel, claim, submitCompletion
  <2>2. /\ pacts'[p].creator = pacts[p].creator /\ pacts'[p].terms = pacts[p].terms
        /\ pacts'[p].participantCount = pacts[p].participantCount
    BY <1>0, <1>4 DEF cancel, claim, submitCompletion, countCompletion, Pact
  <2> QED BY <1>1, <2>1, <2>2
<1>5. ASSUME NEW q \in PactIds, finalizePact(q) PROVE RoomOf(p)'
  <2>1. PICK b, m, n : pacts' = [pacts EXCEPT ![q].cancelled = b, ![q].finalized = TRUE,
                                     ![q].claimsRemaining = m, ![q].remainingPool = n]
    BY <1>5 DEF finalizePact
  <2>2. nextPactId' = nextPactId
    BY <1>5 DEF finalizePact
  <2>3. /\ pacts'[p].creator = pacts[p].creator /\ pacts'[p].terms = pacts[p].terms
        /\ pacts'[p].participantCount = pacts[p].participantCount
    BY <1>0, <2>1 DEF Pact
  <2> QED BY <1>1, <2>2, <2>3
<1>6. CASE UNCHANGED stakeVars
  BY <1>1, <1>6 DEF stakeVars, lockVars
<1>7. CASE StakeStep
  BY <1>2, <1>3, <1>4, <1>5, <1>7 DEF StakeStep
<1> QED BY <1>6, <1>7, StakesChangeBySteps

LEMMA MoneyReconciles ==
  ASSUME LockInv, Money, Room, Balanced
  PROVE  CanaryReconciles
<1>0. EscrowTypeOK /\ Accounts
  BY DEF LockInv, EscrowInv
<1>1. ASSUME NEW p \in ids
      PROVE  /\ Exists(p) /\ capacityValid(p) /\ accountingFieldsValid(p)
             /\ walletsCoverAllParticipants(p) /\ snapshotOK(p)
  <2>1. /\ p \in PactIds /\ p < nextPactId /\ RoomOf(p) /\ MoneyOf(p) /\ AccountsOf(p)
        /\ pacts[p] \in Pact /\ joined[p] \in SUBSET Wallets
    <3>1. p \in PactIds
      BY DEF Balanced
    <3>2. p < nextPactId
      BY <1>0 DEF ids, EscrowTypeOK
    <3> QED BY <1>0, <3>1, <3>2 DEF Room, Money, Accounts, EscrowTypeOK
  <2>2. Exists(p) /\ terms(p) \in Configurations
    BY <1>0, <2>1, ExistingLocks DEF RoomOf
  <2>3. capacityValid(p)
    <3>1. terms(p).minParticipants <= terms(p).maxParticipants
          /\ terms(p).minParticipants \in Nat /\ terms(p).maxParticipants \in Nat
      BY <2>2, StravaConstants DEF Terms
    <3> QED BY <2>1, <3>1 DEF capacityValid, RoomOf
  <2>4. accountingFieldsValid(p)
    <3>1. CASE ~pacts[p].finalized
      BY <2>1, <3>1 DEF accountingFieldsValid, MoneyOf, AccountsOf
    <3>2. CASE pacts[p].finalized
      <4>1. PICK r \in Nat, k \in Nat : r = pacts[p].remainingPool /\ k = pacts[p].claimsRemaining
        BY <2>1 DEF Pact
      <4>2. PICK q \in Nat : q = quota(p)
        <5>1. winners(p) # {} /\ winners(p) \in SUBSET Wallets
          BY <2>1, <3>2 DEF MoneyOf, PoolSplit, winners
        <5> QED BY <1>0, <2>1, <5>1, PoolIsNat, SomeWallets, QuotientBounds DEF quota
      <4>3. r <= k * q + k
        BY <2>1, <3>2, <4>1, <4>2 DEF MoneyOf, PoolSplit
      <4>4. k > 0 \/ r = 0
        <5>1. k = 0 => r <= 0 * q + 0
          BY <4>3
        <5> QED BY <5>1
      <4> QED BY <3>2, <4>1, <4>4 DEF accountingFieldsValid
    <3> QED BY <3>1, <3>2
  <2>5. walletsCoverAllParticipants(p)
    <3>1. joined[p] \cap Wallets = joined[p]
      BY <2>1
    <3> QED BY <2>1, <3>1 DEF walletsCoverAllParticipants, AccountsOf
  <2>6. pacts[p].creator \in joined[p]
    BY <2>1, <2>2 DEF MoneyOf
  <2> QED BY <2>2, <2>3, <2>4, <2>5, <2>6 DEF snapshotOK
<1>2. ASSUME NEW surplus \in Surpluses
      PROVE  contractBalance(surplus) = MapThenSumSet(liabilityFor, ids) <=> surplus = 0
  <2>1. vault \in Int /\ surplus \in Nat
    BY SurplusAssumption DEF LockInv, EscrowInv, EscrowTypeOK
  <2>2. vault = MapThenSumSet(liabilityFor, ids)
    BY DEF Balanced
  <2>3. vault + surplus = vault <=> surplus = 0
    BY <2>1
  <2> QED BY <2>2, <2>3 DEF contractBalance
<1> QED BY <1>1, <1>2 DEF CanaryReconciles, reconcile, ids

LEMMA BooksAreInvariant == LockSpec => [](Balanced /\ Room)
<1>1. LockInit => Balanced /\ Room
  <2> SUFFICES ASSUME LockInit PROVE Balanced /\ Room
    OBVIOUS
  <2>1. EscrowTypeOK
    BY LockInitHasInv DEF LockInv, EscrowInv
  <2>2. ids = {} /\ vault = 0 /\ nextPactId = 1
    BY DEF LockInit, EscrowInit, ids
  <2>3. PICK v : v = [p \in PactIds |-> liabilityFor(p)]
    OBVIOUS
  <2>4. SumOf(v, {}) = 0
    BY FS_EmptySet, SumOfZeros
  <2>5. Balanced
    BY <2>1, <2>2, <2>3, <2>4, BalancedIsASum
  <2>6. Room
    <3>1. \A p \in PactIds : p \in Nat \ {0}
      BY StravaConstants
    <3> QED BY <2>2, <3>1 DEF Room, RoomOf
  <2> QED BY <2>5, <2>6
<1>2. LockInv /\ Balanced /\ Room /\ [LockNext]_lockSystemVars => Balanced' /\ Room'
  BY BalancedIsInductive, RoomIsInductive
<1> QED BY <1>1, <1>2, LockInvIsInvariant, PTL DEF LockSpec

(* In every state the chain can get into, the canary's reconciliation      *)
(* finds nothing to report but tokens sent past the contract's functions:  *)
(* its balance is to the last unit those and the sum of what its Locks     *)
(* owe, whatever has been created, joined, settled and claimed, and each   *)
(* Lock's own fields add up.                                               *)
THEOREM CanaryAlwaysReconciles == LockSpec => []CanaryReconciles
<1>1. LockInv /\ Money /\ Room /\ Balanced => CanaryReconciles
  BY MoneyReconciles
<1> QED BY <1>1, LockInvIsInvariant, MoneyIsInvariant, BooksAreInvariant, PTL

-----------------------------------------------------------------------------
(* The contract implements, Lock by Lock, the settlement it promises.      *)

(* Nobody has completed a day of a Lock that has not started, so nobody    *)
(* can buy in any more once somebody has finished.                         *)
StartedBeforeRun ==
    \A p \in PactIds, w \in Wallets : completionCount[p][w] # 0 => now >= startsAt(p)

LEMMA StartedBeforeRunIsInductive ==
  ASSUME LockInv, StartedBeforeRun, [LockNext]_lockSystemVars
  PROVE  StartedBeforeRun'
<1> SUFFICES ASSUME NEW p \in PactIds, NEW w \in Wallets, completionCount'[p][w] # 0
             PROVE  now' >= startsAt(p)'
  BY DEF StartedBeforeRun
<1>0. /\ EscrowTypeOK /\ Accounts /\ now \in Nat /\ pacts \in [PactIds -> Pact]
      /\ completionCount \in [PactIds -> [Wallets -> Nat]]
      /\ p \in Nat /\ nextPactId \in Nat
  BY TimesAreNumbers, StravaConstants DEF LockInv, EscrowInv, EscrowTypeOK
<1>1. startsAt(p) \in Nat /\ startsAt(p)' = pacts'[p].terms.startsAt
  BY <1>0, TermsAreNumbers DEF startsAt, terms, Pact, EscrowTypeOK
<1>2. now' = now \/ now' = now + 1
  BY StakesChangeBySteps
<1>3. CASE p >= nextPactId
  <2>1. completionCount[p][w] = 0 /\ ~Exists(p)
    BY <1>0, <1>3 DEF Accounts, Untouched, Exists, ZeroPact
  <2>2. ASSUME NEW v, NEW q \in PactIds, NEW d, submitCompletion(q, v, d, completions)
        PROVE  completionCount'[p][w] = completionCount[p][w]
    <3>1. q # p
      BY <2>1, <2>2 DEF submitCompletion, completable
    <3> QED BY <1>0, <2>2, <3>1 DEF submitCompletion, countCompletion
  <2>3. ASSUME NEW v, NEW q \in PactIds,
               \/ joinPact(q, v, accesses) \/ claim(q, v) \/ finalizePact(q) \/ cancel(q)
        PROVE  completionCount' = completionCount
    BY <2>3 DEF joinPact, claim, finalizePact, cancel, dayVars
  <2>4. ASSUME NEW v, NEW c, createPact(v, c, accesses) PROVE completionCount' = completionCount
    BY <2>4 DEF createPact, dayVars
  <2>5. UNCHANGED stakeVars => completionCount' = completionCount
    BY DEF stakeVars
  <2> QED BY <2>1, <2>2, <2>3, <2>4, <2>5, StakesChangeBySteps DEF StakeStep
<1>4. CASE p < nextPactId
  <2>1. terms(p)' = terms(p)
    BY <1>4, TermsNeverChange
  <2>2. startsAt(p)' = startsAt(p)
    BY <2>1 DEF startsAt
  <2>3. CASE completionCount[p][w] # 0
    <3>1. now >= startsAt(p)
      BY <2>3 DEF StartedBeforeRun
    <3> QED BY <1>0, <1>1, <1>2, <2>2, <3>1
  <2>4. CASE completionCount'[p][w] # completionCount[p][w]
    <3>1. \E v, d : submitCompletion(p, v, d, completions)
      <4>1. ASSUME NEW v, NEW q \in PactIds,
                   \/ joinPact(q, v, accesses) \/ claim(q, v) \/ finalizePact(q) \/ cancel(q)
            PROVE  FALSE
        BY <2>4, <4>1 DEF joinPact, claim, finalizePact, cancel, dayVars
      <4>2. ASSUME NEW v, NEW c, createPact(v, c, accesses) PROVE FALSE
        BY <2>4, <4>2 DEF createPact, dayVars
      <4>3. ~ UNCHANGED stakeVars
        BY <2>4 DEF stakeVars
      <4>4. PICK v \in Wallets, q \in PactIds, d \in Int : submitCompletion(q, v, d, completions)
        BY <4>1, <4>2, <4>3, StakesChangeBySteps DEF StakeStep
      <4>5. q = p
        BY <1>0, <2>4, <4>4 DEF submitCompletion, countCompletion
      <4> QED BY <4>4, <4>5
    <3>2. PICK d \in Days(p) : dayOpen(p, d)
      BY <3>1 DEF submitCompletion, completable
    <3>3. d \in Nat
      <4>1. terms(p).durationDays \in Nat
        BY <1>0, TermsAreNumbers DEF EscrowTypeOK, Pact, terms
      <4> QED BY <4>1 DEF Days
    <3>4. d * DayLength \in Nat
      BY <3>3, StravaConstants, ProductIsNat
    <3>5. now >= startsAt(p) + d * DayLength
      BY <3>2 DEF dayOpen, dayStart
    <3>6. now >= startsAt(p)
      BY <1>0, <1>1, <3>4, <3>5
    <3> QED BY <1>0, <1>1, <1>2, <2>2, <3>6
  <2> QED BY <2>3, <2>4
<1> QED BY <1>0, <1>3, <1>4

LEMMA StartedBeforeRunIsInvariant == LockSpec => []StartedBeforeRun
<1>1. LockInit => StartedBeforeRun
  BY DEF LockInit, EscrowInit, StartedBeforeRun, perPlayer
<1>2. LockInv /\ StartedBeforeRun /\ [LockNext]_lockSystemVars => StartedBeforeRun'
  BY StartedBeforeRunIsInductive
<1> QED BY <1>1, <1>2, LockInvIsInvariant, PTL DEF LockSpec

(* What a step may change of a Lock without changing its settlement.       *)
LEMMA SettlementFrame ==
  ASSUME NEW p \in PactIds, terms(p)' = terms(p), joined'[p] = joined[p],
         finishersOf(p)' = finishersOf(p), outcomeOf(p)' = outcomeOf(p), payout'[p] = payout[p]
  PROVE  UNCHANGED Promise(p)!svars
BY DEF Promise!svars

LEMMA EnterRefines ==
  ASSUME LockInv, StartedBeforeRun, NEW p \in PactIds, NEW w \in Wallets,
         \/ \E c \in Configurations : createPact(w, c, accesses) /\ p = nextPactId
         \/ joinPact(p, w, accesses)
  PROVE  Promise(p)!Enter(w)
<1>0. /\ EscrowTypeOK /\ Accounts /\ pacts \in [PactIds -> Pact] /\ pacts[p] \in Pact
      /\ joined \in [PactIds -> SUBSET Wallets] /\ p \in Nat
      /\ completionCount \in [PactIds -> [Wallets -> Nat]]
  BY StravaConstants DEF LockInv, EscrowInv, EscrowTypeOK
<1>1. ASSUME ~pacts[p].finalized, ~pacts'[p].finalized, w \notin joined[p],
             \A v \in Wallets : completionCount[p][v] = 0, completionCount' = completionCount,
             joined'[p] = joined[p] \cup {w}, payout' = payout,
             terms(p)' \in Configurations,
             joined[p] # {} => pacts'[p].terms = pacts[p].terms
      PROVE  Promise(p)!Enter(w)
  <2>1. terms(p)'.requiredCompletions \in Nat /\ terms(p)'.requiredCompletions >= 1
    BY <1>1, RequirementIsPositive
  <2>2. finishersOf(p)' = {}
    BY <1>1, <2>1 DEF finishersOf, finisher
  <2>3. finishersOf(p) = {}
    <3>1. CASE joined[p] = {}
      BY <3>1 DEF finishersOf, finisher
    <3>2. CASE joined[p] # {}
      <4>1. terms(p)' = terms(p)
        BY <1>1, <3>2 DEF terms
      <4> QED BY <1>1, <2>1, <4>1 DEF finishersOf, finisher
    <3> QED BY <3>1, <3>2
  <2>4. terms(p)'.stake \in Nat \ {0}
    BY <1>1, StravaConstants DEF Terms
  <2>5. outcomeOf(p) = "open" /\ outcomeOf(p)' = "open"
    BY <1>1 DEF outcomeOf
  <2> QED BY <1>1, <2>2, <2>3, <2>4, <2>5 DEF Promise!Enter, terms
<1>2. ASSUME NEW c \in Configurations, createPact(w, c, accesses), p = nextPactId
      PROVE  Promise(p)!Enter(w)
  <2>1. /\ pacts' = [pacts EXCEPT ![p] =
                       [ZeroPact EXCEPT !.creator = w, !.terms = c, !.participantCount = 1]]
        /\ joined' = [joined EXCEPT ![p] = @ \cup {w}]
        /\ completionCount' = completionCount /\ payout' = payout
    BY <1>2 DEF createPact, dayVars
  <2>2. Untouched(p)
    BY <1>0, <1>2 DEF Accounts
  <2>3. terms(p)' = c /\ ~pacts'[p].finalized /\ ~pacts[p].finalized
    BY <1>0, <2>1, <2>2 DEF Untouched, ZeroPact, terms
  <2>4. /\ joined[p] = {} /\ joined'[p] = joined[p] \cup {w}
        /\ \A v \in Wallets : completionCount[p][v] = 0
    BY <1>0, <2>1, <2>2 DEF Untouched
  <2> QED BY <1>1, <2>1, <2>3, <2>4
<1>3. ASSUME joinPact(p, w, accesses)
      PROVE  Promise(p)!Enter(w)
  <2>1. /\ pacts' = [pacts EXCEPT ![p].participantCount = @ + 1]
        /\ joined' = [joined EXCEPT ![p] = @ \cup {w}]
        /\ completionCount' = completionCount /\ payout' = payout
        /\ w \notin joined[p] /\ ~pacts[p].finalized /\ now < startsAt(p) /\ Exists(p)
    BY <1>3 DEF joinPact, joinable, joinOpen, closed, dayVars
  <2>2. terms(p) \in Configurations
    BY <1>0, <2>1, ExistingLocks
  <2>3. \A v \in Wallets : completionCount[p][v] = 0
    <3>1. now \in Nat /\ startsAt(p) \in Nat
      BY <1>0, <2>2, TimesAreNumbers, TermsAreNumbers DEF startsAt
    <3> QED BY <2>1, <3>1 DEF StartedBeforeRun
  <2>4. pacts'[p].terms = pacts[p].terms /\ ~pacts'[p].finalized
    BY <1>0, <2>1 DEF Pact
  <2>5. terms(p)' = terms(p) /\ joined'[p] = joined[p] \cup {w}
    BY <1>0, <2>1, <2>4 DEF terms
  <2> QED BY <1>1, <2>1, <2>2, <2>3, <2>4, <2>5
<1> QED BY <1>2, <1>3

(* An accepted run finishes its wallet's Lock, or only brings it nearer.   *)
LEMMA RunRefines ==
  ASSUME LockInv, NEW p \in PactIds, NEW w \in Wallets, NEW d,
         submitCompletion(p, w, d, completions)
  PROVE  Promise(p)!Finish(w) \/ UNCHANGED Promise(p)!svars
<1>0. /\ EscrowTypeOK /\ Accounts /\ pacts \in [PactIds -> Pact] /\ pacts[p] \in Pact
      /\ completionCount \in [PactIds -> [Wallets -> Nat]]
  BY DEF LockInv, EscrowInv, EscrowTypeOK
<1>1. /\ joined' = joined /\ payout' = payout /\ ~pacts[p].finalized /\ Exists(p)
      /\ w \in joined[p] /\ completionCount[p][w] < terms(p).requiredCompletions
      /\ completionCount' = [completionCount EXCEPT ![p][w] = @ + 1]
      /\ pacts' = [pacts EXCEPT ![p].finisherCount = @ + 1] \/ pacts' = pacts
  BY DEF submitCompletion, completable, closed, countCompletion, paidVars
<1>2. /\ pacts'[p].terms = pacts[p].terms /\ ~pacts'[p].finalized
      /\ completionCount'[p][w] = completionCount[p][w] + 1 /\ completionCount[p][w] \in Nat
      /\ \A v \in Wallets : v # w => completionCount'[p][v] = completionCount[p][v]
  BY <1>0, <1>1 DEF Pact
<1>3. /\ terms(p)' = terms(p) /\ outcomeOf(p)' = "open" /\ outcomeOf(p) = "open"
      /\ terms(p).requiredCompletions \in Nat
  <2>1. terms(p) \in Configurations
    BY <1>0, <1>1, ExistingLocks
  <2> QED BY <1>1, <1>2, <2>1, RequirementIsPositive DEF terms, outcomeOf
<1>4. w \notin finishersOf(p)
  BY <1>1, <1>2, <1>3 DEF finishersOf, finisher
<1>5. CASE completionCount[p][w] + 1 = terms(p).requiredCompletions
  <2>1. finishersOf(p)' = finishersOf(p) \cup {w}
    BY <1>1, <1>2, <1>3, <1>5 DEF finishersOf, finisher
  <2> QED BY <1>1, <1>3, <1>4, <2>1 DEF Promise!Finish
<1>6. CASE completionCount[p][w] + 1 # terms(p).requiredCompletions
  <2>1. \A v \in Wallets : finisher(p, v)' <=> finisher(p, v)
    BY <1>1, <1>2, <1>3, <1>6 DEF finisher
  <2>2. finishersOf(p)' = finishersOf(p)
    BY <2>1 DEF finishersOf
  <2> QED BY <1>1, <1>3, <2>2, SettlementFrame
<1> QED BY <1>5, <1>6

LEMMA SettleRefines ==
  ASSUME LockInv, Money, NEW p \in PactIds, finalizePact(p)
  PROVE  Promise(p)!Settle
<1>0. pacts \in [PactIds -> Pact] /\ pacts[p] \in Pact
  BY DEF LockInv, EscrowInv, EscrowTypeOK
<1>1. /\ joined' = joined /\ completionCount' = completionCount /\ payout' = payout
      /\ ~pacts[p].finalized /\ Exists(p)
  BY DEF finalizePact, finalizable, paidVars, dayVars
<1>2. PICK b, m, n : pacts' = [pacts EXCEPT ![p].cancelled = b, ![p].finalized = TRUE,
                                   ![p].claimsRemaining = m, ![p].remainingPool = n]
  BY DEF finalizePact
<1>3. pacts'[p].terms = pacts[p].terms /\ pacts'[p].finalized
  BY <1>0, <1>2 DEF Pact
<1>4. joined[p] # {}
  BY <1>1 DEF Money, MoneyOf
<1>5. \A v \in Wallets : finisher(p, v)' <=> finisher(p, v)
  BY <1>1, <1>3 DEF finisher, terms
<1>6. finishersOf(p)' = finishersOf(p)
  BY <1>5 DEF finishersOf
<1> QED BY <1>1, <1>3, <1>4, <1>6 DEF Promise!Settle, outcomeOf, terms

(* Instantiating Settlement brings a copy of each library operator along.  *)
LEMMA PromisedCardinality ==
  ASSUME NEW p \in PactIds, NEW S PROVE Promise(p)!Cardinality(S) = Cardinality(S)
BY DEF Promise!Cardinality, Cardinality

LEMMA PromisedTotal ==
  ASSUME NEW p \in PactIds, NEW f PROVE Promise(p)!TotalPaid(f) = SumOf(f, Wallets)
BY DEF Promise!TotalPaid, Promise!MapThenSumSet, Promise!MapThenFoldSet,
       SumOf, MapThenSumSet, MapThenFoldSet

LEMMA PromisedWinners ==
  ASSUME LockInv, NEW p \in PactIds, pacts[p].finalized
  PROVE  Promise(p)!Winners = winners(p) /\ Promise(p)!Pool = pool(p) /\ outcomeOf(p) # "open"
<1>1. /\ AccountsOf(p) /\ joined[p] \in SUBSET Wallets
  BY DEF LockInv, EscrowInv, Accounts, EscrowTypeOK
<1>2. finishersOf(p) \in SUBSET Wallets /\ finishersOf(p) \subseteq joined[p]
  BY DEF finishersOf, finisher
<1>3. pacts[p].finisherCount = 0 <=> finishersOf(p) = {}
  BY <1>1, <1>2, WalletSetsFinite, FS_EmptySet DEF AccountsOf
<1>4. outcomeOf(p) # "open" /\ (outcomeOf(p) = "refund" <=> pacts[p].cancelled)
  BY DEF outcomeOf
<1>5. winners(p) =
        IF pacts[p].cancelled \/ finishersOf(p) = {} THEN joined[p] ELSE finishersOf(p)
  <2>1. \A w \in Wallets : finisher(p, w) <=> w \in finishersOf(p)
    BY DEF finishersOf
  <2>2. Refunded(p) <=> pacts[p].cancelled \/ finishersOf(p) = {}
    BY <1>3 DEF Refunded
  <2> HIDE DEF finisher
  <2> QED BY <1>1, <1>2, <2>1, <2>2 DEF winners, Eligible
<1>6. Promise(p)!Winners = winners(p)
  BY <1>4, <1>5 DEF Promise!Winners
<1>7. Promise(p)!Pool = pool(p)
  BY <1>1, PromisedCardinality DEF Promise!Pool, pool, AccountsOf
<1> QED BY <1>4, <1>6, <1>7

(* What a pool has been split into: the claims and what is left add up to  *)
(* it, the last claim leaves nothing, and the shares are equal to a unit.  *)
LEMMA SplitConserves ==
  ASSUME LockInv, Money, NEW p \in PactIds, pacts[p].finalized
  PROVE  /\ pacts[p].remainingPool + PaidOut(p) = pool(p)
         /\ unpaid(p) = {} => pacts[p].remainingPool = 0
<1>1. /\ EscrowTypeOK /\ AccountsOf(p) /\ PoolSplit(p) /\ pacts[p] \in Pact
      /\ pacts[p].remainingPool \in Nat
  BY DEF LockInv, EscrowInv, Accounts, Money, MoneyOf, EscrowTypeOK, Pact
<1>2. ASSUME unpaid(p) = {} PROVE pacts[p].remainingPool = 0
  <2>1. pacts[p].claimsRemaining = 0
    BY <1>1, <1>2, FS_EmptySet DEF AccountsOf
  <2>2. PICK q \in Nat : q = quota(p)
    <3>1. winners(p) # {} /\ winners(p) \in SUBSET Wallets
      BY <1>1 DEF PoolSplit, winners
    <3> QED BY <1>1, <3>1, PoolIsNat, SomeWallets, QuotientBounds DEF quota
  <2>3. pacts[p].remainingPool <= 0 * q + 0
    BY <1>1, <2>1, <2>2 DEF PoolSplit
  <2> QED BY <1>1, <2>2, <2>3
<1> QED BY <1>1, <1>2 DEF PoolSplit

LEMMA SplitIsFair ==
  ASSUME LockInv, Money, NEW p \in PactIds, pacts[p].finalized, NEW w \in claimed[p]
  PROVE  LET n == Cardinality(winners(p))
         IN  payout[p][w] \in {pool(p) \div n, (pool(p) + n - 1) \div n}
<1>1. EscrowTypeOK /\ PoolSplit(p)
  BY DEF LockInv, EscrowInv, Money, MoneyOf
<1>2. winners(p) \in SUBSET Wallets
  BY DEF winners
<1>3. PICK n \in Nat : n = Cardinality(winners(p)) /\ n >= 1
  BY <1>1, <1>2, SomeWallets DEF PoolSplit
<1>4. PICK P \in Nat, q \in Nat : q = P \div n /\ P = pool(p) /\ q = quota(p)
  <2>1. pool(p) \in Nat /\ pool(p) \div n \in Nat
    BY <1>1, <1>3, PoolIsNat, QuotientBounds
  <2> QED BY <1>3, <2>1 DEF quota
<1>5. (P + n - 1) \div n = IF P = n * q THEN q ELSE q + 1
  <2>1. n >= 1 /\ q = P \div n
    BY <1>3, <1>4
  <2> QED BY <2>1
<1>6. payout[p][w] \in {q, q + 1} /\ (P = n * q => payout[p][w] = q)
  BY <1>1, <1>3, <1>4 DEF PoolSplit, exact
<1>7. payout[p][w] \in {P \div n, (P + n - 1) \div n}
  BY <1>4, <1>5, <1>6
<1> QED BY <1>3, <1>4, <1>7

LEMMA SplitNext ==
  (LockInv /\ Money =>
     \A p \in PactIds : pacts[p].finalized =>
        /\ pacts[p].remainingPool + PaidOut(p) = pool(p)
        /\ unpaid(p) = {} => pacts[p].remainingPool = 0
        /\ \A w \in claimed[p] :
              payout[p][w] \in {pool(p) \div Cardinality(winners(p)),
                                (pool(p) + Cardinality(winners(p)) - 1)
                                    \div Cardinality(winners(p))})'
<1>1. LockInv /\ Money =>
        \A p \in PactIds : pacts[p].finalized =>
           /\ pacts[p].remainingPool + PaidOut(p) = pool(p)
           /\ unpaid(p) = {} => pacts[p].remainingPool = 0
           /\ \A w \in claimed[p] :
                 payout[p][w] \in {pool(p) \div Cardinality(winners(p)),
                                   (pool(p) + Cardinality(winners(p)) - 1)
                                       \div Cardinality(winners(p))}
  BY SplitConserves, SplitIsFair
<1> QED BY <1>1, PTL

LEMMA PayRefines ==
  ASSUME LockInv, Money, LockInv', Money', NEW p \in PactIds, NEW w \in Wallets, claim(p, w)
  PROVE  Promise(p)!Pay(w)
<1>0. /\ pacts \in [PactIds -> Pact] /\ pacts[p] \in Pact
      /\ claimed \in [PactIds -> SUBSET Wallets] /\ payout \in [PactIds -> [Wallets -> Nat]]
      /\ pacts'[p] \in Pact /\ IsFiniteSet(Wallets)
  BY StravaConstants DEF LockInv, EscrowInv, EscrowTypeOK
<1>1. /\ pacts' = [pacts EXCEPT ![p].remainingPool = @ - share(p), ![p].claimsRemaining = @ - 1]
      /\ claimed' = [claimed EXCEPT ![p] = @ \cup {w}]
      /\ payout' = [payout EXCEPT ![p][w] = @ + share(p)]
      /\ pacts[p].finalized /\ w \notin claimed[p] /\ Eligible(p, w)
      /\ joined' = joined /\ completionCount' = completionCount
  BY DEF claim, claimable, dayVars
<1>2. /\ pacts'[p].terms = pacts[p].terms /\ pacts'[p].finalized = pacts[p].finalized
      /\ pacts'[p].cancelled = pacts[p].cancelled
      /\ pacts'[p].participantCount = pacts[p].participantCount
      /\ pacts'[p].finisherCount = pacts[p].finisherCount
      /\ claimed'[p] = claimed[p] \cup {w}
      /\ payout'[p] = [payout[p] EXCEPT ![w] = payout'[p][w]]
      /\ payout[p][w] = 0 /\ w \in winners(p)
  BY <1>0, <1>1 DEF Pact, Money, MoneyOf, winners
<1>3. winners(p)' = winners(p) /\ finishersOf(p)' = finishersOf(p) /\ pool(p)' = pool(p)
  BY <1>1, <1>2, WinnersFrame DEF pool, terms
<1>4. /\ Promise(p)!Winners = winners(p) /\ Promise(p)!Pool = pool(p) /\ outcomeOf(p) # "open"
  BY <1>1, PromisedWinners
<1>5. /\ pacts'[p].remainingPool + PaidOut(p)' = pool(p)
      /\ unpaid(p)' = {} => pacts'[p].remainingPool = 0
  BY <1>1, <1>2, <1>3, SplitNext
<1>6. Promise(p)!FairAmount(payout'[p][w])
  <2>1. /\ w \in claimed'[p]
        /\ payout'[p][w] \in {pool(p)' \div Cardinality(winners(p)'),
                              (pool(p)' + Cardinality(winners(p)') - 1) \div Cardinality(winners(p)')}
    BY <1>1, <1>2, SplitNext
  <2> QED BY <1>3, <1>4, <2>1, PromisedCardinality DEF Promise!FairAmount
<1>7. Promise(p)!TotalPaid(payout'[p]) = PaidOut(p)'
  BY PromisedTotal, PaidOutNext
<1>8. PaidOut(p)' \in Int
  <2>1. \A x \in Wallets : payout'[p][x] \in Int
    BY DEF LockInv, EscrowInv, EscrowTypeOK
  <2> QED BY <1>0, <2>1, SumIsInt, PaidOutNext
<1>9. PaidOut(p)' <= pool(p)
  <2>1. pacts'[p].remainingPool \in Nat
    BY <1>0 DEF Pact
  <2> QED BY <1>5, <1>8, <2>1
<1>10. ASSUME \A v \in winners(p) : payout'[p][v] # 0
       PROVE  PaidOut(p)' = pool(p)
  <2>1. \A v \in Wallets \ claimed'[p] : payout'[p][v] = 0
    BY DEF Money, MoneyOf
  <2>2. \A v \in winners(p)' : v \in Wallets
    BY DEF winners
  <2>3. unpaid(p)' = {}
    BY <1>3, <1>10, <2>1, <2>2 DEF unpaid
  <2> QED BY <1>5, <1>8, <2>3
<1>11. terms(p)' = terms(p) /\ outcomeOf(p)' = outcomeOf(p)
  BY <1>2 DEF terms, outcomeOf
<1> QED BY <1>1, <1>2, <1>3, <1>4, <1>6, <1>7, <1>9, <1>10, <1>11 DEF Promise!Pay

LEMMA StepRefines ==
  ASSUME LockInv, Money, StartedBeforeRun, [LockNext]_lockSystemVars, NEW p \in PactIds
  PROVE  [Promise(p)!Next]_(Promise(p)!svars)
<1>0. /\ LockInv' /\ Money' /\ pacts \in [PactIds -> Pact] /\ pacts[p] \in Pact
      /\ joined \in [PactIds -> SUBSET Wallets] /\ payout \in [PactIds -> [Wallets -> Nat]]
      /\ completionCount \in [PactIds -> [Wallets -> Nat]]
  BY LockInvIsInductive, MoneyIsInductive DEF LockInv, EscrowInv, EscrowTypeOK
<1>1. ASSUME pacts'[p] = pacts[p], joined'[p] = joined[p], payout'[p] = payout[p],
             completionCount'[p] = completionCount[p]
      PROVE  UNCHANGED Promise(p)!svars
  <2>1. finishersOf(p)' = finishersOf(p)
    BY <1>1, WinnersFrame
  <2> QED BY <1>1, <2>1, SettlementFrame DEF terms, outcomeOf
<1>2. ASSUME NEW w \in Wallets, NEW c \in Configurations, createPact(w, c, accesses)
      PROVE  [Promise(p)!Next]_(Promise(p)!svars)
  <2>1. CASE p = nextPactId
    <3>1. Promise(p)!Enter(w)
      BY <1>0, <1>2, <2>1, EnterRefines
    <3> QED BY <3>1 DEF Promise!Next
  <2>2. CASE p # nextPactId
    <3>1. /\ pacts' = [pacts EXCEPT ![nextPactId] =
                         [ZeroPact EXCEPT !.creator = w, !.terms = c, !.participantCount = 1]]
          /\ joined' = [joined EXCEPT ![nextPactId] = @ \cup {w}]
          /\ UNCHANGED <<completionCount, payout>>
      BY <1>2 DEF createPact, dayVars
    <3> QED BY <1>0, <1>1, <2>2, <3>1
  <2> QED BY <2>1, <2>2
<1>3. ASSUME NEW w \in Wallets, NEW q \in PactIds, joinPact(q, w, accesses)
      PROVE  [Promise(p)!Next]_(Promise(p)!svars)
  <2>1. CASE p = q
    <3>1. Promise(p)!Enter(w)
      BY <1>0, <1>3, <2>1, EnterRefines
    <3> QED BY <3>1 DEF Promise!Next
  <2>2. CASE p # q
    <3>1. /\ pacts' = [pacts EXCEPT ![q].participantCount = @ + 1]
          /\ joined' = [joined EXCEPT ![q] = @ \cup {w}]
          /\ UNCHANGED <<completionCount, payout>>
      BY <1>3 DEF joinPact, dayVars
    <3> QED BY <1>0, <1>1, <2>2, <3>1
  <2> QED BY <2>1, <2>2
<1>4. ASSUME NEW w \in Wallets, NEW q \in PactIds, NEW d, submitCompletion(q, w, d, completions)
      PROVE  [Promise(p)!Next]_(Promise(p)!svars)
  <2>1. CASE p = q
    <3>1. Promise(p)!Finish(w) \/ UNCHANGED Promise(p)!svars
      BY <1>0, <1>4, <2>1, RunRefines
    <3> QED BY <3>1 DEF Promise!Next
  <2>2. CASE p # q
    <3>1. /\ pacts' = [pacts EXCEPT ![q].finisherCount = @ + 1] \/ pacts' = pacts
          /\ completionCount' = [completionCount EXCEPT ![q][w] = @ + 1]
          /\ UNCHANGED <<joined, payout>>
      BY <1>4 DEF submitCompletion, countCompletion, paidVars
    <3> QED BY <1>0, <1>1, <2>2, <3>1
  <2> QED BY <2>1, <2>2
<1>5. ASSUME NEW q \in PactIds, cancel(q)
      PROVE  [Promise(p)!Next]_(Promise(p)!svars)
  <2>1. /\ pacts' = [pacts EXCEPT ![q].cancelled = TRUE] /\ ~pacts[q].finalized
        /\ UNCHANGED <<joined, completionCount, payout>>
    BY <1>5 DEF cancel, paidVars, dayVars
  <2>2. CASE p = q
    <3>1. /\ pacts'[p].terms = pacts[p].terms /\ ~pacts'[p].finalized /\ ~pacts[p].finalized
      BY <1>0, <2>1, <2>2 DEF Pact
    <3>2. \A v \in Wallets : finisher(p, v)' <=> finisher(p, v)
      BY <2>1, <3>1 DEF finisher, terms
    <3>3. finishersOf(p)' = finishersOf(p)
      BY <3>2 DEF finishersOf
    <3> QED BY <2>1, <3>1, <3>3, SettlementFrame DEF terms, outcomeOf
  <2>3. CASE p # q
    BY <1>0, <1>1, <2>1, <2>3
  <2> QED BY <2>2, <2>3
<1>6. ASSUME NEW q \in PactIds, finalizePact(q)
      PROVE  [Promise(p)!Next]_(Promise(p)!svars)
  <2>1. CASE p = q
    <3>1. Promise(p)!Settle
      BY <1>0, <1>6, <2>1, SettleRefines
    <3> QED BY <3>1 DEF Promise!Next
  <2>2. CASE p # q
    <3>1. pacts'[p] = pacts[p] /\ UNCHANGED <<joined, completionCount, payout>>
      BY <1>0, <1>6, <2>2 DEF finalizePact, paidVars, dayVars
    <3> QED BY <1>1, <3>1
  <2> QED BY <2>1, <2>2
<1>7. ASSUME NEW w \in Wallets, NEW q \in PactIds, claim(q, w)
      PROVE  [Promise(p)!Next]_(Promise(p)!svars)
  <2>1. CASE p = q
    <3>1. Promise(p)!Pay(w)
      BY <1>0, <1>7, <2>1, PayRefines
    <3> QED BY <3>1 DEF Promise!Next
  <2>2. CASE p # q
    <3>1. pacts'[p] = pacts[p] /\ payout'[p] = payout[p] /\ UNCHANGED <<joined, completionCount>>
      BY <1>0, <1>7, <2>2 DEF claim, dayVars
    <3> QED BY <1>1, <3>1
  <2> QED BY <2>1, <2>2
<1>8. CASE UNCHANGED stakeVars
  BY <1>1, <1>8 DEF stakeVars, lockVars, paidVars
<1> QED BY <1>2, <1>3, <1>4, <1>5, <1>6, <1>7, <1>8, StakesChangeBySteps DEF StakeStep

(* Lock by Lock, contract, routes and athletes together implement the      *)
(* settlement that README.md promises: one stake for all, no buying in     *)
(* once somebody has finished, one decision, and the whole pool to the     *)
(* winners in shares that differ by at most one base unit.                 *)
THEOREM StravaImplementsSettlement ==
  LockSpec => (\A p \in PactIds : Promise(p)!Init) /\ ImplementsSettlement
<1>1. LockInit => \A p \in PactIds : Promise(p)!Init
  <2> SUFFICES ASSUME LockInit, NEW p \in PactIds PROVE Promise(p)!Init
    OBVIOUS
  <2>1. /\ pacts[p] = ZeroPact /\ joined[p] = {} /\ payout[p] = [w \in Wallets |-> 0]
    BY DEF LockInit, EscrowInit, perPlayer
  <2>2. finishersOf(p) = {}
    BY <2>1 DEF finishersOf, finisher
  <2> QED BY <2>1, <2>2 DEF Promise!Init, terms, ZeroPact, ZeroTerms, outcomeOf
<1>2. LockInv /\ Money /\ StartedBeforeRun /\ [LockNext]_lockSystemVars =>
         [\A p \in PactIds : [Promise(p)!Next]_(Promise(p)!svars)]_lockSystemVars
  BY StepRefines
<1> QED BY <1>1, <1>2, LockInvIsInvariant, MoneyIsInvariant,
           StartedBeforeRunIsInvariant, PTL DEF LockSpec, ImplementsSettlement

-----------------------------------------------------------------------------
(* The pages.                                                              *)

(* A Lock ends with a split only once its last day is over: no page needs  *)
(* to ask of a Lock that has not started whether it is finalized.          *)
SplitOnlyAfterDeadline ==
    \A p \in PactIds :
        pacts[p].finalized /\ ~pacts[p].cancelled => now >= submissionDeadline(p)

LEMMA SplitOnlyAfterDeadlineIsInductive ==
  ASSUME LockInv, Room, SplitOnlyAfterDeadline, [LockNext]_lockSystemVars
  PROVE  SplitOnlyAfterDeadline'
<1> SUFFICES ASSUME NEW p \in PactIds, pacts'[p].finalized, ~pacts'[p].cancelled
             PROVE  now' >= submissionDeadline(p)'
  BY DEF SplitOnlyAfterDeadline
<1>0. /\ EscrowTypeOK /\ Accounts /\ now \in Nat
      /\ pacts \in [PactIds -> Pact] /\ pacts[p] \in Pact
  BY TimesAreNumbers DEF LockInv, EscrowInv, EscrowTypeOK
<1>1. ASSUME pacts'[p].terms = pacts[p].terms, Exists(p), now >= submissionDeadline(p)
      PROVE  now' >= submissionDeadline(p)'
  <2>1. submissionDeadline(p)' = submissionDeadline(p)
    BY <1>1 DEF submissionDeadline, endsAt, startsAt, terms
  <2>2. submissionDeadline(p) \in Nat
    BY <1>1, WindowsAreProper
  <2>3. now' = now \/ now' = now + 1
    BY StakesChangeBySteps
  <2> QED BY <1>0, <1>1, <2>1, <2>2, <2>3
<1>2. ASSUME pacts'[p].terms = pacts[p].terms, pacts[p].finalized, ~pacts[p].cancelled
      PROVE  now' >= submissionDeadline(p)'
  <2>1. Exists(p)
    <3>1. p \in Nat /\ nextPactId \in Nat
      BY <1>0, StravaConstants DEF EscrowTypeOK
    <3>2. ~(p >= nextPactId)
      BY <1>0, <1>2 DEF Accounts, Untouched, ZeroPact
    <3> QED BY <3>1, <3>2 DEF Room, RoomOf
  <2> QED BY <1>1, <1>2, <2>1 DEF SplitOnlyAfterDeadline
<1>3. ASSUME NEW w, NEW c, createPact(w, c, accesses) PROVE now' >= submissionDeadline(p)'
  <2>1. pacts' = [pacts EXCEPT ![nextPactId] =
                    [ZeroPact EXCEPT !.creator = w, !.terms = c, !.participantCount = 1]]
    BY <1>3 DEF createPact
  <2>2. p # nextPactId
    BY <1>0, <2>1 DEF ZeroPact
  <2> QED BY <1>0, <1>2, <2>1, <2>2
<1>4. ASSUME NEW q \in PactIds, finalizePact(q) PROVE now' >= submissionDeadline(p)'
  <2>1. PICK b, m, n :
          /\ pacts' = [pacts EXCEPT ![q].cancelled = b, ![q].finalized = TRUE,
                           ![q].claimsRemaining = m, ![q].remainingPool = n]
          /\ b = (pacts[q].cancelled \/ refundDue(q))
    BY <1>4 DEF finalizePact
  <2>2. CASE p = q
    <3>1. pacts'[p].cancelled = b /\ pacts'[p].terms = pacts[p].terms
      BY <1>0, <2>1, <2>2 DEF Pact
    <3>2. ~pacts[p].cancelled /\ ~refundDue(p)
      BY <2>1, <2>2, <3>1
    <3>3. Exists(p) /\ now >= submissionDeadline(p)
      BY <1>4, <2>2, <3>2 DEF finalizePact, finalizable, refundDue
    <3> QED BY <1>1, <3>1, <3>3
  <2>3. CASE p # q
    BY <1>0, <1>2, <2>1, <2>3
  <2> QED BY <2>2, <2>3
<1>5. ASSUME NEW q \in PactIds, NEW w, NEW d,
             \/ joinPact(q, w, accesses) \/ claim(q, w) \/ cancel(q)
             \/ submitCompletion(q, w, d, completions)
      PROVE  now' >= submissionDeadline(p)'
  <2>1. CASE joinPact(q, w, accesses)
    <3>1. pacts' = [pacts EXCEPT ![q].participantCount = @ + 1]
      BY <2>1 DEF joinPact
    <3> QED BY <1>0, <1>2, <3>1 DEF Pact
  <2>2. CASE claim(q, w)
    <3>1. PICK m, n :
            pacts' = [pacts EXCEPT ![q].remainingPool = m, ![q].claimsRemaining = n]
      BY <2>2 DEF claim
    <3> QED BY <1>0, <1>2, <3>1 DEF Pact
  <2>3. CASE cancel(q)
    <3>1. pacts' = [pacts EXCEPT ![q].cancelled = TRUE]
      BY <2>3 DEF cancel
    <3>2. p # q
      BY <1>0, <3>1 DEF Pact
    <3> QED BY <1>0, <1>2, <3>1, <3>2
  <2>4. CASE submitCompletion(q, w, d, completions)
    <3>1. pacts' = [pacts EXCEPT ![q].finisherCount = @ + 1] \/ pacts' = pacts
      BY <2>4 DEF submitCompletion, countCompletion
    <3> QED BY <1>0, <1>2, <3>1 DEF Pact
  <2> QED BY <1>5, <2>1, <2>2, <2>3, <2>4
<1>6. CASE UNCHANGED stakeVars
  BY <1>2, <1>6 DEF stakeVars, lockVars
<1> QED BY <1>3, <1>4, <1>5, <1>6, StakesChangeBySteps DEF StakeStep
LEMMA SplitOnlyAfterDeadlineIsInvariant == LockSpec => []SplitOnlyAfterDeadline
<1>1. LockInit => SplitOnlyAfterDeadline
  BY DEF LockInit, EscrowInit, SplitOnlyAfterDeadline, ZeroPact
<1>2. LockInv /\ Room /\ SplitOnlyAfterDeadline /\ [LockNext]_lockSystemVars =>
        SplitOnlyAfterDeadline'
  BY SplitOnlyAfterDeadlineIsInductive
<1> QED BY <1>1, <1>2, LockInvIsInvariant, BooksAreInvariant, PTL DEF LockSpec

(* The numbers a page compares.                                            *)
LEMMA PageNumbers ==
  ASSUME LockInv, NEW p \in PactIds, Exists(p)
  PROVE  /\ now \in Nat /\ startsAt(p) \in Nat /\ endsAt(p) \in Nat
         /\ submissionDeadline(p) = endsAt(p) + SubmissionGrace /\ SubmissionGrace \in Nat
         /\ startsAt(p) <= endsAt(p) /\ submissionDeadline(p) \in Nat
         /\ startsAt(p) < submissionDeadline(p)
         /\ pacts[p].participantCount \in Nat /\ pacts[p].finisherCount \in Nat
         /\ terms(p).minParticipants \in Nat /\ terms(p).maxParticipants \in Nat
         /\ terms(p).durationDays \in Nat /\ terms(p).durationDays >= 1
         /\ \A w \in Wallets : completionCount[p][w] \in Nat
         /\ terms(p).requiredCompletions \in Nat /\ terms(p).requiredCompletions >= 1
<1>1. EscrowTypeOK /\ Accounts /\ pacts[p] \in Pact
  BY DEF LockInv, EscrowInv, EscrowTypeOK
<1>2. terms(p) \in Configurations
  BY <1>1, ExistingLocks
<1>3. terms(p) \in Terms /\ SubmissionGrace \in Nat /\ DayLength \in Nat
  BY <1>2, StravaConstants
<1>4. PICK l \in Nat : l = terms(p).durationDays * DayLength
  <2>1. terms(p).durationDays \in Nat
    BY <1>3 DEF Terms
  <2> QED BY <1>3, <2>1, ProductIsNat
<1>5. startsAt(p) \in Nat /\ endsAt(p) = startsAt(p) + l
      /\ submissionDeadline(p) = endsAt(p) + SubmissionGrace
  BY <1>3, <1>4 DEF Terms, startsAt, endsAt, submissionDeadline
<1>6. startsAt(p) < submissionDeadline(p)
  BY WindowsAreProper
<1>7. now \in Nat
  BY <1>1, TimesAreNumbers
<1>8. \A w \in Wallets : completionCount[p][w] \in Nat
  BY <1>1 DEF EscrowTypeOK
<1>9. /\ terms(p).minParticipants \in Nat /\ terms(p).maxParticipants \in Nat
      /\ terms(p).durationDays \in Nat /\ terms(p).durationDays >= 1
      /\ terms(p).requiredCompletions \in Nat /\ terms(p).requiredCompletions >= 1
  BY <1>3 DEF Terms
<1>10. pacts[p].participantCount \in Nat /\ pacts[p].finisherCount \in Nat
  BY <1>1 DEF Pact
<1> QED BY <1>3, <1>4, <1>5, <1>6, <1>7, <1>8, <1>9, <1>10

(* What the pages read off the clock, in the words of the contract.        *)
LEMMA PageClock ==
  ASSUME LockInv, SplitOnlyAfterDeadline, NEW p \in PactIds, Exists(p)
  PROVE  /\ registration(p) <=> ~closed(p) /\ now < startsAt(p)
         /\ ~closed(p) => (shownUnderfilled(p) <=> now >= startsAt(p) /\ underfilled(p))
         /\ full(p) <=> ~(pacts[p].participantCount < terms(p).maxParticipants)
         /\ \A w \in Wallets : targetReached(p, w) <=>
               ~(completionCount[p][w] < terms(p).requiredCompletions)
<1>1. /\ now \in Nat /\ startsAt(p) \in Nat /\ submissionDeadline(p) \in Nat
      /\ startsAt(p) < submissionDeadline(p)
      /\ pacts[p].participantCount \in Nat
      /\ terms(p).maxParticipants \in Nat
      /\ \A w \in Wallets : completionCount[p][w] \in Nat
      /\ terms(p).requiredCompletions \in Nat
  BY PageNumbers
<1>2. pacts[p].finalized /\ ~pacts[p].cancelled => now >= submissionDeadline(p)
  BY DEF SplitOnlyAfterDeadline
<1>3. registration(p) <=> ~closed(p) /\ now < startsAt(p)
  BY <1>1, <1>2 DEF registration, closed
<1>4. ~closed(p) => (shownUnderfilled(p) <=> now >= startsAt(p) /\ underfilled(p))
  BY <1>1, <1>3 DEF shownUnderfilled, underfilled
<1>5. full(p) <=> ~(pacts[p].participantCount < terms(p).maxParticipants)
  BY <1>1 DEF full
<1>6. \A w \in Wallets : targetReached(p, w) <=>
               ~(completionCount[p][w] < terms(p).requiredCompletions)
  BY <1>1 DEF targetReached
<1> QED BY <1>3, <1>4, <1>5, <1>6

LEMMA StatusesAgree ==
  ASSUME LockInv, SplitOnlyAfterDeadline, NEW p \in PactIds, Exists(p)
  PROVE  status(p) = pactState(p) /\ (settleButton(p) <=> finalizable(p))
<1>1. /\ now \in Nat /\ startsAt(p) \in Nat /\ endsAt(p) \in Nat
      /\ submissionDeadline(p) = endsAt(p) + SubmissionGrace /\ SubmissionGrace \in Nat
      /\ startsAt(p) <= endsAt(p)
  BY PageNumbers
<1>2. /\ registration(p) <=> ~closed(p) /\ now < startsAt(p)
      /\ ~closed(p) => (shownUnderfilled(p) <=> now >= startsAt(p) /\ underfilled(p))
  BY PageClock
<1>3. closed(p) <=> pacts[p].cancelled \/ pacts[p].finalized
  BY DEF closed
<1>4. settleButton(p) <=> finalizable(p)
  BY <1>1, <1>2, <1>3 DEF settleButton, canSettle, finalizable, shownUnderfilled
<1>5. status(p) = pactState(p)
  <2>1. CASE closed(p)
    <3>1. ~registration(p) /\ ~shownUnderfilled(p) /\ ~active(p) /\ ~graceOpen(p)
      BY <1>2, <2>1 DEF shownUnderfilled, active, graceOpen
    <3>2. CASE pacts[p].finalized /\ pacts[p].cancelled
      BY <2>1, <3>1, <3>2 DEF status, pactState
    <3>3. CASE pacts[p].finalized /\ ~pacts[p].cancelled
      BY <2>1, <3>1, <3>3 DEF status, pactState
    <3>4. CASE ~pacts[p].finalized /\ pacts[p].cancelled
      BY <2>1, <3>1, <3>4 DEF status, pactState
    <3> QED BY <1>3, <2>1, <3>2, <3>3, <3>4
  <2>2. CASE ~closed(p) /\ now < startsAt(p)
    BY <1>1, <1>2, <1>3, <2>2 DEF shownUnderfilled, active, graceOpen, status, pactState
  <2>3. CASE ~closed(p) /\ now >= startsAt(p) /\ underfilled(p)
    <3>1. shownUnderfilled(p) /\ ~registration(p) /\ ~active(p) /\ ~graceOpen(p)
      BY <1>1, <1>2, <2>3 DEF active, graceOpen
    <3> QED BY <1>1, <1>3, <2>3, <3>1 DEF underfilled, status, pactState
  <2>4. CASE ~closed(p) /\ now >= startsAt(p) /\ ~underfilled(p)
    <3>1. ~shownUnderfilled(p) /\ ~registration(p)
      BY <1>1, <1>2, <2>4
    <3>2. active(p) <=> now < endsAt(p)
      BY <2>4, <3>1 DEF active
    <3>3. graceOpen(p) <=> now >= endsAt(p) /\ now < endsAt(p) + SubmissionGrace
      BY <1>1, <2>4, <3>1 DEF graceOpen
    <3> HIDE DEF active, graceOpen, shownUnderfilled, registration
    <3>4. ~pacts[p].cancelled /\ ~pacts[p].finalized
      BY <1>3, <2>4
    <3>5. CASE now < endsAt(p)
      BY <1>1, <2>4, <3>1, <3>2, <3>3, <3>4, <3>5
         DEF underfilled, status, pactState
    <3>6. CASE now >= endsAt(p) /\ now < endsAt(p) + SubmissionGrace
      BY <1>1, <2>4, <3>1, <3>2, <3>3, <3>4, <3>6
         DEF underfilled, status, pactState
    <3>7. CASE now >= endsAt(p) + SubmissionGrace
      BY <1>1, <2>4, <3>1, <3>2, <3>3, <3>4, <3>7
         DEF underfilled, status, pactState
    <3> QED BY <1>1, <3>5, <3>6, <3>7
  <2> QED BY <1>1, <2>1, <2>2, <2>3, <2>4
<1> QED BY <1>4, <1>5
LEMMA ButtonsWork ==
  ASSUME LockInv, Money, SplitOnlyAfterDeadline, NEW p \in PactIds, Exists(p), NEW w \in Wallets
  PROVE  /\ \A actions \in ProductActions :
               joinButton(p, w, actions) /\ ~joiningPaused <=> actions.join /\ joinable(p, w)
         /\ cancelButton(p, w) <=> cancellable(p, w)
         /\ claimButton(p, w) <=> claimable(p, w)
<1>1. /\ registration(p) <=> ~closed(p) /\ now < startsAt(p)
      /\ full(p) <=> ~(pacts[p].participantCount < terms(p).maxParticipants)
      /\ targetReached(p, w) <=> completionCount[p][w] >= terms(p).requiredCompletions
  BY PageClock DEF targetReached
<1>2. ASSUME NEW actions \in ProductActions
      PROVE  joinButton(p, w, actions) /\ ~joiningPaused <=> actions.join /\ joinable(p, w)
  BY <1>1, Zenon DEF joinButton, joinable, joinOpen
<1>3. cancelButton(p, w) <=> cancellable(p, w)
  <2>1. pacts[p].creator \in joined[p]
    BY DEF Money, MoneyOf
  <2> QED BY <1>1, <2>1, Zenon DEF cancelButton, cancellable
<1>4. payoutEligible(p, w) <=> Eligible(p, w)
  BY DEF payoutEligible, Eligible, Refunded, finisher, targetReached
<1>5. claimButton(p, w) <=> claimable(p, w)
  BY <1>4 DEF claimButton, claimable
<1> QED BY <1>2, <1>3, <1>5

(* A day that takes runs lies in a Lock that has started.                  *)
LEMMA OpenDaysHaveStarted ==
  ASSUME LockInv, NEW p \in PactIds, Exists(p), NEW d \in Days(p), dayOpen(p, d)
  PROVE  now >= startsAt(p)
<1>1. /\ now \in Nat /\ startsAt(p) \in Nat /\ terms(p).durationDays \in Nat
  BY PageNumbers
<1>2. d \in Nat
  BY <1>1 DEF Days
<1>3. PICK x \in Nat : x = d * DayLength
  BY <1>2, StravaConstants, ProductIsNat
<1>4. now >= startsAt(p) + x
  BY <1>3 DEF dayOpen, dayStart
<1> QED BY <1>1, <1>4

LEMMA DayButtonsWork ==
  ASSUME LockInv, SplitOnlyAfterDeadline, NEW p \in PactIds, Exists(p), NEW w \in Wallets,
         NEW actions \in ProductActions
  PROVE  /\ \A d \in Days(p) :
               dayButton(p, w, d, actions) /\ ~completionPaused
                  <=> actions.checkIns /\ completable(p, w, d)
         /\ canCheckIn(p, w, actions) /\ ~completionPaused
               <=> actions.checkIns /\ \E d \in Days(p) : completable(p, w, d)
<1>1. /\ ~closed(p) => (shownUnderfilled(p) <=> now >= startsAt(p) /\ underfilled(p))
      /\ targetReached(p, w) <=> ~(completionCount[p][w] < terms(p).requiredCompletions)
  BY PageClock
<1>2. ASSUME NEW d \in Days(p)
      PROVE  /\ dayButton(p, w, d, actions) /\ ~completionPaused
                   <=> actions.checkIns /\ completable(p, w, d)
             /\ completable(p, w, d) <=>
                   /\ ~completionPaused /\ w \in joined[p] /\ ~targetReached(p, w)
                   /\ ~closed(p) /\ ~shownUnderfilled(p)
                   /\ d \in openDays(p, w)
  <2>1. submissionOpenForDay(p, d) <=> dayOpen(p, d)
    BY DEF submissionOpenForDay, dayOpen
  <2>2. dayOpen(p, d) => now >= startsAt(p)
    BY OpenDaysHaveStarted
  <2>3. d \in openDays(p, w) <=> dayOpen(p, d) /\ d \notin completionBitmap[p][w]
    BY <2>1 DEF openDays
  <2> QED BY <1>1, <2>1, <2>2, <2>3, Zenon DEF dayButton, completable
<1>3. \A d \in openDays(p, w) : d \in Days(p)
  BY DEF openDays
<1> QED BY <1>2, <1>3 DEF canCheckIn

(* In the grace time of a Lock only its last day is still open.            *)
LEMMA GraceIsForTheLastDay ==
  ASSUME LockInv, NEW p \in PactIds, Exists(p), now >= endsAt(p), now < submissionDeadline(p)
  PROVE  {d \in Days(p) : submissionOpenForDay(p, d)} = {terms(p).durationDays - 1}
<1>1. PICK s \in Nat, n \in Nat :
        /\ s = startsAt(p) /\ n = terms(p).durationDays /\ n >= 1 /\ now \in Nat
        /\ endsAt(p) = s + n * DayLength /\ Days(p) = 0 .. n - 1
        /\ submissionDeadline(p) = endsAt(p) + SubmissionGrace
        /\ \A d : dayStart(p, d) = s + d * DayLength
  BY PageNumbers DEF endsAt, Days, dayStart
<1>2. DayLength \in Nat /\ SubmissionGrace \in Nat /\ SubmissionGrace <= DayLength
  BY StravaConstants
<1>3. ASSUME NEW d \in 0 .. n - 1, d # n - 1
      PROVE  ~submissionOpenForDay(p, d)
  <2>1. d + 1 \in 0 .. n - 1 /\ d \in Nat
    BY <1>1, <1>3
  <2>2. PICK x \in Nat : x = d * DayLength
    BY <1>2, <2>1, ProductIsNat
  <2>3. PICK y \in Nat : y = n * DayLength
    BY <1>2, ProductIsNat
  <2>4. (d + 1) * DayLength = x + DayLength
    <3>1. (d + 1) * DayLength = d * DayLength + DayLength
      BY <1>2, <2>1
    <3> QED BY <2>2, <3>1
  <2>5. s + (d + 1) * DayLength + DayLength <= s + n * DayLength
    BY <1>2, <2>1, LastDayEndsWithLock
  <2>6. s + (x + DayLength) + DayLength <= s + y
    BY <2>3, <2>4, <2>5
  <2>7. dayStart(p, d) = s + x /\ s + y <= now
    BY <1>1, <2>2, <2>3
  <2>8. now \in Nat
    BY <1>1
  <2>9. ~(now < s + x + DayLength + SubmissionGrace)
    BY <1>2, <2>6, <2>7, <2>8
  <2> QED BY <2>7, <2>9 DEF submissionOpenForDay
<1>4. submissionOpenForDay(p, n - 1)
  <2>1. PICK k \in Nat : k = n - 1 /\ n = k + 1
    BY <1>1
  <2>2. PICK x \in Nat : x = k * DayLength
    BY <1>2, ProductIsNat
  <2>3. (k + 1) * DayLength = k * DayLength + DayLength
    BY <1>2
  <2>4. n * DayLength = x + DayLength
    BY <2>1, <2>2, <2>3
  <2>5. dayStart(p, n - 1) = s + x /\ s + (x + DayLength) <= now
        /\ now < s + (x + DayLength) + SubmissionGrace
    BY <1>1, <2>1, <2>2, <2>4
  <2>6. now \in Nat
    BY <1>1
  <2>7. now >= s + x /\ now < s + x + DayLength + SubmissionGrace
    BY <1>2, <2>5, <2>6
  <2> QED BY <2>5, <2>7 DEF submissionOpenForDay
<1> QED BY <1>1, <1>3, <1>4

LEMMA HighFivesWork ==
  ASSUME LockInv, NEW p \in PactIds, Exists(p), NEW w \in Wallets, NEW to \in joined[p],
         NEW d \in completionBitmap[p][to]
  PROVE  d \in highFiveDays(p, w, to) <=> reactable(p, w, to, d)
<1>1. to \in Wallets /\ DaysOf(p, to) /\ terms(p).durationDays \in Nat
  BY PageNumbers DEF LockInv, EscrowInv, EscrowTypeOK, Accounts, AccountsOf
<1>2. completionBitmap[p][to] \in SUBSET (0 .. terms(p).durationDays - 1)
      /\ completionCount[p][to] = Cardinality(completionBitmap[p][to])
  BY <1>1 DEF DaysOf, Days
<1>3. completionCount[p][to] # 0
  BY <1>1, <1>2, DaySetsFinite, FS_EmptySet
<1>4. d \in Days(p)
  BY <1>2 DEF Days
<1> QED BY <1>3, <1>4 DEF highFiveDays, reactable

LEMMA PagesAgree ==
  ASSUME LockInv, Money, Room, Balanced, SplitOnlyAfterDeadline
  PROVE  PagesMatchContract
<1>1. ASSUME NEW p \in ids
      PROVE  /\ p \in PactIds /\ Exists(p)
             /\ \A w \in Wallets : \A to \in joined[p] : w \in Wallets /\ to \in Wallets
  <2>1. p \in PactIds /\ EscrowTypeOK
    BY DEF Balanced, LockInv, EscrowInv
  <2>2. p < nextPactId
    BY <2>1 DEF ids, EscrowTypeOK
  <2> QED BY <2>1, <2>2 DEF Room, RoomOf, EscrowTypeOK
<1>2. ASSUME NEW p \in ids
      PROVE  status(p) = pactState(p) /\ (settleButton(p) <=> finalizable(p))
  BY <1>1, StatusesAgree
<1>3. ASSUME NEW p \in ids, p \in recentPactIds PROVE p \in openPacts <=> joinOpen(p)
  <2>1. p \in PactIds /\ Exists(p)
    BY <1>1
  <2>2. full(p) <=> ~(pacts[p].participantCount < terms(p).maxParticipants)
    BY <2>1, PageClock
  <2>3. ~(startsAt(p) <= now) <=> now < startsAt(p)
    BY <2>1, PageNumbers
  <2> QED BY <1>3, <2>2, <2>3 DEF openPacts, joinOpen
<1>4. ASSUME NEW p \in ids, status(p) = "submission-grace"
      PROVE  {d \in Days(p) : submissionOpenForDay(p, d)} = {terms(p).durationDays - 1}
  <2>1. p \in PactIds /\ Exists(p) /\ pactState(p) = "submission-grace"
    BY <1>1, <1>2, <1>4
  <2>2. /\ now \in Nat /\ endsAt(p) \in Nat /\ startsAt(p) \in Nat
        /\ submissionDeadline(p) = endsAt(p) + SubmissionGrace
    BY <2>1, PageNumbers
  <2>3. now >= endsAt(p) /\ now < submissionDeadline(p)
    BY <2>1, <2>2 DEF pactState, closed
  <2> QED BY <2>1, <2>3, GraceIsForTheLastDay
<1>5. ASSUME NEW p \in ids, NEW w \in Wallets
      PROVE  /\ cancelButton(p, w) <=> cancellable(p, w)
             /\ claimButton(p, w) <=> claimable(p, w)
  BY <1>1, ButtonsWork
<1>8. ASSUME NEW p \in ids, NEW w \in Wallets, NEW actions \in ProductActions
      PROVE  /\ joinButton(p, w, actions) /\ ~joiningPaused <=> actions.join /\ joinable(p, w)
             /\ \A d \in Days(p) :
                   dayButton(p, w, d, actions) /\ ~completionPaused
                      <=> actions.checkIns /\ completable(p, w, d)
             /\ canCheckIn(p, w, actions) /\ ~completionPaused
                   <=> actions.checkIns /\ \E d \in Days(p) : completable(p, w, d)
  BY <1>1, ButtonsWork, DayButtonsWork
<1>6. ASSUME NEW p \in ids, NEW w \in Wallets, NEW to \in joined[p],
             NEW d \in completionBitmap[p][to]
      PROVE  d \in highFiveDays(p, w, to) <=> reactable(p, w, to, d)
  BY <1>1, HighFivesWork
<1>7. ASSUME NEW p \in ids
      PROVE  LET calls == functionNames(p) IN
               \/ refundConversionGone(p) \/ incidentVerified(p)
               \/ calls = <<"finalizePact">> /\ finalizable(p) /\ pacts[p].cancelled
               \/ calls = <<"cancelPactByOwner", "finalizePact">> /\ ~closed(p)
  BY DEF functionNames, refundConversionGone, incidentVerified, finalizable, closed
<1> QED BY <1>2, <1>3, <1>4, <1>5, <1>6, <1>7, <1>8, Zenon DEF PagesMatchContract, ids

(* In every state of every Lock the page, the list of open Locks and the   *)
(* scripts offer the calls that the contract would take, although each     *)
(* works that out for itself; joins and check-ins as far as the health     *)
(* route's answer, whatever it is, lets the page offer them and the        *)
(* contract's switches are open. For the join button this rests on no      *)
(* Lock being split before its deadline, and the grace window shows one    *)
(* day because the grace is no longer than a day.                          *)
THEOREM PagesAlwaysMatchContract == LockSpec => []PagesMatchContract
<1>1. LockInv /\ Money /\ Room /\ Balanced /\ SplitOnlyAfterDeadline => PagesMatchContract
  BY PagesAgree
<1> QED BY <1>1, LockInvIsInvariant, MoneyIsInvariant, BooksAreInvariant,
           SplitOnlyAfterDeadlineIsInvariant, PTL
=============================================================================
