-------------------------- MODULE StravaLockProofs --------------------------
(***************************************************************************)
(* What is proved of LockInEscrow.sol and of the routes that sign for it:  *)
(* the types and the accounts of every Lock, and the runs behind its days: *)
(* every completed day has a run of its own, of an athlete who authorised  *)
(* the wallet, an identity plays for one wallet, and the score counts the  *)
(* UTC days of those runs once. All of it for any number of wallets,       *)
(* athletes, Locks, days, requests and keys.                               *)
(***************************************************************************)
EXTENDS StravaLockProperties, CompletionPausesProofs, FiniteSetTheorems

(* Division as claim() uses it.                                            *)
LEMMA DivBounds ==
  ASSUME NEW n \in Nat, NEW d \in Nat, d >= 1
  PROVE  n \div d \in Nat /\ n \div d <= n
OBVIOUS

LEMMA ProductIsNat ==
  ASSUME NEW m \in Nat, NEW n \in Nat PROVE m * n \in Nat
OBVIOUS

(* The terms of every Lock, created or not, are numbers.                   *)
LEMMA TermsAreNumbers ==
  ASSUME NEW c \in Configurations \cup {ZeroTerms}
  PROVE  /\ c.stake \in Nat /\ c.dailyTarget \in Nat /\ c.durationDays \in Nat
         /\ c.requiredCompletions \in Nat /\ c.minParticipants \in Nat /\ c.startsAt \in Nat
<1>1. CASE c = ZeroTerms
  BY <1>1 DEF ZeroTerms
<1>2. CASE c \in Configurations
  BY <1>2, StravaConstants DEF Terms
<1> QED BY <1>1, <1>2

LEMMA RequirementIsPositive ==
  ASSUME NEW c \in Configurations
  PROVE  c.requiredCompletions \in Nat /\ c.requiredCompletions >= 1
BY StravaConstants DEF Terms

(* The sets of a Lock are finite, so their cardinalities are numbers.      *)
LEMMA WalletSetsFinite ==
  ASSUME NEW S \in SUBSET Wallets
  PROVE  IsFiniteSet(S) /\ Cardinality(S) \in Nat
<1>1. IsFiniteSet(Wallets)
  BY StravaConstants
<1>2. IsFiniteSet(S)
  BY <1>1, FS_Subset
<1> QED BY <1>2, FS_CardinalityType

LEMMA DaySetsFinite ==
  ASSUME NEW n \in Nat, NEW S \in SUBSET (0 .. n - 1)
  PROVE  IsFiniteSet(S) /\ Cardinality(S) \in Nat
<1>1. IsFiniteSet(0 .. n - 1)
  BY FS_Interval
<1>2. IsFiniteSet(S)
  BY <1>1, FS_Subset
<1> QED BY <1>2, FS_CardinalityType

-----------------------------------------------------------------------------
(* The inductive invariant: the types, with those of the backend, and the  *)
(* accounts of every Lock.                                                 *)

Activity ==
    [id : Nat, athlete : Identities, startsAt : Nat, sport : STRING, manual : BOOLEAN,
     trainer : BOOLEAN, flagged : BOOLEAN, gps : BOOLEAN, distance : Nat, movingTime : Nat,
     elapsedTime : Nat]

LoadedCheckIn == [step : {"loaded"}, wallet : Wallets, pactId : PactIds, dayIndex : Nat]

ConnectedCheckIn ==
    [step : {"connected"}, wallet : Wallets, pactId : PactIds, dayIndex : Nat,
     athlete : Identities, tokens : Identities]

BackendTypes ==
    /\ activities \in Seq(Activity) /\ Len(activities) <= MaxActivities
    /\ \A k \in 1 .. Len(activities) : activities[k].id = k
    /\ accessesSigned \in Nat /\ accessesSigned <= MaxAccesses

(* Whatever moved, the athlete a row names and the one whose tokens it     *)
(* holds have both authorised its wallet; so have those a request read.    *)
Connections ==
    /\ connection \in [Wallets -> {NoRow} \cup [athlete : Identities, tokens : Identities]]
    /\ authorized \in [Wallets -> SUBSET Identities]
    /\ handlers \in [Handlers -> {Idle} \cup LoadedCheckIn \cup ConnectedCheckIn]
    /\ \A w \in Wallets :
          connected(w) => {connection[w].athlete, connection[w].tokens} \subseteq authorized[w]
    /\ \A h \in Handlers : handlers[h] \in ConnectedCheckIn =>
          {handlers[h].athlete, handlers[h].tokens} \subseteq authorized[handlers[h].wallet]

DaysOf(p, w) ==
    /\ completionBitmap[p][w] \subseteq Days(p)
    /\ completionCount[p][w] = Cardinality(completionBitmap[p][w])
    /\ completionCount[p][w] <= terms(p).requiredCompletions
    /\ completionBitmap[p][w] # {} => w \in joined[p]

AccountsOf(p) ==
    /\ pacts[p].participantCount = Cardinality(joined[p])
    /\ pacts[p].finisherCount = Cardinality(finishersOf(p))
    /\ pacts[p].claimsRemaining = IF pacts[p].finalized THEN Cardinality(unpaid(p)) ELSE 0
    /\ ~pacts[p].finalized => claimed[p] = {}
    /\ \A w \in Wallets : DaysOf(p, w)

Untouched(p) ==
    /\ pacts[p] = ZeroPact /\ joined[p] = {} /\ claimed[p] = {}
    /\ \A w \in Wallets : completionBitmap[p][w] = {} /\ completionCount[p][w] = 0

Accounts ==
    \A p \in PactIds :
        /\ AccountsOf(p)
        /\ IF p >= nextPactId THEN Untouched(p) ELSE terms(p) \in Configurations

EscrowInv == EscrowTypeOK /\ Accounts

accountOf(p) ==
    <<pacts[p], joined[p], claimed[p], completionBitmap[p], completionCount[p]>>

(* A Lock whose account an action leaves alone keeps its account in order. *)
LEMMA OtherLocksKeepAccounts ==
  ASSUME NEW p \in PactIds, AccountsOf(p), accountOf(p)' = accountOf(p)
  PROVE  AccountsOf(p)'
<1>1. /\ pacts'[p] = pacts[p] /\ joined'[p] = joined[p] /\ claimed'[p] = claimed[p]
      /\ completionBitmap'[p] = completionBitmap[p] /\ completionCount'[p] = completionCount[p]
  BY DEF accountOf
<1>2. terms(p)' = terms(p) /\ Days(p)' = Days(p)
  BY <1>1 DEF terms, Days
<1>3. \A w : finisher(p, w)' <=> finisher(p, w)
  BY <1>1, <1>2 DEF finisher
<1>4. finishersOf(p)' = finishersOf(p)
  BY <1>3 DEF finishersOf
<1>5. \A w : Eligible(p, w)' <=> Eligible(p, w)
  BY <1>1, <1>3 DEF Eligible, Refunded
<1>6. unpaid(p)' = unpaid(p)
  BY <1>1, <1>5 DEF unpaid, winners
<1>7. \A w \in Wallets : DaysOf(p, w)'
  BY <1>1, <1>2 DEF AccountsOf, DaysOf
<1> QED BY <1>1, <1>4, <1>6, <1>7 DEF AccountsOf

(* The new accounts after a step on one Lock that exists.                  *)
LEMMA OneLockStep ==
  ASSUME EscrowTypeOK, Accounts, NEW p \in PactIds, nextPactId' = nextPactId, p < nextPactId,
         \A q \in PactIds : q # p => accountOf(q)' = accountOf(q),
         terms(p)' = terms(p), AccountsOf(p)'
  PROVE  Accounts'
<1> SUFFICES ASSUME NEW q \in PactIds
             PROVE  /\ AccountsOf(q)'
                    /\ IF q >= nextPactId' THEN Untouched(q)' ELSE terms(q)' \in Configurations
  BY DEF Accounts
<1>1. CASE q = p
  <2>1. q \in Nat /\ nextPactId \in Nat
    BY StravaConstants DEF EscrowTypeOK
  <2>2. ~ (q >= nextPactId')
    BY <1>1, <2>1
  <2> QED BY <1>1, <2>2 DEF Accounts
<1>2. CASE q # p
  <2>1. accountOf(q)' = accountOf(q)
    BY <1>2
  <2>2. terms(q)' = terms(q) /\ (Untouched(q) => Untouched(q)')
    BY <2>1 DEF accountOf, terms, Untouched
  <2> QED BY <2>1, <2>2, OtherLocksKeepAccounts DEF Accounts
<1> QED BY <1>1, <1>2

(* A step that leaves every account alone.                                 *)
LEMMA AccountsFrame ==
  ASSUME Accounts, nextPactId' = nextPactId, \A q \in PactIds : accountOf(q)' = accountOf(q)
  PROVE  Accounts'
<1> SUFFICES ASSUME NEW q \in PactIds
             PROVE  /\ AccountsOf(q)'
                    /\ IF q >= nextPactId' THEN Untouched(q)' ELSE terms(q)' \in Configurations
  BY DEF Accounts
<1>1. terms(q)' = terms(q) /\ (Untouched(q) => Untouched(q)')
  BY DEF accountOf, terms, Untouched
<1> QED BY <1>1, OtherLocksKeepAccounts DEF Accounts

(* A Lock that exists has an id below nextPactId, and terms.               *)
LEMMA ExistingLocks ==
  ASSUME EscrowTypeOK, Accounts, NEW p \in PactIds, Exists(p)
  PROVE  p < nextPactId /\ terms(p) \in Configurations
<1>1. p \in Nat /\ nextPactId \in Nat
  BY StravaConstants DEF EscrowTypeOK
<1>2. ~ (p >= nextPactId)
  BY DEF Accounts, Untouched, Exists, ZeroPact
<1> QED BY <1>1, <1>2 DEF Accounts

-----------------------------------------------------------------------------

LEMMA InitKeepsInv == EscrowInit => EscrowInv
<1> SUFFICES ASSUME EscrowInit PROVE EscrowInv
  OBVIOUS
<1>1. PausesTypeOK
  BY LedgerInit DEF EscrowInit, LedgerOK
<1>2. ZeroPact \in Pact
  BY DEF ZeroPact, Pact
<1>3. EscrowTypeOK
  BY <1>1, <1>2 DEF EscrowInit, EscrowTypeOK, perPlayer, perWallet
<1>4. ASSUME NEW p \in PactIds
      PROVE  Untouched(p) /\ AccountsOf(p) /\ p >= nextPactId
  <2>1. Untouched(p)
    BY <1>4 DEF EscrowInit, Untouched, perPlayer
  <2>2. finishersOf(p) = {}
    BY <1>4, <2>1 DEF Untouched, finishersOf, finisher
  <2>3. AccountsOf(p)
    <3>1. /\ pacts[p].participantCount = 0 /\ pacts[p].finisherCount = 0
          /\ pacts[p].claimsRemaining = 0 /\ pacts[p].finalized = FALSE
          /\ terms(p).requiredCompletions = 0
      BY <2>1 DEF Untouched, ZeroPact, ZeroTerms, terms
    <3>2. Cardinality({}) = 0
      BY FS_EmptySet
    <3>3. ASSUME NEW w \in Wallets PROVE DaysOf(p, w)
      <4>1. completionBitmap[p][w] = {} /\ completionCount[p][w] = 0
        BY <2>1 DEF Untouched
      <4> QED BY <3>1, <3>2, <4>1 DEF DaysOf
    <3> QED BY <2>1, <2>2, <3>1, <3>2, <3>3 DEF AccountsOf, Untouched
  <2>4. p \in Nat \ {0} /\ nextPactId = 1
    BY <1>4, StravaConstants DEF EscrowInit
  <2> QED BY <2>1, <2>3, <2>4
<1>5. Accounts
  BY <1>4 DEF Accounts
<1> QED BY <1>3, <1>5 DEF EscrowInv

-----------------------------------------------------------------------------
(* Putting a stake down: createPact and joinPact.                          *)

LEMMA NoncesKeepTheirType ==
  ASSUME accesses \subseteq AccessAttestation, usedAccessNonces \subseteq AccessNonces,
         NEW w, NEW action, NEW p, NEW c, consumeAccess(w, action, p, c, accesses)
  PROVE  usedAccessNonces' \subseteq AccessNonces
<1>1. PICK x \in accesses : usedAccessNonces' = usedAccessNonces \cup {x.nonce}
  BY DEF consumeAccess
<1>2. x.nonce \in AccessNonces
  BY <1>1 DEF AccessAttestation
<1> QED BY <1>1, <1>2

LEMMA PausesFrame ==
  ASSUME PausesTypeOK, UNCHANGED <<now, pauseVars>> PROVE PausesTypeOK'
BY DEF PausesTypeOK, pauseVars, completionPauseGeneration, closedCount

LEMMA CreateKeepsInv ==
  ASSUME EscrowInv, accesses \subseteq AccessAttestation, NEW w \in Wallets,
         NEW c \in Configurations, createPact(w, c, accesses)
  PROVE  EscrowInv'
<1>0. PICK n \in PactIds : n = nextPactId
  BY DEF createPact
<1> DEFINE record == [ZeroPact EXCEPT !.creator = w, !.terms = c, !.participantCount = 1]
<1>1. EscrowTypeOK /\ Accounts /\ n \in Nat
  BY StravaConstants DEF EscrowInv
<1>2. /\ pacts' = [pacts EXCEPT ![n] = record] /\ joined' = [joined EXCEPT ![n] = @ \cup {w}]
      /\ nextPactId' = n + 1 /\ vault' = vault + c.stake
      /\ UNCHANGED <<now, pauseVars, switchVars, dayVars, claimed, payout>>
      /\ consumeAccess(w, "create", 0, c, accesses)
  BY <1>0 DEF createPact
<1>3. Untouched(n)
  BY <1>0, <1>1 DEF Accounts
<1>4. record \in Pact
  BY DEF ZeroPact, Pact
<1>5. EscrowTypeOK'
  <2>1. pacts' \in [PactIds -> Pact] /\ joined' \in [PactIds -> SUBSET Wallets]
    BY <1>1, <1>2, <1>4 DEF EscrowTypeOK
  <2>2. vault' \in Int /\ nextPactId' \in Nat \ {0}
    BY <1>1, <1>2, TermsAreNumbers DEF EscrowTypeOK
  <2>3. PausesTypeOK' /\ usedAccessNonces' \subseteq AccessNonces
    BY <1>1, <1>2, PausesFrame, NoncesKeepTheirType DEF EscrowTypeOK
  <2> QED BY <1>1, <1>2, <2>1, <2>2, <2>3
          DEF EscrowTypeOK, switchVars, dayVars, identityVars, scoreVars
<1>6. /\ joined'[n] = {w} /\ claimed'[n] = {} /\ pacts'[n] = record
      /\ \A v \in Wallets : completionBitmap'[n][v] = {} /\ completionCount'[n][v] = 0
  BY <1>1, <1>2, <1>3 DEF EscrowTypeOK, Untouched, dayVars
<1>7. terms(n)' = c
  BY <1>6 DEF terms, ZeroPact
<1>8. AccountsOf(n)'
  <2>1. /\ record.participantCount = 1 /\ record.finisherCount = 0
        /\ record.claimsRemaining = 0 /\ ~record.finalized
    BY DEF ZeroPact
  <2>2. Cardinality({w}) = 1 /\ Cardinality({}) = 0
    BY FS_EmptySet, FS_Singleton
  <2>3. finishersOf(n)' = {}
    BY <1>6, <1>7, RequirementIsPositive DEF finishersOf, finisher
  <2>4. ASSUME NEW v \in Wallets PROVE DaysOf(n, v)'
    <3>1. completionBitmap'[n][v] = {} /\ completionCount'[n][v] = 0
      BY <1>6
    <3>2. c.requiredCompletions \in Nat
      BY RequirementIsPositive
    <3> QED BY <1>7, <2>2, <3>1, <3>2 DEF DaysOf
  <2> QED BY <1>6, <2>1, <2>2, <2>3, <2>4 DEF AccountsOf
<1>9. Accounts'
  <2> SUFFICES ASSUME NEW q \in PactIds
               PROVE  /\ AccountsOf(q)'
                      /\ IF q >= nextPactId' THEN Untouched(q)' ELSE terms(q)' \in Configurations
    BY DEF Accounts
  <2>1. CASE q = n
    BY <1>1, <1>2, <1>7, <1>8, <2>1
  <2>2. CASE q # n
    <3>1. accountOf(q)' = accountOf(q)
      BY <1>1, <1>2, <2>2 DEF accountOf, EscrowTypeOK, dayVars
    <3>2. terms(q)' = terms(q) /\ (Untouched(q) => Untouched(q)')
      BY <3>1 DEF accountOf, terms, Untouched
    <3>3. q \in Nat
      BY StravaConstants
    <3>4. q >= nextPactId' <=> q >= nextPactId
      BY <1>0, <1>1, <1>2, <2>2, <3>3
    <3> QED BY <1>1, <3>1, <3>2, <3>4, OtherLocksKeepAccounts DEF Accounts
  <2> QED BY <2>1, <2>2
<1> QED BY <1>5, <1>9 DEF EscrowInv

LEMMA JoinKeepsInv ==
  ASSUME EscrowInv, accesses \subseteq AccessAttestation, NEW w \in Wallets, NEW p \in PactIds,
         joinPact(p, w, accesses)
  PROVE  EscrowInv'
<1>1. EscrowTypeOK /\ Accounts /\ p < nextPactId /\ terms(p) \in Configurations
  BY ExistingLocks DEF EscrowInv, joinPact, joinable
<1>2. /\ pacts' = [pacts EXCEPT ![p].participantCount = @ + 1]
      /\ joined' = [joined EXCEPT ![p] = @ \cup {w}] /\ w \notin joined[p]
      /\ vault' = vault + terms(p).stake /\ ~pacts[p].finalized
      /\ UNCHANGED <<now, pauseVars, switchVars, nextPactId, dayVars, claimed, payout>>
      /\ consumeAccess(w, "join", p, terms(p), accesses)
  BY DEF joinPact, joinable, joinOpen, closed
<1>3. pacts[p] \in Pact /\ joined[p] \in SUBSET Wallets /\ pacts[p].participantCount \in Nat
  BY <1>1 DEF EscrowTypeOK, Pact
<1>4. /\ pacts'[p] = [pacts[p] EXCEPT !.participantCount = @ + 1]
      /\ joined'[p] = joined[p] \cup {w} /\ claimed'[p] = claimed[p]
      /\ completionBitmap'[p] = completionBitmap[p] /\ completionCount'[p] = completionCount[p]
  BY <1>1, <1>2 DEF EscrowTypeOK, dayVars
<1>5. /\ pacts'[p].participantCount = pacts[p].participantCount + 1
      /\ pacts'[p].finisherCount = pacts[p].finisherCount
      /\ pacts'[p].claimsRemaining = pacts[p].claimsRemaining
      /\ pacts'[p].finalized = pacts[p].finalized /\ pacts'[p].terms = pacts[p].terms
  BY <1>3, <1>4 DEF Pact
<1>6. terms(p)' = terms(p)
  BY <1>5 DEF terms
<1>7. EscrowTypeOK'
  <2>1. [pacts[p] EXCEPT !.participantCount = @ + 1] \in Pact
    BY <1>3 DEF Pact
  <2>2. pacts' \in [PactIds -> Pact] /\ joined' \in [PactIds -> SUBSET Wallets]
    BY <1>1, <1>2, <2>1 DEF EscrowTypeOK
  <2>3. vault' \in Int
    BY <1>1, <1>2, TermsAreNumbers DEF EscrowTypeOK
  <2>4. PausesTypeOK' /\ usedAccessNonces' \subseteq AccessNonces
    BY <1>1, <1>2, PausesFrame, NoncesKeepTheirType DEF EscrowTypeOK
  <2> QED BY <1>1, <1>2, <2>2, <2>3, <2>4
          DEF EscrowTypeOK, switchVars, dayVars, identityVars, scoreVars
<1>8. AccountsOf(p)'
  <2>1. Cardinality(joined[p] \cup {w}) = Cardinality(joined[p]) + 1
    BY <1>2, <1>3, WalletSetsFinite, FS_AddElement
  <2>2. completionCount[p][w] = 0
    <3>1. DaysOf(p, w)
      BY <1>1 DEF Accounts, AccountsOf
    <3> QED BY <1>2, <3>1, FS_EmptySet DEF DaysOf
  <2>3. finishersOf(p)' = finishersOf(p)
    BY <1>1, <1>4, <1>6, <2>2, RequirementIsPositive DEF finishersOf, finisher
  <2>4. \A v \in Wallets : DaysOf(p, v)'
    BY <1>1, <1>4, <1>6 DEF Accounts, AccountsOf, DaysOf, Days
  <2> QED BY <1>1, <1>2, <1>4, <1>5, <2>1, <2>3, <2>4 DEF Accounts, AccountsOf
<1>9. \A q \in PactIds : q # p => accountOf(q)' = accountOf(q)
  BY <1>1, <1>2 DEF accountOf, EscrowTypeOK, dayVars
<1>10. Accounts'
  BY <1>1, <1>2, <1>6, <1>8, <1>9, OneLockStep
<1> QED BY <1>7, <1>10 DEF EscrowInv

-----------------------------------------------------------------------------
(* Running: submitCompletion.                                              *)

LEMMA ScoresKeepTheirTypes ==
  ASSUME EscrowTypeOK, NEW w \in Wallets, NEW i \in Identities, NEW t \in Nat,
         recordVerifiedDay(w, i, t)
  PROVE  /\ missionIdentityOwner' \in [Identities -> Wallets \cup {NoAddress}]
         /\ scoredUtcDay' \in [Wallets -> SUBSET Nat]
         /\ missionDayScored' \in [Wallets -> SUBSET Nat]
         /\ verifiedDays' \in [Wallets -> Nat] /\ missionVerifiedDays' \in [Wallets -> Nat]
         /\ lockScore' \in [Wallets -> Nat]
<1>0. /\ missionIdentityOwner \in [Identities -> Wallets \cup {NoAddress}]
      /\ scoredUtcDay \in [Wallets -> SUBSET Nat]
      /\ missionDayScored \in [Wallets -> SUBSET Nat]
      /\ verifiedDays \in [Wallets -> Nat] /\ missionVerifiedDays \in [Wallets -> Nat]
      /\ lockScore \in [Wallets -> Nat] /\ LockScorePerDay \in Nat
  BY StravaConstants DEF EscrowTypeOK
<1>1. PICK day \in Nat : day = utcDay(t)
  BY StravaConstants, DivBounds DEF utcDay
<1>2. CASE missionIdentityOwner[i] \in {NoAddress, w}
  <2>0. /\ missionIdentityOwner' = [missionIdentityOwner EXCEPT ![i] = w]
        /\ scoreMissionDay(w, day) /\ scoreDay(w, day)
    BY <1>1, <1>2 DEF recordVerifiedDay
  <2>1. missionIdentityOwner' \in [Identities -> Wallets \cup {NoAddress}]
    BY <1>0, <2>0
  <2>2. missionDayScored' \in [Wallets -> SUBSET Nat] /\ missionVerifiedDays' \in [Wallets -> Nat]
    BY <1>0, <2>0 DEF scoreMissionDay
  <2>3. /\ scoredUtcDay' \in [Wallets -> SUBSET Nat] /\ verifiedDays' \in [Wallets -> Nat]
        /\ lockScore' \in [Wallets -> Nat]
    BY <1>0, <2>0 DEF scoreDay
  <2> QED BY <2>1, <2>2, <2>3
<1>3. CASE missionIdentityOwner[i] \notin {NoAddress, w}
  BY <1>0, <1>3 DEF recordVerifiedDay, scoreVars
<1> QED BY <1>2, <1>3

(* A completion makes its wallet a finisher exactly when the count gets to *)
(* the requirement, and no other wallet.                                   *)
LEMMA CountedCompletion ==
  ASSUME EscrowTypeOK, Accounts, NEW p \in PactIds, NEW w \in joined[p],
         completionCount[p][w] < terms(p).requiredCompletions, terms(p) \in Configurations,
         joined' = joined, countCompletion(p, w)
  PROVE  /\ pacts' \in [PactIds -> Pact] /\ terms(p)' = terms(p)
         /\ pacts'[p].participantCount = pacts[p].participantCount
         /\ pacts'[p].claimsRemaining = pacts[p].claimsRemaining
         /\ pacts'[p].finalized = pacts[p].finalized
         /\ pacts'[p].finisherCount = Cardinality(finishersOf(p)')
<1>1. /\ w \in Wallets /\ pacts[p] \in Pact /\ pacts[p].finisherCount \in Nat
      /\ completionCount[p][w] \in Nat /\ finishersOf(p) \in SUBSET Wallets
      /\ terms(p).requiredCompletions \in Nat
  BY RequirementIsPositive DEF EscrowTypeOK, Pact, finishersOf
<1>2. /\ completionCount'[p][w] = completionCount[p][w] + 1
      /\ \A v \in Wallets : v # w => completionCount'[p][v] = completionCount[p][v]
  BY <1>1 DEF countCompletion, EscrowTypeOK
<1>3. w \notin finishersOf(p)
  BY <1>1 DEF finishersOf, finisher
<1>4. pacts[p].finisherCount = Cardinality(finishersOf(p))
  BY DEF Accounts, AccountsOf
<1>5. CASE completionCount[p][w] + 1 = terms(p).requiredCompletions
  <2>1. pacts' = [pacts EXCEPT ![p].finisherCount = @ + 1]
    BY <1>5 DEF countCompletion
  <2>2. pacts'[p] = [pacts[p] EXCEPT !.finisherCount = @ + 1]
    BY <2>1 DEF EscrowTypeOK
  <2>3. pacts'[p] \in Pact
    BY <1>1, <2>2 DEF Pact
  <2>4. /\ pacts'[p].participantCount = pacts[p].participantCount
        /\ pacts'[p].finisherCount = pacts[p].finisherCount + 1
        /\ pacts'[p].claimsRemaining = pacts[p].claimsRemaining
        /\ pacts'[p].finalized = pacts[p].finalized /\ pacts'[p].terms = pacts[p].terms
    BY <1>1, <2>2 DEF Pact
  <2>5. terms(p)' = terms(p)
    BY <2>4 DEF terms
  <2>6. finishersOf(p)' = finishersOf(p) \cup {w}
    BY <1>1, <1>2, <1>5, <2>5 DEF finishersOf, finisher
  <2>7. Cardinality(finishersOf(p) \cup {w}) = Cardinality(finishersOf(p)) + 1
    BY <1>1, <1>3, WalletSetsFinite, FS_AddElement
  <2>8. pacts' \in [PactIds -> Pact]
    BY <2>1, <2>2, <2>3 DEF EscrowTypeOK
  <2> QED BY <1>4, <2>4, <2>5, <2>6, <2>7, <2>8
<1>6. CASE completionCount[p][w] + 1 # terms(p).requiredCompletions
  <2>1. pacts' = pacts
    BY <1>6 DEF countCompletion
  <2>2. terms(p)' = terms(p)
    BY <2>1 DEF terms
  <2>3. \A v \in Wallets : finisher(p, v)' <=> finisher(p, v)
    BY <1>1, <1>2, <1>6, <2>2 DEF finisher
  <2>4. finishersOf(p)' = finishersOf(p)
    BY <2>3 DEF finishersOf
  <2> QED BY <1>4, <2>1, <2>2, <2>4 DEF EscrowTypeOK
<1> QED BY <1>5, <1>6

LEMMA SubmitKeepsInv ==
  ASSUME EscrowInv, completions \subseteq CompletionAttestation, NEW w \in Wallets,
         NEW p \in PactIds, NEW d, submitCompletion(p, w, d, completions)
  PROVE  EscrowInv'
<1>1. EscrowTypeOK /\ Accounts /\ p < nextPactId /\ terms(p) \in Configurations
  BY ExistingLocks DEF EscrowInv, submitCompletion, completable
<1>2. PICK e \in completions :
        /\ bindIdentity(p, w, e.identityHash)
        /\ lastMetric' = [lastMetric EXCEPT ![p][w] = e.metric]
        /\ usedEventNullifiers' = usedEventNullifiers \cup {e.eventNullifier}
        /\ completionsAccepted' = completionsAccepted \cup
              {[pactId |-> p, account |-> w, dayIndex |-> d, metric |-> e.metric,
                eventNullifier |-> e.eventNullifier, occurredAt |-> e.occurredAt]}
        /\ recordVerifiedDay(w, e.identityHash, e.occurredAt)
  BY DEF submitCompletion
<1>3. /\ e.identityHash \in Identities /\ e.metric \in Nat /\ e.eventNullifier \in Nullifiers
      /\ e.occurredAt \in Nat
  BY <1>2 DEF CompletionAttestation
<1>4. /\ ~pacts[p].finalized /\ w \in joined[p]
      /\ completionCount[p][w] < terms(p).requiredCompletions
      /\ d \in Days(p) /\ d \notin completionBitmap[p][w]
      /\ completionBitmap' = [completionBitmap EXCEPT ![p][w] = @ \cup {d}]
      /\ countCompletion(p, w)
      /\ UNCHANGED <<now, pauseVars, switchVars, nextPactId, joined, usedAccessNonces, paidVars>>
  BY DEF submitCompletion, completable, closed
<1>5. /\ pacts' \in [PactIds -> Pact] /\ terms(p)' = terms(p)
      /\ pacts'[p].participantCount = pacts[p].participantCount
      /\ pacts'[p].claimsRemaining = pacts[p].claimsRemaining
      /\ pacts'[p].finalized = pacts[p].finalized
      /\ pacts'[p].finisherCount = Cardinality(finishersOf(p)')
  BY <1>1, <1>4, CountedCompletion
<1>6. completionCount' = [completionCount EXCEPT ![p][w] = @ + 1]
  BY <1>4 DEF countCompletion
<1>7. terms(p).durationDays \in Nat /\ terms(p).requiredCompletions \in Nat
  BY <1>1, TermsAreNumbers
<1>8. d \in Nat
  BY <1>4, <1>7 DEF Days
<1>9. EscrowTypeOK'
  <2>1. /\ completionBitmap' \in [PactIds -> [Wallets -> SUBSET Nat]]
        /\ completionCount' \in [PactIds -> [Wallets -> Nat]]
    BY <1>1, <1>4, <1>6, <1>8 DEF EscrowTypeOK
  <2>2. lastMetric' \in [PactIds -> [Wallets -> Nat]]
    BY <1>1, <1>2, <1>3 DEF EscrowTypeOK
  <2>3. participantIdentity' \in [PactIds -> [Wallets -> Identities \cup {NoIdentity}]]
    BY <1>1, <1>2, <1>3 DEF EscrowTypeOK, bindIdentity
  <2>4. identityOwner' \in [PactIds -> [Identities -> Wallets \cup {NoAddress}]]
    BY <1>1, <1>2, <1>3 DEF EscrowTypeOK, bindIdentity
  <2>5. usedEventNullifiers' \subseteq Nullifiers /\ completionsAccepted' \subseteq CompletionAccepted
    BY <1>1, <1>2, <1>3, <1>8 DEF EscrowTypeOK, CompletionAccepted
  <2>6. /\ missionIdentityOwner' \in [Identities -> Wallets \cup {NoAddress}]
        /\ scoredUtcDay' \in [Wallets -> SUBSET Nat]
        /\ missionDayScored' \in [Wallets -> SUBSET Nat]
        /\ verifiedDays' \in [Wallets -> Nat] /\ missionVerifiedDays' \in [Wallets -> Nat]
        /\ lockScore' \in [Wallets -> Nat]
    BY <1>1, <1>2, <1>3, ScoresKeepTheirTypes
  <2>7. PausesTypeOK'
    BY <1>1, <1>4, PausesFrame DEF EscrowTypeOK
  <2>8. /\ creationPaused' \in BOOLEAN /\ joiningPaused' \in BOOLEAN
        /\ evidenceSigner' \in EvidenceSigners /\ accessSigner' \in AccessSigners
        /\ nextPactId' \in Nat \ {0} /\ joined' \in [PactIds -> SUBSET Wallets]
        /\ claimed' \in [PactIds -> SUBSET Wallets] /\ usedAccessNonces' \subseteq AccessNonces
        /\ vault' \in Int /\ payout' \in [PactIds -> [Wallets -> Nat]]
    BY <1>1, <1>4 DEF EscrowTypeOK, switchVars, paidVars
  <2> QED BY <1>5, <2>1, <2>2, <2>3, <2>4, <2>5, <2>6, <2>7, <2>8 DEF EscrowTypeOK
<1>10. AccountsOf(p)'
  <2>1. joined'[p] = joined[p] /\ claimed'[p] = {}
    BY <1>1, <1>4 DEF paidVars, Accounts, AccountsOf
  <2>2. Days(p)' = Days(p)
    BY <1>5 DEF Days
  <2>3. DaysOf(p, w)'
    <3>1. DaysOf(p, w)
      BY <1>1 DEF Accounts, AccountsOf
    <3>2. /\ completionBitmap'[p][w] = completionBitmap[p][w] \cup {d}
          /\ completionCount'[p][w] = completionCount[p][w] + 1
      BY <1>1, <1>4, <1>6 DEF EscrowTypeOK
    <3>3. completionBitmap[p][w] \in SUBSET (0 .. terms(p).durationDays - 1)
      BY <3>1 DEF DaysOf, Days
    <3>4. IsFiniteSet(completionBitmap[p][w])
      BY <1>7, <3>3, DaySetsFinite
    <3>5. Cardinality(completionBitmap[p][w] \cup {d}) = Cardinality(completionBitmap[p][w]) + 1
      BY <1>4, <3>4, FS_AddElement
    <3>6. completionCount[p][w] \in Nat
      BY <1>1 DEF EscrowTypeOK
    <3>7. completionCount'[p][w] <= terms(p).requiredCompletions
      BY <1>4, <1>7, <3>2, <3>6
    <3> QED BY <1>4, <1>5, <2>1, <2>2, <3>1, <3>2, <3>5, <3>7 DEF DaysOf
  <2>4. ASSUME NEW v \in Wallets, v # w PROVE DaysOf(p, v)'
    <3>1. DaysOf(p, v)
      BY <1>1 DEF Accounts, AccountsOf
    <3>2. /\ completionBitmap'[p][v] = completionBitmap[p][v]
          /\ completionCount'[p][v] = completionCount[p][v]
      BY <1>1, <1>4, <1>6, <2>4 DEF EscrowTypeOK
    <3> QED BY <1>5, <2>1, <2>2, <3>1, <3>2 DEF DaysOf
  <2> QED BY <1>1, <1>4, <1>5, <2>1, <2>3, <2>4 DEF Accounts, AccountsOf
<1>11. \A q \in PactIds : q # p => accountOf(q)' = accountOf(q)
  <2> SUFFICES ASSUME NEW q \in PactIds, q # p PROVE accountOf(q)' = accountOf(q)
    OBVIOUS
  <2>1. pacts'[q] = pacts[q]
    BY <1>1, <1>4 DEF countCompletion, EscrowTypeOK
  <2>2. /\ completionBitmap'[q] = completionBitmap[q] /\ completionCount'[q] = completionCount[q]
    BY <1>1, <1>4, <1>6 DEF EscrowTypeOK
  <2> QED BY <1>4, <2>1, <2>2 DEF accountOf, paidVars
<1>12. Accounts'
  BY <1>1, <1>4, <1>5, <1>10, <1>11, OneLockStep
<1> QED BY <1>9, <1>12 DEF EscrowInv

-----------------------------------------------------------------------------
(* Settlement: cancelPact, cancelPactByOwner, finalizePact and claim.      *)

LEMMA CancelKeepsInv ==
  ASSUME EscrowInv, NEW p \in PactIds, Exists(p), cancel(p)
  PROVE  EscrowInv'
<1>1. EscrowTypeOK /\ Accounts /\ p < nextPactId
  BY ExistingLocks DEF EscrowInv
<1>2. /\ pacts' = [pacts EXCEPT ![p].cancelled = TRUE] /\ ~pacts[p].finalized
      /\ UNCHANGED <<now, pauseVars, switchVars, nextPactId, joined, usedAccessNonces, dayVars,
                     paidVars>>
  BY DEF cancel
<1>3. pacts[p] \in Pact
  BY <1>1 DEF EscrowTypeOK
<1>4. pacts'[p] = [pacts[p] EXCEPT !.cancelled = TRUE]
  BY <1>1, <1>2 DEF EscrowTypeOK
<1>5. /\ pacts'[p].participantCount = pacts[p].participantCount
      /\ pacts'[p].finisherCount = pacts[p].finisherCount
      /\ pacts'[p].claimsRemaining = pacts[p].claimsRemaining
      /\ pacts'[p].finalized = pacts[p].finalized /\ pacts'[p].terms = pacts[p].terms
  BY <1>3, <1>4 DEF Pact
<1>6. EscrowTypeOK'
  <2>1. pacts'[p] \in Pact
    BY <1>3, <1>4 DEF Pact
  <2>2. pacts' \in [PactIds -> Pact]
    BY <1>1, <1>2, <1>4, <2>1 DEF EscrowTypeOK
  <2>3. PausesTypeOK'
    BY <1>1, <1>2, PausesFrame DEF EscrowTypeOK
  <2> QED BY <1>1, <1>2, <2>2, <2>3
          DEF EscrowTypeOK, switchVars, dayVars, identityVars, scoreVars, paidVars
<1>7. terms(p)' = terms(p)
  BY <1>5 DEF terms
<1>8. AccountsOf(p)'
  <2>1. \A v \in Wallets : finisher(p, v)' <=> finisher(p, v)
    BY <1>2, <1>7 DEF finisher, dayVars
  <2>2. finishersOf(p)' = finishersOf(p)
    BY <2>1 DEF finishersOf
  <2>3. \A v \in Wallets : DaysOf(p, v)'
    BY <1>1, <1>2, <1>7 DEF Accounts, AccountsOf, DaysOf, Days, dayVars
  <2> QED BY <1>1, <1>2, <1>5, <2>2, <2>3 DEF Accounts, AccountsOf, paidVars
<1>9. \A q \in PactIds : q # p => accountOf(q)' = accountOf(q)
  BY <1>1, <1>2 DEF accountOf, EscrowTypeOK, dayVars, paidVars
<1>10. Accounts'
  BY <1>1, <1>2, <1>7, <1>8, <1>9, OneLockStep
<1> QED BY <1>6, <1>10 DEF EscrowInv

(* Settling counts exactly the wallets that may claim, all still unpaid.   *)
LEMMA FinalizeKeepsInv ==
  ASSUME EscrowInv, NEW p \in PactIds, finalizePact(p)
  PROVE  EscrowInv'
<1>1. EscrowTypeOK /\ Accounts /\ p < nextPactId /\ terms(p) \in Configurations
  BY ExistingLocks DEF EscrowInv, finalizePact
<1>2. PICK c \in BOOLEAN :
        pacts' = [pacts EXCEPT
           ![p].cancelled = c, ![p].finalized = TRUE,
           ![p].claimsRemaining = eligibleClaimants(p, c),
           ![p].remainingPool = terms(p).stake * pacts[p].participantCount]
  <2>1. (pacts[p].cancelled \/ refundDue(p)) \in BOOLEAN
    OBVIOUS
  <2> QED BY <2>1 DEF finalizePact
<1>3. /\ ~pacts[p].finalized
      /\ UNCHANGED <<now, pauseVars, switchVars, nextPactId, joined, usedAccessNonces, dayVars,
                     paidVars>>
  BY DEF finalizePact, finalizable
<1>4. /\ pacts[p] \in Pact /\ pacts[p].participantCount \in Nat /\ pacts[p].finisherCount \in Nat
      /\ terms(p).stake \in Nat
  BY <1>1, TermsAreNumbers DEF EscrowTypeOK, Pact
<1>5. /\ terms(p).stake * pacts[p].participantCount \in Nat
      /\ eligibleClaimants(p, c) \in Nat
  BY <1>4, ProductIsNat DEF eligibleClaimants
<1>6. pacts'[p] = [pacts[p] EXCEPT
         !.cancelled = c, !.finalized = TRUE, !.claimsRemaining = eligibleClaimants(p, c),
         !.remainingPool = terms(p).stake * pacts[p].participantCount]
  BY <1>1, <1>2 DEF EscrowTypeOK
<1>7. /\ pacts'[p].participantCount = pacts[p].participantCount
      /\ pacts'[p].finisherCount = pacts[p].finisherCount
      /\ pacts'[p].claimsRemaining = eligibleClaimants(p, c)
      /\ pacts'[p].cancelled = c /\ pacts'[p].finalized = TRUE
      /\ pacts'[p].terms = pacts[p].terms
  BY <1>4, <1>6 DEF Pact
<1>8. terms(p)' = terms(p)
  BY <1>7 DEF terms
<1>9. EscrowTypeOK'
  <2>1. pacts'[p] \in Pact
    BY <1>4, <1>5, <1>6 DEF Pact
  <2>2. pacts' \in [PactIds -> Pact]
    BY <1>1, <1>2, <1>6, <2>1 DEF EscrowTypeOK
  <2>3. PausesTypeOK'
    BY <1>1, <1>3, PausesFrame DEF EscrowTypeOK
  <2> QED BY <1>1, <1>3, <2>2, <2>3
          DEF EscrowTypeOK, switchVars, dayVars, identityVars, scoreVars, paidVars
<1>10. AccountsOf(p)'
  <2>1. /\ joined'[p] = joined[p] /\ claimed'[p] = {}
        /\ AccountsOf(p) /\ joined[p] \in SUBSET Wallets
    BY <1>1, <1>3 DEF Accounts, AccountsOf, EscrowTypeOK, paidVars
  <2>2. \A v : finisher(p, v)' <=> finisher(p, v)
    BY <1>3, <1>8 DEF finisher, dayVars
  <2>3. finishersOf(p)' = finishersOf(p)
    BY <2>2 DEF finishersOf
  <2>4. \A v \in Wallets : DaysOf(p, v)'
    BY <1>3, <1>8, <2>1 DEF AccountsOf, DaysOf, Days, dayVars
  <2>5. CASE c \/ pacts[p].finisherCount = 0
    <3>1. \A w \in Wallets : Eligible(p, w)' <=> w \in joined[p]
      BY <1>7, <2>1, <2>5 DEF Eligible, Refunded
    <3>2. unpaid(p)' = joined[p]
      BY <2>1, <3>1 DEF unpaid, winners
    <3> QED BY <1>7, <2>1, <2>3, <2>4, <2>5, <3>2 DEF AccountsOf, eligibleClaimants
  <2>6. CASE ~(c \/ pacts[p].finisherCount = 0)
    <3>1. \A w \in Wallets : Eligible(p, w)' <=> finisher(p, w)
      BY <1>7, <2>1, <2>2, <2>6 DEF Eligible, Refunded, finisher
    <3>2. unpaid(p)' = finishersOf(p)
      BY <2>1, <3>1 DEF unpaid, winners, finishersOf
    <3> QED BY <1>7, <2>1, <2>3, <2>4, <2>6, <3>2 DEF AccountsOf, eligibleClaimants
  <2> QED BY <2>5, <2>6
<1>11. \A q \in PactIds : q # p => accountOf(q)' = accountOf(q)
  BY <1>1, <1>2, <1>3 DEF accountOf, EscrowTypeOK, dayVars, paidVars
<1>12. Accounts'
  BY <1>1, <1>3, <1>8, <1>10, <1>11, OneLockStep
<1> QED BY <1>9, <1>12 DEF EscrowInv

(* A claimant is one of the unpaid, so the divisor is never zero, and the  *)
(* claim leaves one fewer.                                                 *)
LEMMA ClaimKeepsInv ==
  ASSUME EscrowInv, NEW p \in PactIds, NEW w \in Wallets, claim(p, w)
  PROVE  EscrowInv'
<1>1. EscrowTypeOK /\ Accounts /\ p < nextPactId
  BY ExistingLocks DEF EscrowInv, claim, claimable
<1>2. /\ pacts' = [pacts EXCEPT ![p].remainingPool = @ - share(p), ![p].claimsRemaining = @ - 1]
      /\ claimed' = [claimed EXCEPT ![p] = @ \cup {w}]
      /\ vault' = vault - share(p)
      /\ payout' = [payout EXCEPT ![p][w] = @ + share(p)]
      /\ pacts[p].finalized /\ w \notin claimed[p] /\ Eligible(p, w)
      /\ UNCHANGED <<now, pauseVars, switchVars, nextPactId, joined, usedAccessNonces, dayVars>>
  BY DEF claim, claimable
<1>3. /\ pacts[p] \in Pact /\ pacts[p].remainingPool \in Nat /\ pacts[p].claimsRemaining \in Nat
  BY <1>1 DEF EscrowTypeOK, Pact
<1>4. /\ pacts[p].claimsRemaining = Cardinality(unpaid(p))
      /\ w \in unpaid(p) /\ unpaid(p) \in SUBSET Wallets
  BY <1>1, <1>2 DEF Accounts, AccountsOf, unpaid, winners
<1>5. pacts[p].claimsRemaining >= 1
  <2>1. Cardinality(unpaid(p)) # 0
    BY <1>4, WalletSetsFinite, FS_EmptySet
  <2> QED BY <1>3, <1>4, <2>1
<1>6. share(p) \in Nat /\ share(p) <= pacts[p].remainingPool
  BY <1>3, <1>5, DivBounds DEF share
<1>7. pacts'[p] = [pacts[p] EXCEPT !.remainingPool = @ - share(p), !.claimsRemaining = @ - 1]
  BY <1>1, <1>2 DEF EscrowTypeOK
<1>8. /\ pacts'[p].participantCount = pacts[p].participantCount
      /\ pacts'[p].finisherCount = pacts[p].finisherCount
      /\ pacts'[p].claimsRemaining = pacts[p].claimsRemaining - 1
      /\ pacts'[p].cancelled = pacts[p].cancelled /\ pacts'[p].finalized = pacts[p].finalized
      /\ pacts'[p].terms = pacts[p].terms
  BY <1>3, <1>7 DEF Pact
<1>9. terms(p)' = terms(p)
  BY <1>8 DEF terms
<1>10. EscrowTypeOK'
  <2>1. pacts'[p] \in Pact
    <3>1. /\ pacts[p].remainingPool - share(p) \in Nat
          /\ pacts[p].claimsRemaining - 1 \in Nat
      BY <1>3, <1>5, <1>6
    <3> QED BY <1>3, <1>7, <3>1 DEF Pact
  <2>2. pacts' \in [PactIds -> Pact]
    BY <1>1, <1>2, <1>7, <2>1 DEF EscrowTypeOK
  <2>3. payout' \in [PactIds -> [Wallets -> Nat]]
    <3>1. payout[p][w] + share(p) \in Nat
      BY <1>1, <1>6 DEF EscrowTypeOK
    <3> QED BY <1>1, <1>2, <3>1 DEF EscrowTypeOK
  <2>4. claimed' \in [PactIds -> SUBSET Wallets] /\ vault' \in Int
    BY <1>1, <1>2, <1>6 DEF EscrowTypeOK
  <2>5. PausesTypeOK'
    BY <1>1, <1>2, PausesFrame DEF EscrowTypeOK
  <2> QED BY <1>1, <1>2, <2>2, <2>3, <2>4, <2>5
          DEF EscrowTypeOK, switchVars, dayVars, identityVars, scoreVars
<1>11. AccountsOf(p)'
  <2>1. joined'[p] = joined[p] /\ claimed'[p] = claimed[p] \cup {w}
    BY <1>1, <1>2 DEF EscrowTypeOK
  <2>2. \A v : finisher(p, v)' <=> finisher(p, v)
    BY <1>2, <1>9 DEF finisher, dayVars
  <2>3. finishersOf(p)' = finishersOf(p)
    BY <2>2 DEF finishersOf
  <2>4. \A v \in Wallets : Eligible(p, v)' <=> Eligible(p, v)
    BY <1>8, <2>1, <2>2 DEF Eligible, Refunded
  <2>5. unpaid(p)' = unpaid(p) \ {w}
    BY <2>1, <2>4 DEF unpaid, winners
  <2>6. Cardinality(unpaid(p) \ {w}) = Cardinality(unpaid(p)) - 1
    BY <1>4, WalletSetsFinite, FS_RemoveElement
  <2>7. \A v \in Wallets : DaysOf(p, v)'
    BY <1>1, <1>2, <1>9, <2>1 DEF Accounts, AccountsOf, DaysOf, Days, dayVars
  <2> QED BY <1>1, <1>2, <1>4, <1>8, <2>1, <2>3, <2>5, <2>6, <2>7 DEF Accounts, AccountsOf
<1>12. \A q \in PactIds : q # p => accountOf(q)' = accountOf(q)
  BY <1>1, <1>2 DEF accountOf, EscrowTypeOK, dayVars
<1>13. Accounts'
  BY <1>1, <1>2, <1>9, <1>11, <1>12, OneLockStep
<1> QED BY <1>10, <1>13 DEF EscrowInv

-----------------------------------------------------------------------------
(* Everything else leaves the Locks alone.                                 *)

LEMMA HighFiveKeepsInv ==
  ASSUME EscrowInv, NEW p, NEW w, NEW to, NEW d, highFive(p, w, to, d)
  PROVE  EscrowInv'
<1>1. UNCHANGED <<now, pauseVars, switchVars, lockVars, dayVars, paidVars>>
  BY DEF highFive
<1>2. EscrowTypeOK'
  BY <1>1, PausesFrame DEF EscrowInv, EscrowTypeOK, switchVars, lockVars, dayVars, identityVars,
     scoreVars, paidVars
<1>3. Accounts'
  <2>1. \A q \in PactIds : accountOf(q)' = accountOf(q)
    BY <1>1 DEF accountOf, lockVars, dayVars, paidVars
  <2>2. nextPactId' = nextPactId
    BY <1>1 DEF lockVars
  <2> QED BY <2>1, <2>2, AccountsFrame DEF EscrowInv
<1> QED BY <1>2, <1>3 DEF EscrowInv

LEMMA SettingsKeepInv ==
  ASSUME EscrowInv, LedgerOK,
         \/ \E k \in EvidenceSigners : setEvidenceSigner(k)
         \/ \E k \in AccessSigners : setAccessSigner(k)
         \/ \E paused \in BOOLEAN :
               setCreationPaused(paused) \/ setJoiningPaused(paused) \/ PauseCompletion(paused)
         \/ NextBlock
         \/ UNCHANGED escrowVars
  PROVE  EscrowInv' /\ LedgerOK'
<1>1. UNCHANGED <<lockVars, dayVars, paidVars>>
  BY DEF setEvidenceSigner, setAccessSigner, setCreationPaused, setJoiningPaused,
         PauseCompletion, NextBlock, escrowVars, otherThanSwitches
<1>2. /\ creationPaused' \in BOOLEAN /\ joiningPaused' \in BOOLEAN
      /\ evidenceSigner' \in EvidenceSigners /\ accessSigner' \in AccessSigners
  BY DEF EscrowInv, EscrowTypeOK, setEvidenceSigner, setAccessSigner, setCreationPaused,
         setJoiningPaused, PauseCompletion, NextBlock, escrowVars, switchVars
<1>3. LedgerOK'
  <2>1. CASE \E paused \in BOOLEAN : PauseCompletion(paused)
    BY <2>1, LedgerSwitch DEF PauseCompletion
  <2>2. CASE NextBlock
    BY <2>2, LedgerTick DEF NextBlock
  <2>3. CASE UNCHANGED <<now, pauseVars>>
    BY <2>3, LedgerStutter
  <2> QED BY <2>1, <2>2, <2>3 DEF setEvidenceSigner, setAccessSigner, setCreationPaused,
             setJoiningPaused, escrowVars, otherThanSwitches
<1>4. EscrowTypeOK'
  BY <1>1, <1>2, <1>3 DEF EscrowInv, EscrowTypeOK, LedgerOK, lockVars, dayVars, identityVars,
     scoreVars, paidVars
<1>5. Accounts'
  <2>1. \A q \in PactIds : accountOf(q)' = accountOf(q)
    BY <1>1 DEF accountOf, lockVars, dayVars, paidVars
  <2>2. nextPactId' = nextPactId
    BY <1>1 DEF lockVars
  <2> QED BY <2>1, <2>2, AccountsFrame DEF EscrowInv
<1> QED BY <1>3, <1>4, <1>5 DEF EscrowInv

(* A player's or a settler's step leaves the pause ledger and the clock.   *)
LEMMA LockStepsKeepLedger ==
  ASSUME LedgerOK,
         \/ PlayerNext(accesses, completions)
         \/ \E p \in PactIds : finalizePact(p) \/ cancelPactByOwner(p)
  PROVE  LedgerOK'
<1>1. CASE PlayerNext(accesses, completions)
  <2>1. PICK w \in Wallets :
          \/ \E c \in Configurations : createPact(w, c, accesses)
          \/ \E p \in PactIds :
                \/ joinPact(p, w, accesses)
                \/ \E d \in Days(p) : submitCompletion(p, w, d, completions)
                \/ \E to \in Wallets, d \in Days(p) : highFive(p, w, to, d)
                \/ cancelPact(p, w)
                \/ claim(p, w)
    BY <1>1 DEF PlayerNext
  <2>2. CASE \E c \in Configurations : createPact(w, c, accesses)
    BY <2>2, LedgerStutter DEF createPact
  <2>3. ASSUME NEW p \in PactIds, NEW d, submitCompletion(p, w, d, completions) PROVE LedgerOK'
    BY <2>3, LedgerStutter DEF submitCompletion
  <2>4. ASSUME NEW p \in PactIds, NEW to, NEW d, highFive(p, w, to, d) PROVE LedgerOK'
    BY <2>4, LedgerStutter DEF highFive
  <2>5. ASSUME NEW p \in PactIds, joinPact(p, w, accesses) \/ cancelPact(p, w) \/ claim(p, w)
        PROVE  LedgerOK'
    BY <2>5, LedgerStutter DEF joinPact, cancelPact, cancel, claim
  <2> QED BY <2>1, <2>2, <2>3, <2>4, <2>5
<1>2. ASSUME NEW p \in PactIds, finalizePact(p) \/ cancelPactByOwner(p) PROVE LedgerOK'
  BY <1>2, LedgerStutter DEF finalizePact, cancelPactByOwner, cancel
<1> QED BY <1>1, <1>2

(* The contract, whatever well-formed attestations it is given.            *)
LEMMA EscrowStepsKeepInv ==
  ASSUME EscrowInv, LedgerOK, accesses \subseteq AccessAttestation,
         completions \subseteq CompletionAttestation,
         EscrowNext(accesses, completions) \/ UNCHANGED escrowVars
  PROVE  EscrowInv' /\ LedgerOK'
<1>1. CASE PlayerNext(accesses, completions)
  <2>1. PICK w \in Wallets :
          \/ \E c \in Configurations : createPact(w, c, accesses)
          \/ \E p \in PactIds :
                \/ joinPact(p, w, accesses)
                \/ \E d \in Days(p) : submitCompletion(p, w, d, completions)
                \/ \E to \in Wallets, d \in Days(p) : highFive(p, w, to, d)
                \/ cancelPact(p, w)
                \/ claim(p, w)
    BY <1>1 DEF PlayerNext
  <2>2. ASSUME NEW c \in Configurations, createPact(w, c, accesses) PROVE EscrowInv'
    BY <2>2, CreateKeepsInv
  <2>3. ASSUME NEW p \in PactIds, joinPact(p, w, accesses) PROVE EscrowInv'
    BY <2>3, JoinKeepsInv
  <2>4. ASSUME NEW p \in PactIds, NEW d, submitCompletion(p, w, d, completions) PROVE EscrowInv'
    BY <2>4, SubmitKeepsInv
  <2>5. ASSUME NEW p \in PactIds, NEW to, NEW d, highFive(p, w, to, d) PROVE EscrowInv'
    BY <2>5, HighFiveKeepsInv
  <2>6. ASSUME NEW p \in PactIds, cancelPact(p, w) PROVE EscrowInv'
    BY <2>6, CancelKeepsInv DEF cancelPact, cancellable
  <2>7. ASSUME NEW p \in PactIds, claim(p, w) PROVE EscrowInv'
    BY <2>7, ClaimKeepsInv
  <2>8. LedgerOK'
    BY <1>1, LockStepsKeepLedger
  <2> QED BY <2>1, <2>2, <2>3, <2>4, <2>5, <2>6, <2>7, <2>8
<1>2. ASSUME NEW p \in PactIds, finalizePact(p) PROVE EscrowInv' /\ LedgerOK'
  BY <1>2, FinalizeKeepsInv, LockStepsKeepLedger
<1>3. ASSUME NEW p \in PactIds, cancelPactByOwner(p) PROVE EscrowInv' /\ LedgerOK'
  BY <1>3, CancelKeepsInv, LockStepsKeepLedger DEF cancelPactByOwner
<1>4. CASE \/ \E k \in EvidenceSigners : setEvidenceSigner(k)
           \/ \E k \in AccessSigners : setAccessSigner(k)
           \/ \E paused \in BOOLEAN :
                 setCreationPaused(paused) \/ setJoiningPaused(paused) \/ PauseCompletion(paused)
           \/ NextBlock
           \/ UNCHANGED escrowVars
  BY <1>4, SettingsKeepInv
<1> QED BY <1>1, <1>2, <1>3, <1>4 DEF EscrowNext, OwnerNext

-----------------------------------------------------------------------------
(* The routes: what they sign has the types the contract counts on.        *)

LEMMA TimesAreNumbers ==
  ASSUME EscrowTypeOK
  PROVE  now \in Nat /\ now + AccessTtl \in Nat /\ now + CompletionTtl \in Nat
BY PauseBounds, StravaLockConstants DEF EscrowTypeOK, PausesTypeOK

LEMMA SigningKeepsAccesses ==
  ASSUME EscrowTypeOK, BackendTypes, accesses \subseteq AccessAttestation, NEW w \in Wallets,
         NEW action \in {"create", "join"}, NEW p \in PactIds \cup {0}, NEW c \in Configurations,
         signAccess(w, action, p, c)
  PROVE  /\ accesses' \subseteq AccessAttestation
         /\ accessesSigned' \in Nat /\ accessesSigned' <= MaxAccesses
<1>1. /\ accessesSigned \in Nat /\ accessesSigned < MaxAccesses /\ MaxAccesses \in Nat
      /\ accessesSigned' = accessesSigned + 1
  BY StravaLockConstants DEF signAccess, BackendTypes
<1>2. nonceFor(p) \in AccessNonces
  BY <1>1, StravaLockConstants DEF nonceFor
<1>3. attestation(w, action, p, c, nonceFor(p)) \in AccessAttestation
  BY <1>2, TimesAreNumbers DEF attestation, AccessAttestation
<1> QED BY <1>1, <1>3 DEF signAccess

(* A run a check-in chooses is an activity of the athlete of its tokens.   *)
LEMMA ChosenRun ==
  ASSUME NEW h, NEW run \in runsOf(h)
  PROVE  LET r == handlers[h]
             from == dayStart(r.pactId, r.dayIndex)
         IN  /\ run \in activitiesOf(r.tokens)
             /\ run.startsAt >= from /\ run.startsAt < from + DayLength
             /\ isRun(run) /\ outdoor(run) /\ plausible(run)
             /\ run.distance >= terms(r.pactId).dailyTarget
<1> DEFINE r == handlers[h]
           from == dayStart(r.pactId, r.dayIndex)
           all == activitiesOf(r.tokens)
           to == from + DayLength
<1>1. PICK page \in pages(all, from, to) :
        run \in selectQualifyingRun(page, from, to, terms(r.pactId).dailyTarget)
  BY DEF runsOf
<1>2. page \subseteq all
  BY <1>1 DEF pages, asked
<1>3. run \in longest(candidates(page, from, to))
  BY <1>1 DEF selectQualifyingRun
<1>4. run \in candidates(page, from, to)
  BY <1>3 DEF longest
<1>5. /\ run \in page /\ run.startsAt >= from /\ run.startsAt < to /\ isRun(run) /\ outdoor(run)
  BY <1>4 DEF candidates, inWindow
<1> QED BY <1>1, <1>2, <1>5 DEF selectQualifyingRun

LEMMA ActivityFacts ==
  ASSUME BackendTypes, NEW athlete, NEW a \in activitiesOf(athlete)
  PROVE  /\ a \in Activity /\ a.athlete = athlete
         /\ a.id \in 1 .. Len(activities) /\ activities[a.id] = a /\ a.id \in Nullifiers
<1>1. a \in Range(activities) /\ a.athlete = athlete
  BY DEF activitiesOf
<1>2. PICK k \in 1 .. Len(activities) : a = activities[k]
  <2>1. DOMAIN activities = 1 .. Len(activities)
    BY DEF BackendTypes
  <2> QED BY <1>1, <2>1 DEF Range
<1>3. a \in Activity /\ a.id = k
  BY <1>2, ElementOfSeq DEF BackendTypes
<1>4. k \in 1 .. MaxActivities
  BY <1>2, StravaLockConstants DEF BackendTypes
<1> QED BY <1>1, <1>2, <1>3, <1>4, StravaLockConstants

(* What a check-in signs: the facts of a run of the athlete whose tokens   *)
(* it read, under the name it read with them.                              *)
LEMMA SignedCompletion ==
  ASSUME EscrowInv, BackendTypes, Connections, NEW h \in Handlers, CheckIn(h),
         NEW e \in completions' \ completions
  PROVE  LET r == handlers[h]
             run == activities[e.eventNullifier]
         IN  /\ e \in CompletionAttestation
             /\ e.pactId = r.pactId /\ e.account = r.wallet /\ e.dayIndex = r.dayIndex
             /\ {e.identityHash, run.athlete} \subseteq authorized[e.account]
             /\ e.eventNullifier \in 1 .. Len(activities)
             /\ e.metric = run.distance /\ e.occurredAt = run.startsAt
             /\ isRun(run) /\ outdoor(run) /\ plausible(run)
             /\ run.distance >= terms(r.pactId).dailyTarget
<1> DEFINE r == handlers[h]
<1>1. r \in ConnectedCheckIn
  BY DEF CheckIn, Connections, LoadedCheckIn, Idle
<1>2. PICK run \in runsOf(h) :
        e = [pactId |-> r.pactId, account |-> r.wallet, dayIndex |-> r.dayIndex,
             identityHash |-> r.athlete, eventNullifier |-> run.id,
             metric |-> run.distance, occurredAt |-> run.startsAt,
             issuedAt |-> now, expiresAt |-> now + CompletionTtl, signer |-> EvidenceKey]
  BY DEF CheckIn
<1>3. /\ run \in activitiesOf(r.tokens)
      /\ isRun(run) /\ outdoor(run) /\ plausible(run)
      /\ run.distance >= terms(r.pactId).dailyTarget
  BY ChosenRun
<1>4. /\ run \in Activity /\ run.id \in 1 .. Len(activities) /\ activities[run.id] = run
      /\ run.id \in Nullifiers
  BY <1>3, ActivityFacts
<1>5. e \in CompletionAttestation
  <2>1. run.distance \in Nat /\ run.startsAt \in Nat
    BY <1>4 DEF Activity
  <2>2. /\ r.pactId \in PactIds /\ r.wallet \in Wallets /\ r.dayIndex \in Nat
        /\ r.athlete \in Identities
    BY <1>1 DEF ConnectedCheckIn
  <2>3. now \in Nat /\ now + CompletionTtl \in Nat
    BY TimesAreNumbers DEF EscrowInv
  <2> QED BY <1>2, <1>4, <2>1, <2>2, <2>3 DEF CompletionAttestation
<1>6. {r.athlete, run.athlete} \subseteq authorized[r.wallet]
  BY <1>1, <1>3, <1>4, ActivityFacts DEF Connections
<1> QED BY <1>2, <1>3, <1>4, <1>5, <1>6

Attestations ==
    accesses \subseteq AccessAttestation /\ completions \subseteq CompletionAttestation

LockInv == EscrowInv /\ LedgerOK /\ BackendTypes /\ Connections /\ Attestations

LEMMA LockInitHasInv == LockInit => LockInv
<1> SUFFICES ASSUME LockInit PROVE LockInv
  OBVIOUS
<1>1. EscrowInv /\ LedgerOK
  BY InitKeepsInv, LedgerInit DEF LockInit, EscrowInit
<1>2. BackendTypes
  BY StravaLockConstants DEF LockInit, BackendTypes
<1>3. Connections
  BY DEF LockInit, Connections, connected, Idle, ConnectedCheckIn
<1> QED BY <1>1, <1>2, <1>3 DEF LockInv, LockInit, Attestations

(* Rows come and go, tokens rotate late, a request reads them in between.  *)
LEMMA ConnectionsStay ==
  ASSUME EscrowInv, Connections, [LockNext]_lockSystemVars PROVE Connections'
<1>1. CASE UNCHANGED <<connectionVars, handlers>>
  BY <1>1 DEF Connections, connectionVars, connected
<1>2. ASSUME NEW w \in Wallets, NEW i \in Identities, Connect(w, i) PROVE Connections'
  BY <1>2 DEF Connect, Connections, connected, Row, NoRow
<1>3. ASSUME NEW w \in Wallets, NEW i \in Identities, RotateTokens(w, i) PROVE Connections'
  BY <1>3 DEF RotateTokens, Connections, connected, Row, NoRow
<1>4. ASSUME NEW w \in Wallets, Disconnect(w) PROVE Connections'
  BY <1>4 DEF Disconnect, Connections, connected
<1>5. ASSUME NEW h \in Handlers, NEW w \in Wallets, NEW p \in PactIds, NEW d \in Days(p),
             LoadPolicy(h, w, p, d)
      PROVE  Connections'
  <2>1. d \in Nat
    <3>1. terms(p) \in Configurations \cup {ZeroTerms}
      BY DEF EscrowInv, EscrowTypeOK, Pact, terms
    <3>2. terms(p).durationDays \in Nat
      BY <3>1, TermsAreNumbers
    <3> QED BY <3>2 DEF Days
  <2> QED BY <1>5, <2>1
          DEF LoadPolicy, Connections, connected, connectionVars, LoadedCheckIn, ConnectedCheckIn
<1>6. ASSUME NEW h \in Handlers, ReadConnection(h) PROVE Connections'
  <2>1. handlers[h] \in LoadedCheckIn
    BY <1>6 DEF ReadConnection, Connections, Idle, ConnectedCheckIn
  <2> QED BY <1>6, <2>1
          DEF ReadConnection, Connections, connected, connectionVars, LoadedCheckIn,
              ConnectedCheckIn
<1>7. ASSUME NEW h \in Handlers, CheckIn(h) \/ EndRequest(h) PROVE Connections'
  BY <1>7 DEF CheckIn, EndRequest, Connections, connected, connectionVars, Idle, ConnectedCheckIn
<1>8. CASE Strava
  BY <1>1, <1>2, <1>3, <1>8 DEF Strava, RecordActivity
<1>9. CASE Backend
  BY <1>1, <1>4, <1>5, <1>6, <1>7, <1>9 DEF Backend, AdmitCreate, AdmitJoin, signAccess
<1>10. CASE Contract \/ UNCHANGED lockSystemVars
  BY <1>1, <1>10 DEF Contract, lockSystemVars, backendVars
<1> QED BY <1>8, <1>9, <1>10 DEF LockNext

LEMMA ContractKeepsInv ==
  ASSUME LockInv, Contract PROVE LockInv'
<1>1. EscrowInv' /\ LedgerOK'
  BY EscrowStepsKeepInv DEF LockInv, Contract, Attestations
<1>2. Attestations'
  BY DEF LockInv, Contract, Attestations, live
<1>3. BackendTypes'
  BY DEF LockInv, Contract, BackendTypes
<1> QED BY <1>1, <1>2, <1>3, ConnectionsStay DEF LockInv, LockNext

(* A step outside the contract leaves its part of the invariant.           *)
LEMMA EscrowFrame ==
  ASSUME LockInv, UNCHANGED escrowVars PROVE EscrowInv' /\ LedgerOK'
BY EscrowStepsKeepInv DEF LockInv, Attestations

LEMMA StravaKeepsInv ==
  ASSUME LockInv, Strava PROVE LockInv'
<1>1. PICK i \in Identities :
        \/ \E kind \in ActivityKinds, t \in now - UploadDelay .. now :
              t >= 0 /\ RecordActivity(i, kind, t)
        \/ \E w \in Wallets : Connect(w, i) \/ RotateTokens(w, i)
  BY DEF Strava
<1>c. Connections'
  BY ConnectionsStay DEF LockInv, LockNext
<1>2. ASSUME NEW kind \in ActivityKinds, NEW t \in now - UploadDelay .. now, t >= 0,
             RecordActivity(i, kind, t)
      PROVE  LockInv'
  <2>1. t \in Nat
    <3>1. now \in Nat /\ UploadDelay \in Nat
      BY TimesAreNumbers, StravaLockConstants DEF LockInv, EscrowInv
    <3> QED BY <1>2, <3>1
  <2> DEFINE n == Len(activities)
             a == [id |-> n + 1, athlete |-> i, startsAt |-> t,
                   sport |-> kind.sport, manual |-> kind.manual, trainer |-> kind.trainer,
                   flagged |-> kind.flagged, gps |-> kind.gps, distance |-> kind.distance,
                   movingTime |-> kind.movingTime, elapsedTime |-> kind.elapsedTime]
  <2>2. n \in Nat /\ n < MaxActivities /\ activities \in Seq(Activity) /\ MaxActivities \in Nat
    BY <1>2, StravaLockConstants DEF LockInv, BackendTypes, RecordActivity
  <2>3. kind \in ActivityKind
    BY StravaLockConstants
  <2>4. a \in Activity
    BY <2>1, <2>2, <2>3 DEF Activity, ActivityKind
  <2>5. activities' = Append(activities, a)
    BY <1>2 DEF RecordActivity
  <2> HIDE DEF a
  <2>6. /\ activities' \in Seq(Activity) /\ Len(activities') = n + 1
        /\ \A k \in 1 .. n : activities'[k] = activities[k]
        /\ activities'[n + 1] = a
    BY <2>2, <2>4, <2>5, AppendProperties
  <2>7. ASSUME NEW k \in 1 .. n + 1 PROVE activities'[k].id = k
    BY <2>2, <2>6 DEF LockInv, BackendTypes, a
  <2>8. BackendTypes' /\ Attestations'
    BY <1>2, <2>2, <2>6, <2>7
       DEF LockInv, BackendTypes, RecordActivity, Attestations, signedVars
  <2> QED BY <1>2, <1>c, <2>8, EscrowFrame DEF LockInv, RecordActivity
<1>3. ASSUME NEW w \in Wallets, Connect(w, i) \/ RotateTokens(w, i) PROVE LockInv'
  <2>1. BackendTypes' /\ Attestations'
    BY <1>3 DEF LockInv, BackendTypes, Connect, RotateTokens, Attestations, signedVars
  <2> QED BY <1>3, <1>c, <2>1, EscrowFrame DEF LockInv, Connect, RotateTokens
<1> QED BY <1>1, <1>2, <1>3

LEMMA BackendKeepsInv ==
  ASSUME LockInv, Backend PROVE LockInv'
<1>0. /\ EscrowInv /\ EscrowTypeOK /\ Accounts /\ BackendTypes
      /\ accesses \subseteq AccessAttestation /\ completions \subseteq CompletionAttestation
  BY DEF LockInv, EscrowInv, Attestations
<1>c. Connections'
  BY ConnectionsStay DEF LockInv, LockNext
<1>1. ASSUME NEW w \in Wallets, NEW c \in Configurations, AdmitCreate(w, c) PROVE LockInv'
  <2>1. signAccess(w, "create", 0, c)
    BY <1>1 DEF AdmitCreate
  <2>2. /\ accesses' \subseteq AccessAttestation
        /\ accessesSigned' \in Nat /\ accessesSigned' <= MaxAccesses
    BY <1>0, <2>1, SigningKeepsAccesses
  <2> QED BY <1>c, <1>0, <2>1, <2>2, EscrowFrame DEF LockInv, BackendTypes, signAccess, Attestations
<1>2. ASSUME NEW w \in Wallets, NEW p \in PactIds, AdmitJoin(w, p) PROVE LockInv'
  <2>1. signAccess(w, "join", p, terms(p)) /\ Exists(p)
    BY <1>2 DEF AdmitJoin, admissible
  <2>2. terms(p) \in Configurations
    BY <1>0, <2>1, ExistingLocks
  <2>3. /\ accesses' \subseteq AccessAttestation
        /\ accessesSigned' \in Nat /\ accessesSigned' <= MaxAccesses
    BY <1>0, <2>1, <2>2, SigningKeepsAccesses
  <2> QED BY <1>c, <1>0, <2>1, <2>3, EscrowFrame DEF LockInv, BackendTypes, signAccess, Attestations
<1>3. ASSUME NEW w \in Wallets, Disconnect(w) PROVE LockInv'
  <2>1. BackendTypes' /\ Attestations'
    BY <1>3 DEF LockInv, BackendTypes, Disconnect, Attestations, signedVars
  <2> QED BY <1>c, <1>3, <2>1, EscrowFrame DEF LockInv, Disconnect
<1>4. ASSUME NEW h \in Handlers, NEW w \in Wallets, NEW p \in PactIds, NEW d \in Days(p),
             LoadPolicy(h, w, p, d)
      PROVE  LockInv'
  <2>1. BackendTypes' /\ Attestations'
    BY <1>0, <1>4 DEF BackendTypes, LoadPolicy, Attestations, signedVars
  <2> QED BY <1>c, <1>4, <2>1, EscrowFrame DEF LockInv, LoadPolicy
<1>5. ASSUME NEW h \in Handlers, CheckIn(h) PROVE LockInv'
  <2>1. completions' \subseteq CompletionAttestation
    BY <1>0, <1>5, SignedCompletion DEF LockInv
  <2>2. BackendTypes' /\ Attestations'
    BY <1>0, <1>5, <2>1 DEF BackendTypes, CheckIn, Attestations
  <2> QED BY <1>c, <1>5, <2>2, EscrowFrame DEF LockInv, CheckIn
<1>6. ASSUME NEW h \in Handlers, ReadConnection(h) \/ EndRequest(h) PROVE LockInv'
  <2>1. BackendTypes' /\ Attestations'
    BY <1>0, <1>6 DEF BackendTypes, ReadConnection, EndRequest, Attestations, signedVars
  <2> QED BY <1>c, <1>6, <2>1, EscrowFrame DEF LockInv, ReadConnection, EndRequest
<1> QED BY <1>1, <1>2, <1>3, <1>4, <1>5, <1>6 DEF Backend

LEMMA LockInvIsInductive ==
  ASSUME LockInv, [LockNext]_lockSystemVars PROVE LockInv'
<1>1. CASE UNCHANGED lockSystemVars
  <2>1. UNCHANGED escrowVars
    BY <1>1 DEF lockSystemVars
  <2>2. BackendTypes' /\ Attestations'
    BY <1>1 DEF LockInv, BackendTypes, Attestations, lockSystemVars, backendVars, signedVars
  <2> QED BY <2>1, <2>2, EscrowFrame, ConnectionsStay DEF LockInv
<1> QED BY <1>1, ContractKeepsInv, BackendKeepsInv, StravaKeepsInv DEF LockNext

LEMMA LockInvIsInvariant == LockSpec => []LockInv
<1>1. LockInv /\ [LockNext]_lockSystemVars => LockInv'
  BY LockInvIsInductive
<1> QED BY <1>1, LockInitHasInv, PTL DEF LockSpec

(* Every variable of LockInEscrow.sol keeps its type, whatever the players *)
(* do with the attestations the routes sign: no pool, counter or payout of *)
(* it ever becomes negative, and nothing is signed that it cannot hold.    *)
THEOREM StravaLockTypeOK == LockSpec => []LockTypeOK
<1>1. LockInv => LockTypeOK
  BY DEF LockInv, EscrowInv, Attestations, LockTypeOK
<1> QED BY <1>1, LockInvIsInvariant, PTL

(* The completion bitmaps and the counters kept beside them never drift,   *)
(* and a settled Lock expects exactly the claims its winners have to make. *)
THEOREM DaysAndCountersAlwaysMatch == LockSpec => []DaysAndCountersMatch
<1>1. LockInv => DaysAndCountersMatch
  BY DEF LockInv, EscrowInv, Accounts, AccountsOf, DaysOf, DaysAndCountersMatch
<1> QED BY <1>1, LockInvIsInvariant, PTL
-----------------------------------------------------------------------------
(* Runs.                                                                   *)


(* The contract accepts attestation e for day d of wallet w in Lock p.     *)
Submission(p, w, d, e) ==
    /\ completable(p, w, d)
    /\ completionOK(p, w, d, e)
    /\ bindIdentity(p, w, e.identityHash)
    /\ usedEventNullifiers' = usedEventNullifiers \cup {e.eventNullifier}
    /\ completionsAccepted' = completionsAccepted \cup
          {[pactId |-> p, account |-> w, dayIndex |-> d, metric |-> e.metric,
            eventNullifier |-> e.eventNullifier, occurredAt |-> e.occurredAt]}
    /\ recordVerifiedDay(w, e.identityHash, e.occurredAt)
    /\ completionBitmap' = [completionBitmap EXCEPT ![p][w] = @ \cup {d}]
    /\ countCompletion(p, w)
    /\ activities' = activities

DaySubmitted ==
    \E w \in Wallets, p \in PactIds, d \in Int, e \in completions :
        d \in Days(p) /\ Submission(p, w, d, e)

(* Only submitCompletion touches what a Lock knows of its days, its runs   *)
(* and its scores.                                                         *)
LEMMA DaysChangeBySubmission ==
  ASSUME [LockNext]_lockSystemVars
  PROVE  DaySubmitted \/ UNCHANGED dayVars
<1>1. CASE UNCHANGED escrowVars
  BY <1>1 DEF escrowVars
<1>2. CASE Backend \/ Strava
  <2>1. UNCHANGED escrowVars
    BY <1>2 DEF Backend, Strava, AdmitCreate, AdmitJoin, signAccess, Disconnect, LoadPolicy,
                ReadConnection, CheckIn, EndRequest, RecordActivity, Connect, RotateTokens
  <2> QED BY <1>1, <2>1
<1>3. CASE Contract /\ PlayerNext(accesses, completions)
  <2>1. PICK w \in Wallets :
          \/ \E c \in Configurations : createPact(w, c, accesses)
          \/ \E p \in PactIds :
                \/ joinPact(p, w, accesses)
                \/ \E d \in Days(p) : submitCompletion(p, w, d, completions)
                \/ \E to \in Wallets, d \in Days(p) : highFive(p, w, to, d)
                \/ cancelPact(p, w)
                \/ claim(p, w)
    BY <1>3 DEF PlayerNext
  <2>2. CASE \E c \in Configurations : createPact(w, c, accesses)
    BY <2>2 DEF createPact
  <2>3. ASSUME NEW p \in PactIds, NEW d \in Days(p), submitCompletion(p, w, d, completions)
        PROVE  DaySubmitted
    <3>1. PICK e \in completions : Submission(p, w, d, e)
      BY <1>3, <2>3 DEF submitCompletion, Submission, Contract
    <3>2. d \in Int
      BY DEF Days
    <3> QED BY <3>1, <3>2 DEF DaySubmitted
  <2>4. ASSUME NEW p \in PactIds, NEW to \in Wallets, NEW d \in Days(p), highFive(p, w, to, d)
        PROVE  UNCHANGED dayVars
    BY <2>4 DEF highFive
  <2>5. ASSUME NEW p \in PactIds, joinPact(p, w, accesses) \/ cancelPact(p, w) \/ claim(p, w)
        PROVE  UNCHANGED dayVars
    BY <2>5 DEF joinPact, cancelPact, cancel, claim
  <2> QED BY <2>1, <2>2, <2>3, <2>4, <2>5
<1>4. CASE \E p \in PactIds : finalizePact(p) \/ cancelPactByOwner(p)
  BY <1>4 DEF finalizePact, cancelPactByOwner, cancel
<1>5. CASE \/ \E k \in EvidenceSigners : setEvidenceSigner(k)
           \/ \E k \in AccessSigners : setAccessSigner(k)
           \/ \E paused \in BOOLEAN :
                 setCreationPaused(paused) \/ setJoiningPaused(paused) \/ PauseCompletion(paused)
           \/ NextBlock
  BY <1>5 DEF setEvidenceSigner, setAccessSigner, setCreationPaused, setJoiningPaused,
              PauseCompletion, NextBlock, otherThanSwitches
<1> QED BY <1>1, <1>2, <1>3, <1>4, <1>5 DEF LockNext, Contract, EscrowNext, OwnerNext,
        lockSystemVars

(* The terms of a Lock that exists are never changed.                      *)
LEMMA TermsNeverChange ==
  ASSUME LockInv, [LockNext]_lockSystemVars, NEW p \in PactIds, p < nextPactId
  PROVE  terms(p)' = terms(p)
<1>0. /\ pacts \in [PactIds -> Pact] /\ pacts[p] \in Pact /\ p < nextPactId /\ p \in Nat
      /\ nextPactId \in Nat
  BY StravaConstants DEF LockInv, EscrowInv, EscrowTypeOK
<1>1. CASE UNCHANGED escrowVars
  BY <1>1 DEF escrowVars, lockVars, terms
<1>2. CASE Backend \/ Strava
  <2>1. UNCHANGED escrowVars
    BY <1>2 DEF Backend, Strava, AdmitCreate, AdmitJoin, signAccess, Disconnect, LoadPolicy,
                ReadConnection, CheckIn, EndRequest, RecordActivity, Connect, RotateTokens
  <2> QED BY <1>1, <2>1
<1>3. ASSUME NEW w \in Wallets, NEW c \in Configurations, createPact(w, c, accesses)
      PROVE  terms(p)' = terms(p)
  BY <1>0, <1>3 DEF createPact, terms
<1>4. ASSUME NEW w \in Wallets, NEW q \in PactIds, joinPact(q, w, accesses)
      PROVE  terms(p)' = terms(p)
  BY <1>0, <1>4 DEF joinPact, terms, Pact
<1>5. ASSUME NEW w \in Wallets, NEW q \in PactIds, NEW d \in Days(q),
             submitCompletion(q, w, d, completions)
      PROVE  terms(p)' = terms(p)
  <2>1. countCompletion(q, w)
    BY <1>5 DEF submitCompletion
  <2> QED BY <1>0, <2>1 DEF countCompletion, terms, Pact
<1>6. ASSUME NEW w \in Wallets, NEW q \in PactIds, NEW to \in Wallets, NEW d \in Days(q),
             highFive(q, w, to, d)
      PROVE  terms(p)' = terms(p)
  BY <1>6 DEF highFive, lockVars, terms
<1>7. ASSUME NEW w \in Wallets, NEW q \in PactIds, cancelPact(q, w)
      PROVE  terms(p)' = terms(p)
  BY <1>0, <1>7 DEF cancelPact, cancel, terms, Pact
<1>8. ASSUME NEW q \in PactIds, cancelPactByOwner(q)
      PROVE  terms(p)' = terms(p)
  BY <1>0, <1>8 DEF cancelPactByOwner, cancel, terms, Pact
<1>9. ASSUME NEW w \in Wallets, NEW q \in PactIds, claim(q, w)
      PROVE  terms(p)' = terms(p)
  BY <1>0, <1>9 DEF claim, terms, Pact
<1>10. ASSUME NEW q \in PactIds, finalizePact(q)
       PROVE  terms(p)' = terms(p)
  <2>1. PICK c, m, n : pacts' = [pacts EXCEPT ![q].cancelled = c, ![q].finalized = TRUE,
                                     ![q].claimsRemaining = m, ![q].remainingPool = n]
    BY <1>10 DEF finalizePact
  <2> QED BY <1>0, <2>1 DEF terms, Pact
<1>11. CASE \/ \E k \in EvidenceSigners : setEvidenceSigner(k)
            \/ \E k \in AccessSigners : setAccessSigner(k)
            \/ \E paused \in BOOLEAN :
                  setCreationPaused(paused) \/ setJoiningPaused(paused) \/ PauseCompletion(paused)
            \/ NextBlock
  <2>1. UNCHANGED lockVars
    BY <1>11 DEF setEvidenceSigner, setAccessSigner, setCreationPaused, setJoiningPaused,
                 PauseCompletion, NextBlock, otherThanSwitches
  <2> QED BY <2>1 DEF lockVars, terms
<1>12. CASE PlayerNext(accesses, completions)
  BY <1>3, <1>4, <1>5, <1>6, <1>7, <1>9, <1>12 DEF PlayerNext
<1> QED BY <1>1, <1>2, <1>8, <1>10, <1>11, <1>12 DEF LockNext, Contract, EscrowNext, OwnerNext,
        lockSystemVars

(* A wallet keeps every athlete that ever authorised it.                   *)
LEMMA AuthorizedGrows ==
  ASSUME LockInv, [LockNext]_lockSystemVars, NEW w \in Wallets
  PROVE  authorized[w] \subseteq authorized'[w]
<1>1. CASE authorized' = authorized
  BY <1>1
<1>2. ASSUME NEW v, NEW i, Connect(v, i) PROVE authorized[w] \subseteq authorized'[w]
  BY <1>2 DEF Connect, LockInv, Connections
<1>3. CASE Strava
  BY <1>1, <1>2, <1>3 DEF Strava, RecordActivity, RotateTokens, connectionVars
<1>4. CASE Backend
  <2>1. authorized' = authorized
    BY <1>4 DEF Backend, AdmitCreate, AdmitJoin, signAccess, Disconnect, LoadPolicy,
                ReadConnection, CheckIn, EndRequest, connectionVars
  <2> QED BY <1>1, <2>1
<1>5. CASE Contract \/ UNCHANGED lockSystemVars
  BY <1>1, <1>5 DEF Contract, lockSystemVars, backendVars, connectionVars
<1> QED BY <1>3, <1>4, <1>5 DEF LockNext

(* An activity, once recorded, stays what it is.                           *)
LEMMA ActivitiesStay ==
  ASSUME LockInv, [LockNext]_lockSystemVars, NEW k \in 1 .. Len(activities)
  PROVE  k \in 1 .. Len(activities') /\ activities'[k] = activities[k]
<1>1. CASE activities' = activities
  BY <1>1
<1>2. ASSUME NEW i, NEW kind, NEW t, RecordActivity(i, kind, t)
      PROVE  k \in 1 .. Len(activities') /\ activities'[k] = activities[k]
  <2>1. activities \in Seq(Activity) /\ Len(activities) \in Nat
    BY DEF LockInv, BackendTypes
  <2>2. PICK a : activities' = Append(activities, a)
    BY <1>2 DEF RecordActivity
  <2>3. activities \in Seq(Activity \cup {a}) /\ a \in Activity \cup {a}
    BY <2>1
  <2>4. /\ Len(activities') = Len(activities) + 1
        /\ \A j \in 1 .. Len(activities) : activities'[j] = activities[j]
    BY <2>2, <2>3, AppendProperties
  <2> QED BY <2>1, <2>4
<1>3. CASE Strava
  BY <1>1, <1>2, <1>3 DEF Strava, Connect, RotateTokens
<1>4. CASE Backend
  <2>1. activities' = activities
    BY <1>4 DEF Backend, AdmitCreate, AdmitJoin, signAccess, Disconnect, LoadPolicy,
                ReadConnection, CheckIn, EndRequest
  <2> QED BY <1>1, <2>1
<1>5. CASE Contract \/ UNCHANGED lockSystemVars
  BY <1>1, <1>5 DEF Contract, lockSystemVars, backendVars
<1> QED BY <1>3, <1>4, <1>5 DEF LockNext

-----------------------------------------------------------------------------
(* One athlete, one player.                                                *)

LEMMA SubmissionTypes ==
  ASSUME LockInv, NEW w \in Wallets, NEW p \in PactIds, NEW d \in Int, NEW e \in completions,
         Submission(p, w, d, e)
  PROVE  /\ e \in CompletionAttestation /\ e.identityHash \in Identities /\ e.metric \in Nat
         /\ e.eventNullifier \in Nullifiers /\ e.occurredAt \in Nat
         /\ Exists(p) /\ w \in joined[p] /\ d \notin completionBitmap[p][w]
         /\ participantIdentity[p][w] \in {NoIdentity, e.identityHash}
         /\ identityOwner[p][e.identityHash] \in {NoAddress, w}
BY DEF LockInv, Attestations, CompletionAttestation, Submission, completable, completionOK,
       identityFree

LEMMA IdentitiesOneToOne ==
  ASSUME LockInv, OneAthleteOnePlayer, [LockNext]_lockSystemVars
  PROVE  OneAthleteOnePlayer'
<1>0. /\ completionBitmap \in [PactIds -> [Wallets -> SUBSET Nat]]
      /\ participantIdentity \in [PactIds -> [Wallets -> Identities \cup {NoIdentity}]]
      /\ identityOwner \in [PactIds -> [Identities -> Wallets \cup {NoAddress}]]
      /\ NoIdentity \notin Identities /\ NoAddress \notin Wallets
  BY StravaConstants DEF LockInv, EscrowInv, EscrowTypeOK
<1>1. CASE UNCHANGED dayVars
  BY <1>1 DEF OneAthleteOnePlayer, dayVars, identityVars
<1>2. CASE DaySubmitted
  <2>1. PICK w \in Wallets, p \in PactIds, d \in Int, e \in completions : Submission(p, w, d, e)
    BY <1>2 DEF DaySubmitted
  <2>2. PICK i \in Identities : i = e.identityHash
    BY <2>1, SubmissionTypes
  <2>3. /\ participantIdentity[p][w] \in {NoIdentity, i} /\ identityOwner[p][i] \in {NoAddress, w}
        /\ participantIdentity' = [participantIdentity EXCEPT ![p][w] = i]
        /\ identityOwner' = [identityOwner EXCEPT ![p][i] = w]
        /\ completionBitmap' = [completionBitmap EXCEPT ![p][w] = @ \cup {d}]
    BY <2>1, <2>2, SubmissionTypes DEF Submission, bindIdentity
  <2>4. \A q \in PactIds \ {p} : /\ participantIdentity'[q] = participantIdentity[q]
                                 /\ identityOwner'[q] = identityOwner[q]
                                 /\ completionBitmap'[q] = completionBitmap[q]
    BY <1>0, <2>3
  <2>5. /\ participantIdentity'[p][w] = i /\ identityOwner'[p][i] = w
        /\ completionBitmap'[p][w] # {}
        /\ \A v \in Wallets \ {w} : /\ participantIdentity'[p][v] = participantIdentity[p][v]
                                    /\ completionBitmap'[p][v] = completionBitmap[p][v]
        /\ \A j \in Identities \ {i} : identityOwner'[p][j] = identityOwner[p][j]
    BY <1>0, <2>3
  <2>6. ASSUME NEW j \in Identities, NEW v \in Wallets
        PROVE  identityOwner'[p][j] = v <=> participantIdentity'[p][v] = j
    <3>1. identityOwner[p][j] = v <=> participantIdentity[p][v] = j
      BY DEF OneAthleteOnePlayer
    <3>2. identityOwner[p][i] = v <=> participantIdentity[p][v] = i
      BY DEF OneAthleteOnePlayer
    <3>3. CASE j = i
      BY <1>0, <2>3, <2>5, <3>2, <3>3
    <3>4. CASE j # i
      BY <1>0, <2>3, <2>5, <3>1, <3>4
    <3> QED BY <3>3, <3>4
  <2>7. ASSUME NEW v \in Wallets
        PROVE  completionBitmap'[p][v] # {} <=> participantIdentity'[p][v] # NoIdentity
    <3>1. CASE v = w
      <4>1. i # NoIdentity
        BY <1>0
      <4> QED BY <2>5, <3>1, <4>1
    <3>2. CASE v # w
      <4>1. /\ participantIdentity'[p][v] = participantIdentity[p][v]
            /\ completionBitmap'[p][v] = completionBitmap[p][v]
        BY <2>5, <3>2
      <4> QED BY <4>1 DEF OneAthleteOnePlayer
    <3> QED BY <3>1, <3>2
  <2>8. ASSUME NEW q \in PactIds, q # p
        PROVE  /\ \A j \in Identities, v \in Wallets :
                     identityOwner'[q][j] = v <=> participantIdentity'[q][v] = j
               /\ \A v \in Wallets :
                     completionBitmap'[q][v] # {} <=> participantIdentity'[q][v] # NoIdentity
    BY <2>4, <2>8 DEF OneAthleteOnePlayer
  <2> QED BY <2>6, <2>7, <2>8 DEF OneAthleteOnePlayer
<1> QED BY <1>1, <1>2, DaysChangeBySubmission

(* Within a Lock an identity, the athlete a row names, plays for one       *)
(* wallet, and a wallet that has completed a day for one identity, for any *)
(* number of either.                                                       *)
THEOREM AthletesStayWithOnePlayer == LockSpec => []OneAthleteOnePlayer
<1>1. ASSUME LockInit PROVE OneAthleteOnePlayer
  <2>1. \A p \in PactIds, w \in Wallets : /\ completionBitmap[p][w] = {}
                                         /\ participantIdentity[p][w] = NoIdentity
    <3>1. completionBitmap = perPlayer({}) /\ participantIdentity = perPlayer(NoIdentity)
      BY <1>1 DEF LockInit, EscrowInit
    <3> QED BY <3>1 DEF perPlayer
  <2>2. \A p \in PactIds, i \in Identities : identityOwner[p][i] = NoAddress
    BY <1>1 DEF LockInit, EscrowInit
  <2> QED BY <2>1, <2>2, StravaConstants DEF OneAthleteOnePlayer
<1>2. LockInv /\ OneAthleteOnePlayer /\ [LockNext]_lockSystemVars => OneAthleteOnePlayer'
  BY IdentitiesOneToOne
<1> QED BY <1>1, <1>2, LockInvIsInvariant, PTL DEF LockSpec

-----------------------------------------------------------------------------
(* A run of its own for every day.                                         *)

RealRun(k) == isRun(activities[k]) /\ outdoor(activities[k]) /\ plausible(activities[k])

(* What was signed for a run, and stays true of it.                        *)
SignedRun(e) ==
    /\ e.eventNullifier \in 1 .. Len(activities) /\ RealRun(e.eventNullifier)
    /\ e.account \in Wallets
    /\ {e.identityHash, activities[e.eventNullifier].athlete} \subseteq authorized[e.account]
    /\ e.metric = activities[e.eventNullifier].distance
    /\ e.occurredAt = activities[e.eventNullifier].startsAt

SignedRuns == \A e \in completions : SignedRun(e)

(* The run behind a completed day; its athlete and the identity the wallet *)
(* plays as have both authorised the wallet.                               *)
RunBehind(p, w, x) ==
    /\ x.eventNullifier \in 1 .. Len(activities) /\ RealRun(x.eventNullifier)
    /\ {activities[x.eventNullifier].athlete, participantIdentity[p][w]} \subseteq authorized[w]
    /\ inDay(p, x.dayIndex, activities[x.eventNullifier].startsAt)
    /\ activities[x.eventNullifier].distance >= terms(p).dailyTarget

(* Completed days and accepted events are one and the same, and every      *)
(* event has used up its activity.                                         *)
AcceptedDays ==
    /\ usedEventNullifiers = {x.eventNullifier : x \in completionsAccepted}
    /\ \A x, y \in completionsAccepted : x.eventNullifier = y.eventNullifier => x = y
    /\ \A x \in completionsAccepted : x.dayIndex \in completionBitmap[x.pactId][x.account]
    /\ \A p \in PactIds, w \in Wallets : \A d \in completionBitmap[p][w] :
          \E x \in accepted(p, w, d) : RunBehind(p, w, x)

LEMMA SignedRunsStayTrue ==
  ASSUME LockInv, [LockNext]_lockSystemVars, NEW e, SignedRun(e)
  PROVE  SignedRun(e)'
<1>1. PICK k \in 1 .. Len(activities) : k = e.eventNullifier
  BY DEF SignedRun
<1>2. k \in 1 .. Len(activities') /\ activities'[k] = activities[k]
  BY ActivitiesStay
<1>3. authorized[e.account] \subseteq authorized'[e.account]
  BY AuthorizedGrows DEF SignedRun
<1> QED BY <1>1, <1>2, <1>3 DEF SignedRun, RealRun

LEMMA OnlyRealRunsAreSigned ==
  ASSUME LockInv, SignedRuns, [LockNext]_lockSystemVars
  PROVE  SignedRuns'
<1>1. CASE completions' \subseteq completions
  BY <1>1, SignedRunsStayTrue DEF SignedRuns
<1>2. ASSUME NEW h \in Handlers, CheckIn(h) PROVE SignedRuns'
  <2> SUFFICES ASSUME NEW e \in completions' PROVE SignedRun(e)'
    BY DEF SignedRuns
  <2>1. CASE e \in completions
    BY <2>1, SignedRunsStayTrue DEF SignedRuns
  <2>2. CASE e \notin completions
    <3>1. SignedRun(e)
      BY <1>2, <2>2, SignedCompletion DEF LockInv, SignedRun, RealRun, CompletionAttestation
    <3> QED BY <3>1, SignedRunsStayTrue
  <2> QED BY <2>1, <2>2
<1>3. CASE Contract \/ Strava \/ UNCHANGED lockSystemVars
  <2>1. completions' \subseteq completions
    BY <1>3 DEF Contract, live, Strava, RecordActivity, Connect, RotateTokens, lockSystemVars,
                backendVars, signedVars
  <2> QED BY <1>1, <2>1
<1>4. CASE Backend
  BY <1>1, <1>2, <1>4 DEF Backend, AdmitCreate, AdmitJoin, signAccess, Disconnect, LoadPolicy,
                          ReadConnection, EndRequest, signedVars
<1> QED BY <1>3, <1>4 DEF LockNext

(* A day that is behind keeps its run: the wallet's identity, the terms    *)
(* and the activity do not change any more.                                *)
LEMMA RunsStayBehind ==
  ASSUME LockInv, OneAthleteOnePlayer, [LockNext]_lockSystemVars,
         NEW p \in PactIds, NEW w \in Wallets, completionBitmap[p][w] # {},
         NEW x \in CompletionAccepted, RunBehind(p, w, x)
  PROVE  RunBehind(p, w, x)'
<1>1. PICK k \in 1 .. Len(activities) : k = x.eventNullifier
  BY DEF RunBehind
<1>2. k \in 1 .. Len(activities') /\ activities'[k] = activities[k]
  BY ActivitiesStay
<1>3. p < nextPactId
  <2>1. w \in joined[p]
    BY DEF LockInv, EscrowInv, Accounts, AccountsOf, DaysOf
  <2>2. ~ (p >= nextPactId)
    BY <2>1 DEF LockInv, EscrowInv, Accounts, Untouched
  <2>3. p \in Nat /\ nextPactId \in Nat
    BY StravaConstants DEF LockInv, EscrowInv, EscrowTypeOK
  <2> QED BY <2>2, <2>3
<1>4. terms(p)' = terms(p)
  BY <1>3, TermsNeverChange
<1>5. participantIdentity'[p][w] = participantIdentity[p][w]
  <2>1. CASE UNCHANGED dayVars
    BY <2>1 DEF dayVars, identityVars
  <2>2. CASE DaySubmitted
    <3>1. PICK v \in Wallets, q \in PactIds, d \in Int, e \in completions : Submission(q, v, d, e)
      BY <2>2 DEF DaySubmitted
    <3>2. /\ participantIdentity' = [participantIdentity EXCEPT ![q][v] = e.identityHash]
          /\ participantIdentity[q][v] \in {NoIdentity, e.identityHash}
      BY <3>1, SubmissionTypes DEF Submission, bindIdentity
    <3>3. participantIdentity \in [PactIds -> [Wallets -> Identities \cup {NoIdentity}]]
      BY DEF LockInv, EscrowInv, EscrowTypeOK
    <3>4. participantIdentity[p][w] # NoIdentity
      BY DEF OneAthleteOnePlayer
    <3> QED BY <3>2, <3>3, <3>4
  <2> QED BY <2>1, <2>2, DaysChangeBySubmission
<1>6. authorized[w] \subseteq authorized'[w]
  BY AuthorizedGrows
<1> QED BY <1>1, <1>2, <1>4, <1>5, <1>6 DEF RunBehind, RealRun, inDay, dayStart, startsAt

(* The run behind the day that is completed now.                           *)
LEMMA SubmittedRun ==
  ASSUME LockInv, SignedRuns, [LockNext]_lockSystemVars,
         NEW w \in Wallets, NEW p \in PactIds, NEW d \in Int, NEW e \in completions,
         Submission(p, w, d, e), NEW x, x.eventNullifier = e.eventNullifier, x.dayIndex = d
  PROVE  RunBehind(p, w, x)'
<1>1. PICK k \in 1 .. Len(activities) : k = e.eventNullifier
  BY DEF SignedRuns, SignedRun
<1>2. activities' = activities
  BY DEF Submission
<1>3. /\ RealRun(k) /\ {e.identityHash, activities[k].athlete} \subseteq authorized[w]
      /\ e.metric = activities[k].distance /\ e.occurredAt = activities[k].startsAt
  BY <1>1 DEF SignedRuns, SignedRun, Submission, completionOK
<1>4. inDay(p, d, e.occurredAt) /\ e.metric >= terms(p).dailyTarget
  BY DEF Submission, completionOK
<1>5. terms(p)' = terms(p)
  BY SubmissionTypes, ExistingLocks, TermsNeverChange DEF LockInv, EscrowInv
<1>6. participantIdentity'[p][w] = e.identityHash
  BY DEF Submission, bindIdentity, LockInv, EscrowInv, EscrowTypeOK
<1>7. inDay(p, d, e.occurredAt)' <=> inDay(p, d, e.occurredAt)
  BY <1>5 DEF inDay, dayStart, startsAt
<1>8. authorized[w] \subseteq authorized'[w]
  BY AuthorizedGrows
<1> QED BY <1>1, <1>2, <1>3, <1>4, <1>5, <1>6, <1>7, <1>8
        DEF RunBehind, RealRun, inDay, dayStart, startsAt

LEMMA DaysStayAccepted ==
  ASSUME LockInv, OneAthleteOnePlayer, SignedRuns, AcceptedDays, [LockNext]_lockSystemVars
  PROVE  AcceptedDays'
<1>0. /\ completionsAccepted \subseteq CompletionAccepted
      /\ completionBitmap \in [PactIds -> [Wallets -> SUBSET Nat]]
  BY DEF LockInv, EscrowInv, EscrowTypeOK
(* A day completed before.                                                 *)
<1>1. ASSUME completionsAccepted \subseteq completionsAccepted',
             NEW p \in PactIds, NEW w \in Wallets, NEW d \in completionBitmap[p][w]
      PROVE  \E x \in accepted(p, w, d)' : RunBehind(p, w, x)'
  <2>1. PICK x \in accepted(p, w, d) : RunBehind(p, w, x)
    BY DEF AcceptedDays
  <2>2. x \in accepted(p, w, d)' /\ x \in CompletionAccepted
    BY <1>0, <1>1, <2>1 DEF accepted
  <2>3. RunBehind(p, w, x)'
    BY <2>1, <2>2, RunsStayBehind
  <2> QED BY <2>2, <2>3
<1>2. CASE UNCHANGED dayVars
  <2>1. /\ completionsAccepted' = completionsAccepted /\ completionBitmap' = completionBitmap
        /\ usedEventNullifiers' = usedEventNullifiers
    BY <1>2 DEF dayVars
  <2>2. \A p \in PactIds, w \in Wallets : \A d \in completionBitmap'[p][w] :
           \E x \in accepted(p, w, d)' : RunBehind(p, w, x)'
    BY <1>1, <2>1
  <2> QED BY <2>1, <2>2 DEF AcceptedDays
<1>3. CASE DaySubmitted
  <2>1. PICK w \in Wallets, p \in PactIds, d \in Int, e \in completions : Submission(p, w, d, e)
    BY <1>3 DEF DaySubmitted
  <2> DEFINE new == [pactId |-> p, account |-> w, dayIndex |-> d, metric |-> e.metric,
                     eventNullifier |-> e.eventNullifier, occurredAt |-> e.occurredAt]
  <2>2. /\ completionsAccepted' = completionsAccepted \cup {new}
        /\ usedEventNullifiers' = usedEventNullifiers \cup {e.eventNullifier}
        /\ completionBitmap' = [completionBitmap EXCEPT ![p][w] = @ \cup {d}]
        /\ e.eventNullifier \notin usedEventNullifiers
    BY <2>1 DEF Submission, completionOK
  <2>3. /\ new.eventNullifier = e.eventNullifier /\ new.dayIndex = d /\ new.pactId = p
        /\ new.account = w
    OBVIOUS
  <2>4. RunBehind(p, w, new)'
    BY <2>1, <2>3, SubmittedRun
  <2> HIDE DEF new
  <2>5. /\ d \in completionBitmap'[p][w]
        /\ \A q \in PactIds, v \in Wallets : completionBitmap[q][v] \subseteq completionBitmap'[q][v]
        /\ \A q \in PactIds, v \in Wallets : \A k \in completionBitmap'[q][v] :
              k \in completionBitmap[q][v] \/ (q = p /\ v = w /\ k = d)
    BY <1>0, <2>2
  <2>6. usedEventNullifiers' = {x.eventNullifier : x \in completionsAccepted'}
    BY <2>2, <2>3 DEF AcceptedDays
  <2>7. \A x, y \in completionsAccepted' : x.eventNullifier = y.eventNullifier => x = y
    BY <2>2, <2>3 DEF AcceptedDays
  <2>8. ASSUME NEW x \in completionsAccepted'
        PROVE  x.dayIndex \in completionBitmap'[x.pactId][x.account]
    <3>1. CASE x = new
      BY <2>3, <2>5, <3>1
    <3>2. CASE x \in completionsAccepted
      <4>1. x.pactId \in PactIds /\ x.account \in Wallets
        BY <1>0, <3>2 DEF CompletionAccepted
      <4> QED BY <2>5, <3>2, <4>1 DEF AcceptedDays
    <3> QED BY <2>2, <2>8, <3>1, <3>2
  <2>9. ASSUME NEW q \in PactIds, NEW v \in Wallets, NEW k \in completionBitmap'[q][v]
        PROVE  \E x \in accepted(q, v, k)' : RunBehind(q, v, x)'
    <3>1. CASE k \in completionBitmap[q][v]
      BY <1>1, <2>2, <3>1
    <3>2. CASE q = p /\ v = w /\ k = d
      <4>1. new \in accepted(p, w, d)'
        BY <2>2, <2>3 DEF accepted
      <4> QED BY <2>4, <3>2, <4>1
    <3> QED BY <2>5, <3>1, <3>2
  <2> QED BY <2>6, <2>7, <2>8, <2>9 DEF AcceptedDays
<1> QED BY <1>2, <1>3, DaysChangeBySubmission

RunInv == LockInv /\ OneAthleteOnePlayer /\ SignedRuns /\ AcceptedDays

LEMMA RunInvIsInvariant == LockSpec => []RunInv
<1>1. ASSUME LockInit PROVE SignedRuns /\ AcceptedDays
  <2>1. completions = {} /\ completionsAccepted = {} /\ usedEventNullifiers = {}
    BY <1>1 DEF LockInit, EscrowInit
  <2>2. \A p \in PactIds, w \in Wallets : completionBitmap[p][w] = {}
    <3>1. completionBitmap = perPlayer({})
      BY <1>1 DEF LockInit, EscrowInit
    <3> QED BY <3>1 DEF perPlayer
  <2> QED BY <2>1, <2>2 DEF SignedRuns, AcceptedDays
<1>2. LockInv /\ SignedRuns /\ OneAthleteOnePlayer /\ AcceptedDays /\ [LockNext]_lockSystemVars
        => SignedRuns' /\ AcceptedDays'
  BY OnlyRealRunsAreSigned, DaysStayAccepted
<1> QED BY <1>1, <1>2, LockInvIsInvariant, AthletesStayWithOnePlayer, PTL DEF LockSpec, RunInv

LEMMA NextDayStarts ==
  ASSUME NEW a \in Nat, NEW d \in Nat, NEW l \in Nat
  PROVE  a + d * l \in Nat /\ a + (d + 1) * l = a + d * l + l
<1>1. d * l \in Nat
  BY ProductIsNat
<1>2. (d + 1) * l = d * l + l
  OBVIOUS
<1> QED BY <1>1, <1>2

(* Every completed day rests on a run of its own, a real run in that day;  *)
(* its athlete and the one the wallet plays as, two perhaps, have both     *)
(* authorised the wallet. For any number of athletes, wallets, Locks and   *)
(* check-ins under way, however rows and tokens move between their steps.  *)
THEOREM EveryDayHasItsRun == LockSpec => []EveryDayIsARunOfItsOwn
<1>1. ASSUME RunInv PROVE EveryDayIsARunOfItsOwn
  <2>1. ASSUME NEW p \in PactIds, NEW w \in Wallets, NEW d \in completionBitmap[p][w]
        PROVE  \E x \in accepted(p, w, d) :
                  /\ {activities[x.eventNullifier].athlete, participantIdentity[p][w]}
                        \subseteq authorized[w]
                  /\ activities[x.eventNullifier].startsAt
                        \in dayStart(p, d) .. dayStart(p, d + 1) - 1
                  /\ RealRun(x.eventNullifier)
                  /\ activities[x.eventNullifier].distance >= terms(p).dailyTarget
    <3>1. PICK x \in accepted(p, w, d) : RunBehind(p, w, x)
      BY <1>1 DEF RunInv, AcceptedDays
    <3>2. PICK k \in 1 .. Len(activities) : k = x.eventNullifier
      BY <3>1 DEF RunBehind
    <3>3. activities[k].startsAt \in Nat
      <4>1. activities \in Seq(Activity)
        BY <1>1 DEF RunInv, LockInv, BackendTypes
      <4>2. activities[k] \in Activity
        BY <4>1, ElementOfSeq
      <4> QED BY <4>2 DEF Activity
    <3>4. startsAt(p) \in Nat /\ DayLength \in Nat /\ d \in Nat
      <4>1. /\ pacts \in [PactIds -> Pact]
            /\ completionBitmap \in [PactIds -> [Wallets -> SUBSET Nat]]
        BY <1>1 DEF RunInv, LockInv, EscrowInv, EscrowTypeOK
      <4>2. terms(p) \in Configurations \cup {ZeroTerms}
        BY <4>1 DEF Pact, terms
      <4> QED BY <4>1, <4>2, TermsAreNumbers, StravaConstants DEF startsAt
    <3>5. dayStart(p, d) \in Nat /\ dayStart(p, d + 1) = dayStart(p, d) + DayLength
      BY <3>4, NextDayStarts DEF dayStart
    <3>6. inDay(p, d, activities[k].startsAt)
      BY <3>1, <3>2 DEF RunBehind, accepted
    <3>7. activities[k].startsAt \in dayStart(p, d) .. dayStart(p, d + 1) - 1
      BY <3>3, <3>4, <3>5, <3>6 DEF inDay
    <3> QED BY <3>1, <3>2, <3>7 DEF RunBehind
  <2>2. \A x, y \in completionsAccepted : x.eventNullifier = y.eventNullifier => x = y
    BY <1>1 DEF RunInv, AcceptedDays
  <2> QED BY <2>1, <2>2 DEF EveryDayIsARunOfItsOwn, RealRun
<1> QED BY <1>1, RunInvIsInvariant, PTL

-----------------------------------------------------------------------------
(* The score: UTC days, once.                                              *)

counts(x, w) ==
    x.account = w /\ missionIdentityOwner[participantIdentity[x.pactId][w]] = w

countedDays(w) == {utcDay(x.occurredAt) : x \in {y \in completionsAccepted : counts(y, w)}}

(* An event that was accepted scores for some wallet, now and for good.    *)
ScoresFor(x) == missionIdentityOwner[participantIdentity[x.pactId][x.account]]

ScoreInv ==
    /\ \A x \in completionsAccepted : ScoresFor(x) \in Wallets
    /\ \A w \in Wallets :
          /\ scoredUtcDay[w] = countedDays(w) /\ IsFiniteSet(scoredUtcDay[w])
          /\ missionDayScored[w] = scoredUtcDay[w]
          /\ verifiedDays[w] = Cardinality(scoredUtcDay[w])
          /\ missionVerifiedDays[w] = verifiedDays[w]
          /\ lockScore[w] = LockScorePerDay * verifiedDays[w]

LEMMA AcceptedEvents ==
  ASSUME RunInv, NEW x \in completionsAccepted
  PROVE  /\ x.pactId \in PactIds /\ x.account \in Wallets /\ x.occurredAt \in Nat
         /\ participantIdentity[x.pactId][x.account] \in Identities
<1>1. x \in CompletionAccepted
  BY DEF RunInv, LockInv, EscrowInv, EscrowTypeOK
<1>2. x.pactId \in PactIds /\ x.account \in Wallets /\ x.occurredAt \in Nat
  BY <1>1 DEF CompletionAccepted
<1>3. completionBitmap[x.pactId][x.account] # {}
  BY DEF RunInv, AcceptedDays
<1>4. participantIdentity[x.pactId][x.account] # NoIdentity
  BY <1>2, <1>3 DEF RunInv, OneAthleteOnePlayer
<1>5. participantIdentity \in [PactIds -> [Wallets -> Identities \cup {NoIdentity}]]
  BY DEF RunInv, LockInv, EscrowInv, EscrowTypeOK
<1> QED BY <1>2, <1>4, <1>5

(* Marking a day that is marked already changes nothing; another one adds  *)
(* a day and ten points.                                                   *)
LEMMA ScoringAddsOneDay ==
  ASSUME EscrowTypeOK, ScoreInv, NEW w \in Wallets, NEW day \in Nat,
         scoreDay(w, day), scoreMissionDay(w, day)
  PROVE  /\ scoredUtcDay' = [scoredUtcDay EXCEPT ![w] = @ \cup {day}]
         /\ \A v \in Wallets :
               /\ IsFiniteSet(scoredUtcDay'[v])
               /\ missionDayScored'[v] = scoredUtcDay'[v]
               /\ verifiedDays'[v] = Cardinality(scoredUtcDay'[v])
               /\ missionVerifiedDays'[v] = verifiedDays'[v]
               /\ lockScore'[v] = LockScorePerDay * verifiedDays'[v]
<1>0. /\ scoredUtcDay \in [Wallets -> SUBSET Nat] /\ missionDayScored \in [Wallets -> SUBSET Nat]
      /\ verifiedDays \in [Wallets -> Nat] /\ missionVerifiedDays \in [Wallets -> Nat]
      /\ lockScore \in [Wallets -> Nat] /\ LockScorePerDay \in Nat
  BY StravaConstants DEF EscrowTypeOK
<1>1. missionDayScored[w] = scoredUtcDay[w]
  BY DEF ScoreInv
<1>2. CASE day \in scoredUtcDay[w]
  <2>1. UNCHANGED <<scoredUtcDay, verifiedDays, lockScore, missionDayScored, missionVerifiedDays>>
    BY <1>1, <1>2 DEF scoreDay, scoreMissionDay
  <2>2. scoredUtcDay = [scoredUtcDay EXCEPT ![w] = @ \cup {day}]
    <3>1. scoredUtcDay[w] \cup {day} = scoredUtcDay[w]
      BY <1>2
    <3> QED BY <1>0, <3>1
  <2> QED BY <2>1, <2>2 DEF ScoreInv
<1>3. CASE day \notin scoredUtcDay[w]
  <2>1. /\ scoredUtcDay' = [scoredUtcDay EXCEPT ![w] = @ \cup {day}]
        /\ verifiedDays' = [verifiedDays EXCEPT ![w] = @ + 1]
        /\ lockScore' = [lockScore EXCEPT ![w] = @ + LockScorePerDay]
        /\ missionDayScored' = [missionDayScored EXCEPT ![w] = @ \cup {day}]
        /\ missionVerifiedDays' = [missionVerifiedDays EXCEPT ![w] = @ + 1]
    BY <1>1, <1>3 DEF scoreDay, scoreMissionDay
  <2>2. ASSUME NEW v \in Wallets, v # w
        PROVE  /\ scoredUtcDay'[v] = scoredUtcDay[v] /\ verifiedDays'[v] = verifiedDays[v]
               /\ lockScore'[v] = lockScore[v] /\ missionDayScored'[v] = missionDayScored[v]
               /\ missionVerifiedDays'[v] = missionVerifiedDays[v]
    BY <1>0, <2>1, <2>2
  <2>3. /\ scoredUtcDay'[w] = scoredUtcDay[w] \cup {day}
        /\ verifiedDays'[w] = verifiedDays[w] + 1
        /\ lockScore'[w] = lockScore[w] + LockScorePerDay
        /\ missionDayScored'[w] = missionDayScored[w] \cup {day}
        /\ missionVerifiedDays'[w] = missionVerifiedDays[w] + 1
    BY <1>0, <2>1
  <2>4. /\ IsFiniteSet(scoredUtcDay[w] \cup {day})
        /\ Cardinality(scoredUtcDay[w] \cup {day}) = Cardinality(scoredUtcDay[w]) + 1
    BY <1>3, FS_AddElement DEF ScoreInv
  <2>5. lockScore[w] + LockScorePerDay = LockScorePerDay * (verifiedDays[w] + 1)
    <3>1. PICK m \in Nat, n \in Nat : m = LockScorePerDay /\ n = verifiedDays[w]
      BY <1>0
    <3>2. m * n + m = m * (n + 1)
      OBVIOUS
    <3> QED BY <3>1, <3>2 DEF ScoreInv
  <2>6. ASSUME NEW v \in Wallets
        PROVE  /\ IsFiniteSet(scoredUtcDay'[v])
               /\ missionDayScored'[v] = scoredUtcDay'[v]
               /\ verifiedDays'[v] = Cardinality(scoredUtcDay'[v])
               /\ missionVerifiedDays'[v] = verifiedDays'[v]
               /\ lockScore'[v] = LockScorePerDay * verifiedDays'[v]
    <3>1. CASE v = w
      BY <1>1, <2>3, <2>4, <2>5, <3>1 DEF ScoreInv
    <3>2. CASE v # w
      BY <2>2, <3>2 DEF ScoreInv
    <3> QED BY <3>1, <3>2
  <2> QED BY <2>1, <2>6
<1> QED BY <1>2, <1>3

(* Who scores for an athlete is settled the first time and stays settled.  *)
LEMMA OwnersStay ==
  ASSUME EscrowTypeOK, NEW w \in Wallets, NEW i \in Identities, NEW t, recordVerifiedDay(w, i, t)
  PROVE  /\ \A j \in Identities :
               missionIdentityOwner[j] \in Wallets
                  => missionIdentityOwner'[j] = missionIdentityOwner[j]
         /\ missionIdentityOwner'[i] \in Wallets
         /\ missionIdentityOwner'[i] = w <=> missionIdentityOwner[i] \in {NoAddress, w}
<1>0. /\ missionIdentityOwner \in [Identities -> Wallets \cup {NoAddress}]
      /\ NoAddress \notin Wallets
  BY StravaConstants DEF EscrowTypeOK
<1>1. CASE missionIdentityOwner[i] \in {NoAddress, w}
  <2>1. missionIdentityOwner' = [missionIdentityOwner EXCEPT ![i] = w]
    BY <1>1 DEF recordVerifiedDay
  <2> QED BY <1>0, <1>1, <2>1
<1>2. CASE missionIdentityOwner[i] \notin {NoAddress, w}
  <2>1. missionIdentityOwner' = missionIdentityOwner
    BY <1>2 DEF recordVerifiedDay, scoreVars
  <2>2. missionIdentityOwner[i] \in Wallets
    BY <1>0, <1>2
  <2> QED BY <1>0, <1>2, <2>1, <2>2
<1> QED BY <1>1, <1>2

LEMMA ScoresStayRight ==
  ASSUME RunInv, ScoreInv, [LockNext]_lockSystemVars PROVE ScoreInv'
<1>0. /\ EscrowTypeOK /\ LockInv
      /\ participantIdentity \in [PactIds -> [Wallets -> Identities \cup {NoIdentity}]]
      /\ scoredUtcDay \in [Wallets -> SUBSET Nat]
  BY DEF RunInv, LockInv, EscrowInv, EscrowTypeOK
<1>1. CASE UNCHANGED dayVars
  BY <1>1 DEF ScoreInv, ScoresFor, countedDays, counts, dayVars, identityVars, scoreVars
<1>2. CASE DaySubmitted
  <2>1. PICK w \in Wallets, p \in PactIds, d \in Int, e \in completions : Submission(p, w, d, e)
    BY <1>2 DEF DaySubmitted
  <2>2. PICK i \in Identities, t \in Nat, day \in Nat :
          i = e.identityHash /\ t = e.occurredAt /\ day = utcDay(t)
    <3>1. e.identityHash \in Identities /\ e.occurredAt \in Nat
      BY <1>0, <2>1, SubmissionTypes
    <3>2. utcDay(e.occurredAt) \in Nat
      BY <3>1, StravaConstants, DivBounds DEF utcDay
    <3> QED BY <3>1, <3>2
  <2> DEFINE new == [pactId |-> p, account |-> w, dayIndex |-> d, metric |-> e.metric,
                     eventNullifier |-> e.eventNullifier, occurredAt |-> e.occurredAt]
  <2>3. /\ completionsAccepted' = completionsAccepted \cup {new}
        /\ participantIdentity' = [participantIdentity EXCEPT ![p][w] = i]
        /\ participantIdentity[p][w] \in {NoIdentity, i}
        /\ recordVerifiedDay(w, i, t)
    BY <1>0, <2>1, <2>2, SubmissionTypes DEF Submission, bindIdentity
  <2>4. new.account = w /\ new.pactId = p /\ new.occurredAt = t
    BY <2>2
  <2> HIDE DEF new
  <2>5. /\ \A j \in Identities :
              missionIdentityOwner[j] \in Wallets
                 => missionIdentityOwner'[j] = missionIdentityOwner[j]
        /\ missionIdentityOwner'[i] \in Wallets
        /\ missionIdentityOwner'[i] = w <=> missionIdentityOwner[i] \in {NoAddress, w}
    BY <1>0, <2>3, OwnersStay
  <2>6. participantIdentity'[p][w] = i
    BY <1>0, <2>3
  (* Events accepted before count for whom they counted.                   *)
  <2>7. ASSUME NEW x \in completionsAccepted
        PROVE  /\ ScoresFor(x)' = ScoresFor(x)
               /\ \A v \in Wallets : counts(x, v)' <=> counts(x, v)
    <3>1. /\ x.pactId \in PactIds /\ x.account \in Wallets
          /\ participantIdentity[x.pactId][x.account] \in Identities
      BY AcceptedEvents
    <3>2. participantIdentity'[x.pactId][x.account] = participantIdentity[x.pactId][x.account]
      BY <1>0, <2>3, <3>1, StravaConstants
    <3>3. ScoresFor(x) \in Wallets
      BY DEF ScoreInv
    <3>4. ScoresFor(x)' = ScoresFor(x)
      BY <2>5, <3>1, <3>2, <3>3 DEF ScoresFor
    <3> QED BY <3>4 DEF ScoresFor, counts
  <2>8. \A v \in Wallets : counts(new, v)' <=> v = w /\ missionIdentityOwner'[i] = w
    BY <2>4, <2>6 DEF counts
  <2>9. ASSUME NEW x \in completionsAccepted' PROVE ScoresFor(x)' \in Wallets
    <3>1. CASE x = new
      BY <2>4, <2>5, <2>6, <3>1 DEF ScoresFor
    <3>2. CASE x \in completionsAccepted
      BY <2>7, <3>2 DEF ScoreInv
    <3> QED BY <2>3, <3>1, <3>2
  <2>10. ASSUME NEW v \in Wallets
         PROVE  countedDays(v)' = countedDays(v) \cup
                   {utcDay(x.occurredAt) : x \in {y \in {new} : counts(y, v)'}}
    BY <2>3, <2>7 DEF countedDays
  <2>11. CASE missionIdentityOwner[i] \in {NoAddress, w}
    <3>1. scoreDay(w, day) /\ scoreMissionDay(w, day)
      BY <2>2, <2>3, <2>11 DEF recordVerifiedDay
    <3>2. scoredUtcDay' = [scoredUtcDay EXCEPT ![w] = @ \cup {day}]
      BY <1>0, <3>1, ScoringAddsOneDay
    <3>3. counts(new, w)' /\ \A v \in Wallets \ {w} : ~ counts(new, v)'
      BY <2>5, <2>8, <2>11
    <3>4. countedDays(w)' = countedDays(w) \cup {day}
      BY <2>2, <2>4, <2>10, <3>3
    <3>5. ASSUME NEW v \in Wallets \ {w} PROVE countedDays(v)' = countedDays(v)
      <4>1. {x \in {new} : counts(x, v)'} = {}
        BY <3>3
      <4>2. {utcDay(x.occurredAt) : x \in {y \in {new} : counts(y, v)'}} = {}
        BY <4>1
      <4> QED BY <2>10, <4>2
    <3>6. ASSUME NEW v \in Wallets PROVE scoredUtcDay'[v] = countedDays(v)'
      BY <1>0, <3>2, <3>4, <3>5 DEF ScoreInv
    <3>7. \A v \in Wallets :
             /\ IsFiniteSet(scoredUtcDay'[v]) /\ missionDayScored'[v] = scoredUtcDay'[v]
             /\ verifiedDays'[v] = Cardinality(scoredUtcDay'[v])
             /\ missionVerifiedDays'[v] = verifiedDays'[v]
             /\ lockScore'[v] = LockScorePerDay * verifiedDays'[v]
      BY <1>0, <3>1, ScoringAddsOneDay
    <3> QED BY <2>9, <3>6, <3>7 DEF ScoreInv
  <2>12. CASE missionIdentityOwner[i] \notin {NoAddress, w}
    <3>1. UNCHANGED scoreVars
      BY <2>3, <2>12 DEF recordVerifiedDay
    <3>2. \A v \in Wallets : ~ counts(new, v)'
      BY <2>5, <2>8, <2>12
    <3>3. \A v \in Wallets : countedDays(v)' = countedDays(v)
      BY <2>10, <3>2
    <3> QED BY <2>9, <3>1, <3>3 DEF ScoreInv, scoreVars
  <2> QED BY <2>11, <2>12
<1> QED BY <1>0, <1>1, <1>2, DaysChangeBySubmission DEF RunInv

(* The score is ten a day for exactly the UTC days with an accepted run of *)
(* an athlete that scores for the wallet: none twice, none lost, over any  *)
(* number of Locks, wallets and athletes (_recordVerifiedDay).             *)
THEOREM UtcDaysScoreOnce == LockSpec => []ScoresCountUtcDaysOnce
<1>1. ASSUME LockInit PROVE ScoreInv
  <2>1. /\ completionsAccepted = {} /\ scoredUtcDay = perWallet({})
        /\ missionDayScored = perWallet({}) /\ verifiedDays = perWallet(0)
        /\ missionVerifiedDays = perWallet(0) /\ lockScore = perWallet(0)
    BY <1>1 DEF LockInit, EscrowInit
  <2>2. \A w \in Wallets : /\ scoredUtcDay[w] = {} /\ missionDayScored[w] = {}
                           /\ verifiedDays[w] = 0 /\ missionVerifiedDays[w] = 0
                           /\ lockScore[w] = 0
    BY <2>1 DEF perWallet
  <2>3. \A w \in Wallets : countedDays(w) = {}
    BY <2>1 DEF countedDays
  <2>4. Cardinality({}) = 0 /\ IsFiniteSet({})
    BY FS_EmptySet
  <2>5. LockScorePerDay * 0 = 0
    BY StravaConstants
  <2> QED BY <2>1, <2>2, <2>3, <2>4, <2>5 DEF ScoreInv
<1>2. RunInv /\ ScoreInv /\ [LockNext]_lockSystemVars => ScoreInv'
  BY ScoresStayRight
<1>3. ScoreInv => ScoresCountUtcDaysOnce
  BY DEF ScoreInv, countedDays, counts, ScoresCountUtcDaysOnce
<1> QED BY <1>1, <1>2, <1>3, RunInvIsInvariant, PTL DEF LockSpec
=============================================================================
